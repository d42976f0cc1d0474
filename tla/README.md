# A verification of end-to-end SMKEX

TLA+ models of the C++ program in `src/`: a SIP softphone library (built on
pjsua) with an SMKEX key exchange between two buddies, whose records travel as
instant messages through an automatic resend engine.  The models are checked
with TLC, and the theorems of the proof modules with TLAPS.

| module | what it is |
|---|---|
| `Smkex` | the handshake state machine of two buddies, both threads of each |
| `SessionKeys` | what the handshake promises, without its messages |
| `MCSmkex` | the sets its configurations use |
| `SmkexProofs` | theorems about `Smkex`, that it implements `SessionKeys`, and that its backlog is bounded |
| `HandshakeProofs` | theorems about handshakes without losses: keys and nonces |
| `AutoResend` | the resend engine, its pools, locks, and the message transport |
| `Outbox` | what the engine promises, without threads, locks and retries |
| `MCAutoResend` | the sets and bounds its configurations use |
| `AutoResendProofs` | theorems about `AutoResend`: locks, wake-ups, no loss |
| `OutboxProofs` | that `AutoResend` implements `Outbox` |
| `Delivery` | the engine with the network below it and the far ends |
| `Channel` | what arrives, and in which order, without how |
| `MCDelivery` | the sets and bounds its configurations use |
| `DeliveryProofs` | that `Delivery` implements `Channel`, and that what is reported as sent has arrived |
| `Account` | login and logout, the SIP stack's life cycle, the buddy list |
| `MCAccount` | the sets and bounds its configurations use |
| `AccountProofs` | theorems about `Account`: list and subscriptions, the logout |
| `Calls` | the call manager, its handlers nested in pjsua's operations |
| `PhoneLine` | what the application is told of calls, without how |
| `MCCalls` | the callbacks and bounds its configuration uses |
| `CallsProofs` | theorems about `Calls`, and that it implements `PhoneLine` |
| `Records` | the bytes of a record, from its sender to its receiver |
| `MCRecords` | the serials, data and alphabet its configuration uses |
| `RecordsProofs` | that every record is read as it was written |

## 1. Inventory

### The parts of the program

Two kinds of thread run in a process: the threads of the application, and
pjsip's worker thread, on which every `on_...` callback runs.

| component | state | operations | correct when |
|---|---|---|---|
| **smkex** (`smkex/src/Smkex.cpp`, `SmkexSessionInfo.cpp`) | `smkexKeychain`: per buddy a `SmkexSessionInfo` (status, nonces, keys, hash received, role) | `initSession`, `processSmkexMessageSip`, `sendKeyOrNonce`, `sendNonceH`, `sendAlert` | a connected session has the key of the buddy, both ends the same one, and a handshake ends |
| **smkexrecord, crypto** | none | serialise a record; EC key pair, ECDH, hash | a record survives the round trip |
| **auto_resend** (`MpAutoResendEngine.cpp`, `MpMsgPool.cpp`, `MpMsgPayload.cpp`) | `userPool_` (messages, weight, dirty flag per user), `priority_`, `started_`, `autoResendEnabled_` | add, sync, remove, resend messages; `startEngine`, `sendMessage`; callbacks `messageStatus`, `buddy_state2` | no message is lost or sent twice at a time, none is forgotten, users take turns |
| **data_msg** (`MpMsgTransport.cpp`, `MpMsgManager.cpp`, `MpMsg.cpp`) | one message slot `msg_` and its `counter_` | `sendMessage`, `onSendMsgDone`, `removeMessageForSerial`; dispatch of what is received | each status belongs to the message in the slot |
| **sip_stack** (`MpSIPStack.cpp`) | `started_`, `acc_id_` | start, stop, `sendMsg`, subscribe, call operations, the pjsua callbacks | a start that fails and a stop leave a state from which it can start again |
| **buddy** (`MpBuddyList.cpp`, `MpBuddy.cpp`, `MpPresence.cpp`) | the buddies and their presence | add, remove, reset, `buddy_state` | list and subscriptions agree |
| **user_account** (`MpUserAccount.cpp`, `MpAccSettings.cpp`, `MpRegistration.cpp`) | account settings, requested status, callbacks | login, logout, `registration_state` | the status reported is that of the account logged in |
| **call_manager** (`MpCallManager.cpp`, `MpCall.cpp`) | `call_id_`, `lastAnswerMode_`, the call timer, the pool of callbacks | call, answer, reject, hold, end, `onCallState`, `onIncomingCall` | the application hears of one call at a time; the timer runs only while a call is set up |
| **utils** (`MpLock`, `MpRWLock`, `MpPool`, `MpBuffer`, `MpSingleton`, ...) | mutexes, callback pools, buffers | | no cycle of locks |
| **base_service, config, tests, pjsua.h, build** | wiring, constants, the tests and `MpMain.cpp`, the vendored header, generated files | | |

### How they interact

The application calls `Smkex::initSession`; `Smkex` wraps each record in a
message and gives it to `MpAutoResendEngine::addMessage`.  The engine chooses a
pool and hands its message to `MpMsgTransport::sendMessage`, which calls
`MpSIPStack::sendMsg` (`pjsua_im_send`).  The worker thread reports the status
of the transfer through `on_pager_status` → `onSendMsgDone` →
`messageStatus`, which settles the message and starts the engine for the next;
it delivers what arrives through `on_pager` → `MpMsgManager::onMsgReceived` →
`Smkex::onMsgReceived` → `processSmkexMessageSip`, whose answers are again
`addMessage` calls; and it reports presence through `on_buddy_state` →
`MpBuddyList::buddy_state` → `buddy_state2` of the engine.

### What is hard

* **Two threads, one session, no lock.**  `initSession` sends the key and the
  nonce before it assigns the status in which the answers are expected
  (`Smkex.cpp:174`); the worker may process them in between.
* **Glare.**  Both buddies call `initSession` at once and each takes the
  other's records for answers.
* **Restart, loss, repetition.**  A process comes back with a new key pair; a
  record is given up, or delivered twice because its acknowledgement was lost.
* **Stale data.**  `sendNonceH` hashes the remote nonce of an earlier round.
* **A verdict nobody can foresee.**  `verifyH` compares hashes of C strings as C
  strings, although keys, nonces and hashes are binary: an honest buddy may be
  refused, after it took the session for connected.
* **Four locks in two orders.**  `startEngine` takes `startedLock_`,
  `userPoolLock_`, `msgLock_`; the status callback takes them the other way
  round, kept apart only by `started_`.
* **Split critical sections.**  `sendMessage` resets `started_` after it
  unlocked the pools; `removeMessagesForSerial` works in two halves.
* **A circle of threads.**  The buddy list keeps its lock while the SIP stack
  subscribes, the SIP stack keeps its lock while it resets the list and while
  `pjsua_destroy2` waits for the worker thread, and the worker takes both.
* **A half started stack.**  `login` starts the stack before it has the account's
  settings, and a start that fails leaves whatever pjsua had created.
* **A status without a message.**  The transport takes each status for the
  message in its slot.
* **Callbacks within callbacks.**  pjsua reports a state from inside the
  operation that causes it: a callback that answers, and the manager when it
  rejects, are called again before they return.
* **A rejected call goes on.**  pjsua reports its further states like those of
  any other call, also when the first call is over.
* **Numeric edges.**  `INT_MAX + 1` as a weight; `strlen` on binary keys; a
  copy of 256 bytes into 65.

`PROJECT.json` lists each of these, with its line and the properties about it.

## 2. The models

### Smkex

Two peers A and B.  `sess[p]` is p's `SmkexSessionInfo` about the other;
`known` says whether the keychain has it; `net[p]` is the queue of records
towards p; `pc[p][t]` says where thread t ("app" or "sip") is inside
`initSession` or a handler.

| code | actions |
|---|---|
| `initSession` (`Smkex.cpp:110-183`) | `AppCallsInitSession`, then `InitSuppressed`, `InitWithoutSession`, or `InitBegin`, `InitSendKey`, `InitSendNonce`, `InitSetStatus`: one step per send, because that is where the worker may overtake |
| `processSmkexMessageSip`, handshakeKey | one action per case of the switch on the status: `KeyNotConnected`, `KeyWaitKeyNonceHDest`, `KeyWaitKeyDest`, `KeyConnected`, `KeyIgnored` |
| handshakeNonce | `NonceWaitNonceInit`, `NonceWaitKeyNonceHDest`, `NonceConnected`, `NonceRefused` |
| handshakeNonceH | `NonceHWaitKeyNonceHDest`, `NonceHWaitNonceHDest`, `NonceHWaitNonce2HInit`, `NonceHIgnored` |
| `sendNonceH`, `calculateH`, `verifyH` | `NonceHRecord`, `Verdict` and `Refuse`, in the actions that call them |
| alert | `AlertReceived`: the worker itself enters `initSession` when the session was initiated here |
| the last `status = ...` of a handler that sends first | `HandlerFinish` |
| `exit`/a wild copy or pointer | `Die`, as a branch of the action in which it happens |
| the network, the user | `Lose`, `Duplicate`, `Crash`, `Restart` (external) |

Keys and nonces are terms: a key pair is the number of the process that made it,
a nonce the name of its draw.  An uninitialised field is `Garbage`.

Hashes are left out, because nothing can be said of them.  `calculateH` hashes
`strlen()` bytes of binary buffers (`Smkex.cpp:213`): a zero byte cuts a key or
nonce short, and one without a zero byte takes in what lies behind its buffer.
`verifyH` compares two such hashes with `strncmp`, which stops at a zero byte of
theirs, and returns its result as it is (`:304`), so that equal hashes are a
refusal; and one of the two hashes is over `local_nonce2`, which is never sent
(`:275`).  `Verdict` therefore leaves the result open: each time the buddy is
accepted or refused (`Refuse`: an alert, and back to `notConnected`), whatever
the two have stored.  `MaxRefusal` bounds the refusals of a run.

`SessionKeys` is the abstract specification: session keys are derived only
while not connected, and only from a key pair the buddy has had; a session is
announced with a key only; a restart forgets the key.  `Smkex` refines it with
`gen <- inc`, `key <- ` the stored session keys, `up <- ` the connected peers.

### AutoResend

`users`, `pool` and `priority` are `userPool_` and `priority_`; `started` and
`autoResend` the two flags; `slot` the transport's `msg_` and `counter_`;
`pending` the requests pjsip still owes a status for.  A step is a critical
section: it ends where the thread has to wait for its next lock, and `held`
keeps the locks it does not give up in between, so lock cycles are states of
the model.

| code | actions |
|---|---|
| `addMessage`, `syncWithDBConnectors` | `AddMessage`; `SyncBegin`, `SyncAdd` |
| `startEngine`, `sendMessage` | `StartEngine`, `SortMessages`, `ScanGivesUp` (a pool of an unreachable user is given up), `ScanSends`, `ScanEnds`, `Stop` |
| `MpMsgTransport::onSendMsgDone` | `OnSendMsgDone` |
| `messageStatus` | `Notify`, `SettleSent` or `SettleFailed` and `MarkFailed`, `Restart` |
| `buddy_state2` | `BuddyOnline` |
| `removeMessagesForSerial` | `RemoveMessages` (the transport's half), `Erase` (the pool's half) |
| `resendMessage`, `setAutoResendEnabled` | the actions of these names |
| `startSIPStack`, `stopSIPStack` | `StartSIPStack`, `StopSIPStack`: only that open requests go with it |

Constructors, setters and `addDBConnector` run before the threads exist and are
in `Init`.  Payloads are numbers, and `Uid` gives each the uid its creator chose:
distinct ones (as the tests do), or always 1 (as `Smkex.cpp:90` does).

`Outbox` is the abstract specification.  Messages are numbered in the order they
are added; a user's queue is the set of those waiting.  One is transferred at a
time and none twice; a message overtakes an older one of its user only when that
one was given up for the moment (`parked`); and a message leaves its queue by
being transferred or forgotten.  `AutoResend` refines it with `queue <- Queue`
(the messages of a pool that were not transferred yet), `parked <- Parked`
(those of them marked processed), `unreachable <- Unreachable` (the dirty
pools), `flight <- InFlight` (what is in the transport's slot, until its result
is settled) and `added <- 1 .. added`.  Weights, locks, retries and `started_`
have no counterpart there.

### Delivery

`Delivery` puts the network and the far ends under `AutoResend`.  `transfer` is
where the last transfer of the slot's message is: not under way, open, or
arrived.  `inbox[u]` is what arrived at u, in that order, and `offered[u]` what
was ever in u's pool (history).

| code | actions |
|---|---|
| `sendMessage` of the transport, `MpSIPStack::sendMsg` | `Transfers`: `ScanSends`, which opens a transfer when pjsip accepts the request |
| `on_pager` of the far end | `Arrive` |
| `on_pager_status`, `onSendMsgDone` | `Reported`: `OnSendMsgDone`, which opens the next transfer of the same message or ends the last one |
| everything else in the engine | `Aside` |

Assumed of pjsip and the network: a transfer arrives at most once (a server
transaction absorbs retransmissions), a success is reported only of a transfer
that arrived, and one whose failure was reported does not arrive any more.
Nothing is assumed of a stop: a request that was open then may still arrive.  A
message arrives more than once when the report of its arrival is lost and the
engine transfers it again.

`NothingUnparked` says that this is the engine of the program: it starts with
`autoResendEnabled_(false)` (`MpAutoResendEngine.cpp:12`), and only the engine's
tests call `setAutoResendEnabled` and `resendMessage`.  With either, TLC finds
`ImplementsChannel` violated: a parked message is sent after a later one.

`Channel` is the abstract specification: messages are offered in the order of
their numbers, and one arrives only where it was offered and never after a
later one of its user.  Some never arrive, some arrive repeatedly.

This is the queue the handshake works over.  In `Smkex` `net[p]` is what was
offered and has not arrived at p yet; a message of `Channel` that is skipped is
a `Lose`, one that arrives again is a `Duplicate`, which puts the head there
twice, and what arrives otherwise is in the order sent.  This
correspondence is an argument, not a theorem: the two are not composed in one
module, where TLC would have to run two engines under each state of the
handshake.

### Account

`started`, `settings`, `list`, `reqStatus` and `cb` are `started_`,
`accSettings_`, `buddyList_`, `reqStatus_` and the pool `regCb_`; `pjsua`,
`registered` and `subs` are what the library keeps: whether it runs, its
account and its subscriptions.  Steps and `held` are as in `AutoResend`.

| code | actions |
|---|---|
| `login`, `startSIPStack` | `Login`, then `StartedAlready`, `StartSIPStack` or `StartFails`, and `LoggedIn` for the settings, assigned without a lock |
| `logout`, `stopSIPStack` | `Logout`, `StopSIPStack`, `Reset` (of the buddy list), `Destroy`, then `registration_state` |
| `registration_state`, `on_reg_state` | `OnRegState`, `RegistrationState` (reads `reqStatus_`), `NotifyCallback` |
| `addRegCallback`, `rmRegCallback` | `AddRegCallback`; `RmRegCallback`, which keeps its lock, and `RmPoolData` |
| `addBuddy`, `subscribe` | `AddBuddy`, `Subscribe` |
| `rmBuddy`, `unsubscribe` | `RmBuddy`, `Unsubscribe` |
| `on_buddy_state`, `buddy_state` | `OnBuddyState`, `BuddyState`; `IsSipStackStarted` for a callback that starts the resend engine |
| `on_pager` | `OnPager`, as far as it leads to `IsSipStackStarted` |

`pjsua_destroy2` joins the worker, so `Destroy` waits until "sip" is idle.  A
call that changes nothing (a buddy added twice, an unknown serial removed) is
left out.  `setPresList` only stores the list: presence reaches the resend
engine, and `isSipStackStarted` is asked under the list's lock, only where the
application registers the engine with `addPresenceCb`; `BuddyState` and
`AutoResend`'s `BuddyOnline` are about that program.  Not modelled:
`setOnline`, the account's id, and the buddies' presence itself.

### Calls

`callId`, `lastAnswerMode`, `timer` and `pool` are `call_id_`,
`lastAnswerMode_`, whether the call timer runs, and `callCb_`; `inv`, `caller`
and `closing` are what pjsua keeps of a call.  `stack` holds the handlers that
run: an operation of pjsua that changes a call's state puts the handler of the
new state on top of the one it was called from.  `line`, `told` and `refused`
are history.

| code | actions |
|---|---|
| `on_call_state`, `on_incoming_call` | `OnCallState`, `IncomingCall`: pjsua puts the handler on the stack |
| `onCallState`, `onIncomingCall` | `RejectSecond`; or `Announce` (call id, answer mode, timer, a copy of the pool), `Tell` once per callback, `Done` (the timer of an incoming call, then the 180 of `on_incoming_call`) |
| `callBuddy`, `MpSIPStack::call` | `CallBuddy`, `MakeCall` |
| `answerCall` | `AnswerCall` reads `call_id_`, `SIPStackAnswerCall` uses it |
| `rejectCall` | `RejectCall`, `RejectCallAgain` (it reads `call_id_` twice), `SIPStackRejectCall` |
| `endCall`, `holdCall` | `EndCall`, `HoldCall` |
| `addCallCb`, `rmCallCb`, `MpPool` | `AddCallCb`, `RmCallCb`, which wait until no handler uses the pool |

Assumed of pjsua: it calls its callbacks one at a time, and an operation of
another thread waits for them (pjsua's lock and that of each call,
`PJSUA_ACQUIRE_CALL_TIMEOUT` in `pjsua.h:328`).  With that, `MpSIPStack::lock_`
is never contended, and is left out; whether a thread may hold `lock_` and wait
for pjsua while a callback holds pjsua's and waits for `lock_`, which the
comment in `MpSIPStack.cpp:415` hints at, is outside the model.  `AutoAnswer` says which
callbacks answer from `call_callee_incoming`: `MpCall` does.  Left out: mute,
unhold, sound devices and `onHold`, which nothing reads; `enaWatchdog` and
`endWatchdogCall`, which only call the application; a timer that fails to
start, and one that is not set.

`PhoneLine` is the abstract specification: a call starts when none is on the
line, goes through its stages in order and ends; another one is refused, and
something may be told of a refused call only while the line is free.

### Records

A record is put together (`GetSmkexT4mRecord2`), serialised, prefixed with the
message type (`SetPayload`), sent with the sender's address (`FromHeader`), and
at the other end the serial is taken out of the address and the record out of
the bytes.  `behind` is whatever byte lies behind a buffer, for the reads that go
too far.  `Base` is the number of values of a byte: with 8, two-digit lengths
occur with short strings.  The hash is not there: `strlen` of a nonce without a
zero byte covers whatever follows the buffer, so nothing can be claimed of it.

## 3. The runs

Smkex, with `Preempt` allowing the two threads of a process to interleave,
`Registered` the peers whose application adds the session first (as
`MpMain.cpp:86-92` does), `MaxRefusal` how often `verifyH` is false, and
`NonceNames` 0..7, more than any run draws:

| run | bounds | shows |
|---|---|---|
| `smkex_glare` | one or both initiate, threads interleave, one repetition, one refusal, fairness | `KeyAgreement`, `NoncesAgree`, `PeerHasKey`, `BacklogBounded`, and `HandshakeSettles` |
| `smkex_restart` | both initiate, one crash, loss, repetition and refusal, B without a session at first | `TypeOK`, `ConnectedHasGenuineKey`, `BacklogBounded`, and that `Smkex` implements `SessionKeys` |
| `smkex_share_key` | A initiates, is restarted and initiates again | violated: both ends connected, with different keys |
| `smkex_overtaken` | A initiates, threads interleave, fairness; nothing lost, repeated or refused | violated, `KeyExchangeIsPerformed`: the worker overtakes `initSession`, and the handshake stops half way |

One initiator and one call reach every status; two initiators reach the
statuses only a collision enters.  One loss and one repetition are enough for
every handler to meet a record it does not expect.  `PeerHasKey` and
`NoncesAgree` hold for any number of repetitions and calls as long as nothing is
lost and nothing restarted (section 4).  With two losses and a renegotiation a
peer can be connected to one that has no key, and one loss or one restart is
enough for two connected peers to disagree about a nonce.

`HandshakeSettles` is about the behaviours in which only one application starts
a handshake and the worker of neither process is at work while its application
is inside `initSession`; both restrictions are in the formula, and the run has
the other behaviours too.  Without the first one it is false (colliding
initiators), without the second one as well: that is `smkex_overtaken`.  It says
that the two ends agree in the end: both are connected for good, or neither is,
and then `verifyH` refused once.  In between, a repeated record may disconnect
both again and restart the handshake.  It is a claim about these bounds only:
with three repetitions the alerts can go on for ever (two do no harm).
`BacklogBounded` holds for all bounds (section 4), and its constants are not the
least ones.

AutoResend, with two users and `Retries` 2 (so that a transfer is repeated):

| run | bounds | shows |
|---|---|---|
| `engine_everyday` | the engine over the network (`Delivery`), one application thread, three messages, one buddy-online, fairness | `NoDeadlock`, `NoLostWakeup`, `Running`, `SentHasArrived`, `EveryMessageSettled`, that `AutoResend` implements `Outbox` and that `Delivery` implements `Channel` |
| `engine_disturbed` | two application threads, two messages, and one each of removal, sync, stop, immediate failure, buddy-online, resend and switch of the option; users and threads are interchangeable, and TLC uses that symmetry | `TypeOK`, `OneInFlight`, `NoMessageLost`, `PoolsPrioritised`, and that `AutoResend` implements `Outbox` |
| `engine_same_uid` | three messages with uid 1 | violated: a success removes a message that failed before, and not the one transferred |
| `engine_removed_stall` | one removal, fairness | violated: the engine waits for a status that is not reported |

Two users are needed for turns, three messages for a pool with two while the
other has one.  `IntMax` is 5, above every weight three messages can count up
to, so that it is reached by giving up a pool and overflows only by
`resendMessage`, as in the code.  `Delivery` only adds the network to the engine
and takes none of its steps away, so that one run checks what the engine
promises and what the far end sees.  Each transfer may arrive or not, and one
that arrived may still fail, within its `Retries`.  `SentHasArrived` and
`ImplementsChannel` are proved for removals, syncs, stops and immediate failures
as well (section 4).

`NoDeadlock`, `NoLostWakeup` and `Running` are checked without removals, syncs
and stops, and they need that: `syncWithDBConnectors` takes `dbConnLock_`
before `userPoolLock_` while `markUserPoolProcessed` takes them the other way
round, a sync adds messages without starting the engine, and a removal or a
stop leaves `started_` true with nothing in flight.  With one sync allowed TLC
finds the lock cycle.

Account, with two application threads:

| run | bounds | shows |
|---|---|---|
| `account_life_cycle` | two buddies and two pjsua ids, two logins and two logouts, three buddy calls, two callback calls, one report, one failure, one failed destroy | `TypeOK`, `ListAgrees`, `LogoutReported` |
| `account_circle` | one buddy, one login, one logout, one buddy call | violated: a buddy added during a logout, each thread waiting for the other's lock |

Two logins and two logouts make a stack that is started again, with a buddy
left from before or not; two buddies compete for ids.  Only one thread
(`Admin`) logs in and out, as in `MpMain.cpp`, where only `main` does: with two, `LogoutReported` fails
because `registration_state` reads `reqStatus_` after the other has changed it.

Calls and Records:

| run | bounds | shows |
|---|---|---|
| `calls` | two call ids, two calls placed and two received, two orders of the application, two changes of the pool, two callbacks of which one accepts | `TypeOK`, `TimerWhileSettingUp`, `ToldOnlyRegistered`, and that `Calls` implements `PhoneLine` |
| `records` | three serials, one of them containing "sip:"; three kinds of data, with zero bytes at the end, at the start and inside; two timestamps; every byte behind a buffer | `TypeOK`, `RecordArrives`, `PeerIsSender` |

Two ids are a call on the line and one refused, and each id is used again by a
later call.  A third id (checked once, five million states) adds a second
refused call and shows nothing else.  `TimerWhileSettingUp` is about programs
whose callbacks answer as `MpCall` does; with `MpCallDeclines` it fails (see
below).  A serial, in `records`, contains no '@', which a SIP address would
escape; its longest one and the longest data need the second byte of their
length.

Deadlock checking is off in all runs but `records`: the threads of `Account` rest when their
calls are over (or wait in a circle, `NoCircle`), the peers rest when the handshake is
over and its bounds are spent, and the engine rests when nothing is left to
send.  Lock cycles are a property of their own (`NoDeadlock`).

### Fairness

`Smkex`: weak fairness of each thread of each peer, that is: threads are
scheduled, and pjsip's worker polls and handles what arrives.  Nothing is fair
about losses, repetitions, crashes, the verdicts of `verifyH` or calls of the
application.  `AutoResend`:
weak fairness of each thread inside a method (locks are granted when free), of
the status callback, and of `Report` (pjsip reports a status for each request it
accepted, at the latest when it times out).  `Delivery` adds nothing to that: a
transfer need not arrive, and its failure is reported if it does not.

### Divergences seen

Each "violation" run is a finding of `PROJECT.json`.  Further ones met in
counterexamples while the models were written, which no run repeats:

* `verifyH` returns the result of `strncmp`, which is not 0 when the hashes
  differ, against "returns true is H verifies and 0 if it does not verify"
  (`Smkex.cpp:304`, `Smkex.h:219`).  Peers connect as a rule all the same,
  because `sendNonceH` hashes `local_nonce2` and not the nonce it sends
  (`Smkex.cpp:275`, `:288`), so that the hashes differ;
* as `calculateH` hashes C strings (`Smkex.cpp:213`) and `strncmp` compares them
  as such, hashes of honest buddies can agree nevertheless, for instance when the
  nonces concerned start with a zero byte: then the honest buddy is refused;
* after a refusal the initiator does not start again by itself: the comment in
  `Smkex.cpp:393`, "possibly start again if I am initiator", is not implemented,
  and an alert restarts only an initiator that receives one;
* where both start, one may end up connected and the other not;
* a callback that rejects the call in `call_callee_incoming` ends it before
  `onIncomingCall` starts the timer, which then runs for a call that is over
  (`MpCallManager.cpp:160`; `MpCallDeclines`);
* when `MpCall` answers, the callbacks behind it hear "connecting" before they
  hear of the incoming call (`MpCall.cpp:23`);
* after the first call is over the application hears of the call that was
  refused meanwhile, and as long as that one is dying a new call is refused
  (`MpCallManager.cpp:79-89`);
* `rejectCall` asks about one `call_id_` and hangs up another if a call comes in
  between (`MpCallManager.cpp:185`, `:188`); `answerCall` reads it before it
  waits (`:169`), and pjsua may have given the id to a newer call;
* `lastAnswerMode_` is reset by the state an answer brings about
  (`MpCallManager.cpp:110`), so that an accept leaves no trace, and is not reset
  by a new outgoing call, against the comment "Reset last answer mode when a
  new call begins" (`:100`);
* `holdCall` stops a timer that may not be set (`MpCallManager.cpp:216`), and a
  callback that calls `rmCallCb` waits for itself;
* a buddy added between `startSIPStack` and the assignment of `accSettings_` is
  subscribed at the address of the empty settings (`MpUserAccount.cpp:49`,
  against "[THREAD SAFE]" in `MpBuddyList.h:60`);
* colliding initiators both have `iAmSessionInitiator`, so an alert restarts
  both, possibly for ever (`Smkex.cpp:496`);
* `initSession` without a session ends in `printRecord`'s `exit`
  (`Smkex.cpp:139`, `smkexrecord.cpp:204`);
* each added message resets its user's weight, so a busy user is served again
  and again (`MpAutoResendEngine.cpp:226`, against the comment in line 106);
* a second `initSession` over a connected session stops half way, with one
  side disconnected (`Smkex.cpp:398`);
* `resendMessage` increments a weight of `INT_MAX` (`MpAutoResendEngine.cpp:331`),
  which overflows, so that a user given up gets the weight of the user to be
  served first, against "This function prioritize a user queue"
  (`MpAutoResendEngine.h:180`);
* `rmRegCallback` returns with `lock_` (`MpUserAccount.cpp:75`, against "(THREAD
  SAFE)" in `MpUserAccount.h:93`), so a second thread that calls it waits for ever;
* a message picked between the two halves of `removeMessagesForSerial` is sent
  although removed (`MpAutoResendEngine.cpp:275`);
* `startSIPStack` calls `stopSIPStack` "for safety, if it was partially
  started", which returns at once while `started_` is false, and `pjsua_create`
  then runs over the instance that is there (`MpSIPStack.cpp:177`, `:184`);
* `started_` survives a stop of the SIP stack with a request open
  (`MpAutoResendEngine.cpp:290`).

## 4. The proofs

Every theorem is of the form `Spec => ...` and holds for all values of the
constants that satisfy the named assumptions of its module: any number of users,
threads, messages, calls or buddies, and any budget of losses, restarts,
removals and so on.  Where a theorem has a further hypothesis, it is one the
code gives a reason for, and the runs or findings show that it is needed.

| theorem | hypothesis | why it is needed |
|---|---|---|
| `SmkexProofs`: `SpecTypeOK`, `SpecConnectedHasGenuineKey`, `SpecKeyAgreement`, `SpecBacklogBounded`, `SpecImplementsSessionKeys` | | (`KeyAgreement` itself speaks of states without a restart; after one, `smkex_share_key` violates the like) |
| `HandshakeProofs`: `SpecPeerHasKey`, `SpecNoncesAgree` | `NothingLost`: no loss, no restart | a key or nonce that is lost or forgotten is not sent again: TLC refutes `NoncesAgree` with one loss, and with one restart |
| `AutoResendProofs`: `SpecTypeOK`, `SpecPoolsPrioritised`, `SpecOneInFlight` | | |
| `SpecNoDeadlock` | no sync | `syncWithDBConnectors` and `markUserPoolProcessed` take two locks in opposite orders |
| `SpecRunning` | no removal, immediate failure or stop | each leaves `started_` set with no status to come: `engine_removed_stall` |
| `SpecNoLostWakeup` | no sync, no stop | a sync adds without starting the engine; without a stack nothing starts |
| `SpecNoMessageLost`, and `OutboxProofs`: `SpecImplementsOutbox` | `DistinctUids` | messages are removed by uid: `engine_same_uid` |
| `DeliveryProofs`: `SpecSentHasArrived`, `SpecImplementsChannel` | | (`NothingUnparked`, an assumption of `Delivery`, says that the program never unparks a message; distinct uids are not needed) |
| `AccountProofs`: `SpecTypeOK`, `SpecListAgrees` | | |
| `SpecLogoutReported` | `OneAdmin`: one thread logs in and out, as in `MpMain.cpp` | two of them overwrite each other's `reqStatus_` |
| `CallsProofs`: `SpecTypeOK`, `SpecToldOnlyRegistered`, `SpecImplementsPhoneLine` | | |
| `SpecTimerWhileSettingUp` | `Accepts`: callbacks that answer accept, as `MpCall` does | a callback that rejects leaves the timer running |
| `RecordsProofs`: `SpecTypeOK`, `SpecRecordArrives`, `SpecPeerIsSender` | | (`RecordConstantsOK` asks that the bracket of an address and its schema start differently, as `<` and `sip:` do) |

### Smkex

The properties are about sessions, but a session is filled from records and a
status is assigned a step after it was decided.  The inductive invariant `IInv`
therefore adds to `TypeOK`: every record on its way to p holds a key its buddy
has had or a drawn nonce (`GoodMessage`); every session holds only such data or none
(`GoodSession`); and a session whose
status only follows a derivation, or whose handler is about to assign such a
status, has a key (`Keyed`).  Whatever `verifyH` says is allowed
(`VerdictKeepsIInv` has both cases), so no theorem rests on a hash.  One
lemma per handler shows that it keeps `IInv`; the lemmas `StoreThenKeepsIInv`
and `StoreOnlyKeepsIInv` hold the part all of them share.

`PeerHasKey` needs the order of records.  A peer without a key has received
nothing yet (`KeylessInv`): it did nothing but call `initSession`, what it sent
lies unread in its buddy's queue, keys before nonces, or was read by a buddy
that cannot be connected by it; and the first record it will receive is a key.

`NoncesAgree` is about quiet states only, so its invariant says how p comes to
know the nonce its buddy q has (`Learns`): it knows it; or q is still in
`initSession` and will send it; or it is announced in a handshakeNonce on its
way; or everything on its way brings that nonce and p has to receive it before
it can be connected.  Queues keep their order, so behind a record with q's
nonce there is no older one.  A stale `remote_nonce` in a hash does not matter
for that, since it is not what p keeps.

`BacklogBounded` is a matter of counting.  Alerts restart handshakes, and
handshakes sent into a busy session cause alerts, so the question is whether
this can multiply records.  `BacklogInv` says that it cannot:

* each nonce, hash and alert takes the place of one that was received, or of a
  call of `initSession`, a repetition or a refusal (which sends a hash and an
  alert for one record): what is on its way of these, plus what
  peers are about to send of them (`InHand`: one while a thread is in
  `initSession` and has not sent its nonce, one in `waitKeyDest`), never exceeds
  `Spent`, the calls, repetitions and refusals so far (`0 <= Slack`);
* keys are answered by keys, but only in `notConnected`, which the answer
  leaves.  So between two other records a peer sends at most two keys, one from
  `initSession` and one answer: behind each place of a queue there are no more
  keys than two for each other record, plus `Room`, what its sender may have
  sent since its last one, plus `Slack` (`Spaced`);
* of a dead process nothing is on its way (`Silent`), so that its successor
  starts with nothing to account for.

The lemmas about `Count`
say how a queue's records of one kind change with `Append`, `Tail` and a repeated
head; `PeerStep` holds the arithmetic that all steps of a peer share.

### AutoResend

`Base` is `TypeOK`, `PoolsPrioritised` and that the slot names a message while
its result is to come.  `Control` says which locks a thread holds in each section (`HeldOK`, `Mutex`) and, in
`OneTask`, what `started_` keeps apart: an open request, the worker's callback
and a thread inside `sendMessage` exclude each other, which is `OneInFlight`
and the reason why the two lock orders never meet (`SpecNoDeadlock`).
`Follows` (a started engine has an answer or a thread that goes on) and `Awake`
(a message ready to be sent finds the engine on, with nobody about to leave, or
a thread about to start it) add the liveness of its control as safety;
`Recorded` says that a success about to be settled is in `sent`.

The refinement of `Outbox` needs more, `OutboxInv`: each pool holds its messages
in rising order and no message is in two (`Numbered`); a pool goes with its last
message (`Filled`); and until a transfer is settled its message is in no other
user's pool, its user has not failed, and a message that was transferred is in a
pool for the moment of its settling at most (`Aimed`).  One lemma per action
maps it to an action of `Outbox` or a stutter: a message picked (`ScanSends`) to
`Take`, the success recorded by the worker (`Notify`) to `Deliver`, `SettleFailed`
to `Fail`, a pool given up (`ScanGivesUp`, `MarkFailed`) to `GiveUp`,
and the two halves of a removal to `Abandon` and `Forget`.

### Delivery

The messages `getMessage` may choose from are the *eager* ones: invitations and
those not marked processed.  While nothing is unparked a pool only thins out or
grows at its end, and no message becomes eager again (`PoolsThin`, `Grows`: one
lemma per action of the engine).  `DeliveryInv` builds on that: pools are in
rising order and resending is off (`Ordered`); what is in a pool or arrived was
offered (`Tracked`); nothing that arrived has passed an eager message
(`InTurn`); the message under way was passed by none and is before all eager
ones of its user (`Foremost`); while one is under way no thread is at the scan
for the next (`Exclusive`); and a success that is about to be recorded is of a
message that arrived (`Truthful`).  The last needs no `DistinctUids`: the wrong
message may be removed (`engine_same_uid`), but the one recorded as sent is the
one in the slot.

### Account

`Locks` says who holds the list's and the stack's lock.  From that, `Lists`: the
list and pjsua's subscriptions agree except for the one buddy the lock's owner
is at work on.  `Told` adds what the thread that logs in and out is about to
report, and that without pjsua nothing follows a logout.

### Calls

`Typed` adds to the types that `rejectCall`, once it asked, has a call.  `Telling`:
the copy of the pool a handler goes through is of the pool as it is, because
changes wait for handlers.  `PhoneInv` relates the stack of handlers, at most
two deep, to the line: the call on the line is the manager's own at the stage
pjsua has it or is about to report, every other call is refused, about to be
told or just over.  `TimerInv` says where the timer may run at each point of a
handler.

### Records

Lemmas about byte strings say where each field of a record lies, that each is
read back, and that an address gives its serial back; `Delivered` carries them
along the one record on its way.

### Model-checked only

Liveness (`HandshakeSettles`, `EveryMessageSettled`), which TLAPS cannot
prove under fairness.  Every invariant and every refinement that a passing run
checks is a theorem.

## 5. Plan

1. `Smkex`, `SessionKeys`, `SmkexProofs`, `HandshakeProofs`: done.
2. `AutoResend`, `Outbox`, `AutoResendProofs`, `OutboxProofs`: done.
3. `Account`, `AccountProofs`: done.
4. `Calls`, `PhoneLine`, `CallsProofs`: done.
5. `Records`, `RecordsProofs`: done.
6. `Delivery`, `Channel`, `DeliveryProofs`: done; the queue of the handshake,
   over the engine.

## Not modelled

Logging, the copies of `MpBuffer`, the wiring in `base_service`, setters and
constructors that run before the threads do, `setOnline`, the presence values,
sound and media, the generated build files, and the arithmetic of OpenSSL
(`crypto.cpp`).  The tests and their mocks are a source of properties, not of
behaviour.

The share of the source the models map is small for two reasons: `pjsua.h`, the
vendored interface of the SIP library, is more than half of all lines and holds
no code of this program, only what the models treat as external; and of the
program's own 7100 lines about half are headers: class declarations with their comments,
whose functions are mapped where they are defined, and a sixth tests.
