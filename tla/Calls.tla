-------------------------------- MODULE Calls --------------------------------
(***************************************************************************)
(* The call manager (src/call_manager/src/MpCallManager.cpp, MpCall.cpp)   *)
(* on top of the call operations of src/sip_stack/src/MpSIPStack.cpp.      *)
(*                                                                         *)
(* pjsua reports what becomes of its calls through callbacks, some of them *)
(* from inside the operation that caused it: "stack" holds the manager's   *)
(* handlers that run, one called from within the other.  pjsua runs them   *)
(* one at a time, so an operation of another thread waits until the stack  *)
(* is empty; what that thread does without pjsua is interleaved.           *)
(***************************************************************************)
EXTENDS Integers, Sequences, FiniteSets

CONSTANTS
  Call, NoCall,  \* the ids pjsua gives its calls; the id -1
  Callback,      \* the application's MpICall objects
  AutoAnswer,          \* those that answer in call_callee_incoming, and how
  Bound          \* bound: how often each operation of Budget happens

Budget == {"dial", "incoming", "order", "pool"}
Mode == {200, 486}  \* MP_ANSWER_CALL, MP_REJECT_CALL

ASSUME CallConstantsOK ==
  /\ NoCall \notin Call
  /\ \E S \in SUBSET Callback : AutoAnswer \in [S -> Mode]
  /\ Bound \in [Budget -> Nat]

InviteState == {"free", "calling", "incoming", "early", "connecting",
                "confirmed", "over"}
Event == {"calling", "incoming", "early", "connecting", "confirmed",
          "disconnected"}
Idle == [call |-> NoCall, stage |-> "none"]

VARIABLES
  inv, caller,   \* pjsua: call -> state of its invitation, whether we called
  closing,       \* pjsua: calls hung up whose end is still to come
  stack,         \* handlers that run, the innermost one first
  callId,        \* call_id_
  lastAnswerMode,
  timer,         \* the call timer runs
  pool,          \* callCb_
  app, target,   \* where an operation that waits for pjsua is, the id it has read
  line, told, refused,  \* history: see PhoneLine
  used           \* operation -> how much of its bound is used

pjsua == <<inv, caller, closing>>
manager == <<callId, lastAnswerMode, timer>>
thread == <<app, target>>
history == <<line, told, refused>>
vars == <<pjsua, stack, manager, pool, thread, history, used>>

Init ==
  /\ inv = [c \in Call |-> "free"] /\ caller = {} /\ closing = {}
  /\ stack = <<>>
  /\ callId = NoCall /\ lastAnswerMode = 0 /\ timer = FALSE
  /\ pool = <<>> /\ app = "idle" /\ target = NoCall
  /\ line = Idle /\ told = Idle /\ refused = {}
  /\ used = [b \in Budget |-> 0]

-----------------------------------------------------------------------------
\* A handler that pjsua is about to call for an event, or (~due) one that has
\* callbacks left to tell.
Frame == [call : Call, event : Event, due : BOOLEAN, left : Seq(Callback)]
Due(c, e) == [call |-> c, event |-> e, due |-> TRUE, left |-> <<>>]
Top == Head(stack)

Spend(b) == used[b] < Bound[b] /\ used' = [used EXCEPT ![b] = @ + 1]

\* pjsua_call_is_active
IsActive(c) == c # NoCall /\ inv[c] \notin {"free", "over"}

\* pjsua changes the state of c and calls the handler from within the others.
Report(c, state, event, others) ==
  /\ inv' = [inv EXCEPT ![c] = state]
  /\ stack' = <<Due(c, event)>> \o others

\* pjsua_call_answer, also with a provisional status; it fails for other calls.
AnswerPjsua(c, mode, others) ==
  /\ UNCHANGED <<caller, closing>>
  /\ IF c # NoCall /\ c \notin caller /\ inv[c] \in {"incoming", "early"}
     THEN CASE mode = 180 -> Report(c, "early", "early", others)
            [] mode = 200 -> Report(c, "connecting", "connecting", others)
            [] mode = 486 -> Report(c, "over", "disconnected", others)
     ELSE stack' = others /\ UNCHANGED inv

\* pjsua_call_hangup: a call that still rings here is over at once, another one
\* when the other side has confirmed it.
HangUp(c, others) ==
  /\ UNCHANGED caller
  /\ IF c # NoCall /\ c \notin caller /\ inv[c] \in {"incoming", "early"}
     THEN Report(c, "over", "disconnected", others) /\ UNCHANGED closing
     ELSE /\ closing' = IF IsActive(c) THEN closing \cup {c} ELSE closing
          /\ stack' = others /\ UNCHANGED inv

\* The handler at the top returns.  pjsua gives up a call once its end was
\* reported, and rings after onIncomingCall (on_incoming_call).
Return(c, event) ==
  IF event = "incoming" THEN AnswerPjsua(c, 180, Tail(stack))
  ELSE /\ stack' = Tail(stack)
       /\ inv' = IF event = "disconnected" THEN [inv EXCEPT ![c] = "free"] ELSE inv
       /\ UNCHANGED <<caller, closing>>

-----------------------------------------------------------------------------
(***************************************************************************)
(* onCallState and onIncomingCall.                                         *)
(***************************************************************************)
\* Mutant of LineBusy: a call that was hung up does not count.
LineBusyUnlessClosing(c) == callId # c /\ IsActive(callId) /\ callId \notin closing

LineBusy(c) == callId # c /\ IsActive(callId)

\* A second call is rejected.
RejectSecond ==
  /\ stack # <<>> /\ Top.due /\ LineBusy(Top.call)
  /\ IF inv[Top.call] = "over" THEN Return(Top.call, Top.event)
     ELSE HangUp(Top.call, Tail(stack))
  /\ refused' = IF inv[Top.call] = "over" THEN refused \ {Top.call}
                ELSE refused \cup {Top.call}
  /\ UNCHANGED <<manager, pool, thread, line, told, used>>

\* Mutant of TimerFor: the end of a call does not stop it.
TimerUntilConfirmed(event) ==
  CASE event \in {"calling", "connecting"} -> TRUE
    [] event \in {"early", "confirmed"} -> FALSE
    [] OTHER -> timer

\* What a handler does with the timer before it tells the callbacks; after an
\* incoming call it comes last.
TimerFor(event) ==
  CASE event \in {"calling", "connecting"} -> TRUE
    [] event \in {"early", "confirmed", "disconnected"} -> FALSE
    [] OTHER -> timer

\* The pool is copied while it is in use.
Announce ==
  /\ stack # <<>> /\ Top.due /\ ~LineBusy(Top.call)
  /\ callId' = Top.call
  /\ timer' = TimerFor(Top.event)
  /\ lastAnswerMode' =
       IF Top.event \in {"early", "connecting"} THEN 0 ELSE lastAnswerMode
  /\ stack' = <<[Top EXCEPT !.due = FALSE, !.left = pool]>> \o Tail(stack)
  /\ told' = [call |-> Top.call, stage |-> Top.event]
  /\ line' = IF Top.event \in {"calling", "incoming"} THEN told'
             ELSE IF Top.call # line.call THEN line
             ELSE IF Top.event = "disconnected" THEN Idle ELSE told'
  /\ UNCHANGED <<pjsua, pool, thread, refused, used>>

\* MpCall::call_callee_incoming answers the call from within.
AnswersIncoming(cb) == Top.event = "incoming" /\ cb \in DOMAIN AutoAnswer

\* The next callback is told.
Tell ==
  /\ stack # <<>> /\ ~Top.due /\ Top.left # <<>>
  /\ LET cb == Head(Top.left)
         others == <<[Top EXCEPT !.left = Tail(@)]>> \o Tail(stack)
     IN  IF AnswersIncoming(cb)
         THEN /\ lastAnswerMode' = AutoAnswer[cb]
              /\ AnswerPjsua(callId, AutoAnswer[cb], others)
         ELSE stack' = others /\ UNCHANGED <<pjsua, lastAnswerMode>>
  /\ UNCHANGED <<callId, timer, pool, thread, history, used>>

Done ==
  /\ stack # <<>> /\ ~Top.due /\ Top.left = <<>>
  /\ timer' = (timer \/ Top.event = "incoming")
  /\ Return(Top.call, Top.event)
  /\ refused' = IF Top.event = "disconnected" THEN refused \ {Top.call} ELSE refused
  /\ UNCHANGED <<callId, lastAnswerMode, pool, thread, line, told, used>>

-----------------------------------------------------------------------------
(***************************************************************************)
(* pjsua, on its worker thread: what the other side does.                  *)
(***************************************************************************)
IncomingCall(c) ==
  /\ stack = <<>> /\ inv[c] = "free"
  /\ Spend("incoming")
  /\ caller' = caller \ {c} /\ closing' = closing \ {c}
  /\ Report(c, "incoming", "incoming", <<>>)
  /\ UNCHANGED <<manager, pool, thread, history>>

\* on_call_state
OnCallState(c) ==
  /\ stack = <<>>
  /\ \/ c \in caller /\ inv[c] \in {"calling", "early"} /\ Report(c, "early", "early", <<>>)
     \/ /\ c \in caller /\ inv[c] \in {"calling", "early"}
        /\ Report(c, "connecting", "connecting", <<>>)
     \/ inv[c] = "connecting" /\ Report(c, "confirmed", "confirmed", <<>>)
     \/ IsActive(c) /\ Report(c, "over", "disconnected", <<>>)
  /\ UNCHANGED <<caller, closing, manager, pool, thread, history, used>>

-----------------------------------------------------------------------------
(***************************************************************************)
(* The application's threads; one operation at a time waits for pjsua.     *)
(***************************************************************************)
\* callBuddy waits for pjsua like every operation, and a call may come first.
CallBuddy ==
  /\ app = "idle" /\ Spend("dial") /\ app' = "dial"
  /\ UNCHANGED <<pjsua, stack, manager, pool, target, history>>

MakeCall(c) ==
  /\ app = "dial" /\ stack = <<>> /\ inv[c] = "free"
  /\ app' = "idle"
  /\ caller' = caller \cup {c} /\ closing' = closing \ {c}
  /\ Report(c, "calling", "calling", <<>>)
  /\ UNCHANGED <<manager, pool, target, history, used>>

\* answerCall reads call_id_ before it waits.
AnswerCall(mode) ==
  /\ app = "idle" /\ Spend("order")
  /\ lastAnswerMode' = mode
  /\ target' = callId /\ app' = IF mode = 200 THEN "accept" ELSE "decline"
  /\ UNCHANGED <<pjsua, stack, callId, timer, pool, history>>

SIPStackAnswerCall ==
  /\ app \in {"accept", "decline"} /\ stack = <<>>
  /\ app' = "idle" /\ target' = NoCall
  /\ AnswerPjsua(target, IF app = "accept" THEN 200 ELSE 486, <<>>)
  /\ UNCHANGED <<manager, pool, history, used>>

\* Mutant of RejectCall: it does not ask whether there is a call.
RejectCallUnasked ==
  /\ app = "idle" /\ Spend("order")
  /\ app' = "reject"
  /\ UNCHANGED <<pjsua, stack, manager, pool, target, history>>

\* rejectCall asks whether the call is active and reads call_id_ again.
RejectCall ==
  /\ app = "idle" /\ Spend("order")
  /\ IsActive(callId) /\ app' = "reject"
  /\ UNCHANGED <<pjsua, stack, manager, pool, target, history>>

RejectCallAgain ==
  /\ app = "reject" /\ target' = callId /\ app' = "hangup"
  /\ UNCHANGED <<pjsua, stack, manager, pool, history, used>>

SIPStackRejectCall ==
  /\ app = "hangup" /\ stack = <<>>
  /\ app' = "idle" /\ target' = NoCall
  /\ HangUp(target, <<>>)
  /\ UNCHANGED <<manager, pool, history, used>>

\* endCall hangs up every call; at most one of them rings here.
EndCall ==
  /\ app = "idle" /\ stack = <<>> /\ Spend("order")
  /\ lastAnswerMode' = 486
  /\ LET active == {c \in Call : IsActive(c)}
         ringing == {c \in active \ caller : inv[c] \in {"incoming", "early"}}
     IN  /\ closing' = closing \cup (active \ ringing)
         /\ inv' = [c \in Call |-> IF c \in ringing THEN "over" ELSE inv[c]]
         /\ \E c \in ringing \cup {NoCall} :
              /\ c = NoCall => ringing = {}
              /\ stack' = IF c = NoCall THEN <<>> ELSE <<Due(c, "disconnected")>>
  /\ UNCHANGED <<caller, callId, timer, pool, thread, history>>

\* The timer is stopped, whatever state the call is in.
HoldCall ==
  /\ app = "idle" /\ stack = <<>> /\ Spend("order")
  /\ timer' = FALSE
  /\ UNCHANGED <<pjsua, stack, callId, lastAnswerMode, pool, thread, history>>

\* Mutant of PoolFree: the pool changes while it is in use.
PoolAlwaysFree == TRUE

\* The pool is not in use, as MpPool::modifyPool wants it.
PoolFree == \A i \in DOMAIN stack : stack[i].due

AddCallCb(cb) ==
  /\ app = "idle" /\ PoolFree /\ Spend("pool")
  /\ pool' = Append(pool, cb)
  /\ UNCHANGED <<pjsua, stack, manager, thread, history>>

\* The first entry of the callback is erased.
RmCallCb(cb) ==
  /\ app = "idle" /\ PoolFree /\ Spend("pool")
  /\ \E i \in DOMAIN pool :
       /\ pool[i] = cb /\ \A j \in 1 .. i - 1 : pool[j] # cb
       /\ pool' = SubSeq(pool, 1, i - 1) \o SubSeq(pool, i + 1, Len(pool))
  /\ UNCHANGED <<pjsua, stack, manager, thread, history>>

-----------------------------------------------------------------------------
Handler == RejectSecond \/ Announce \/ Tell \/ Done

Application ==
  \/ CallBuddy \/ SIPStackAnswerCall \/ RejectCall \/ RejectCallAgain
  \/ SIPStackRejectCall \/ EndCall \/ HoldCall
  \/ \E c \in Call : MakeCall(c)
  \/ \E mode \in Mode : AnswerCall(mode)
  \/ \E cb \in Callback : AddCallCb(cb) \/ RmCallCb(cb)

Next ==
  \/ Handler \/ Application
  \/ \E c \in Call : IncomingCall(c) \/ OnCallState(c)

Spec == Init /\ [][Next]_vars

-----------------------------------------------------------------------------
(***************************************************************************)
(* Properties.                                                             *)
(***************************************************************************)
\* Every variable has its type.
TypeOK ==
  /\ inv \in [Call -> InviteState] /\ caller \subseteq Call /\ closing \subseteq Call
  /\ stack \in Seq(Frame)
  /\ callId \in Call \cup {NoCall} /\ lastAnswerMode \in Mode \cup {0}
  /\ timer \in BOOLEAN
  /\ pool \in Seq(Callback)
  /\ app \in {"idle", "dial", "accept", "decline", "reject", "hangup"}
  /\ target \in IF app = "hangup" THEN Call ELSE Call \cup {NoCall}
  /\ line \in [call : Call \cup {NoCall}, stage : Event \cup {"none"}]
  /\ told \in [call : Call \cup {NoCall}, stage : Event \cup {"none"}]
  /\ refused \subseteq Call
  /\ used \in [Budget -> Nat]

PL == INSTANCE PhoneLine

\* MpCallManager tells of one call at a time, in the order of its stages and to
\* its end, whatever calls come or are placed in between (MpCallManager.cpp:78,
\* "if we have an active call, then reject this one"); of a call it rejected it
\* tells only while there is no other.
ImplementsPhoneLine == PL!Spec

\* Between two handlers the call timer (MpICallTimer) runs only while the most
\* recent call is being set up: it is stopped however that call ends.
TimerWhileSettingUp ==
  stack = <<>> /\ timer =>
    callId # NoCall /\ inv[callId] \in {"calling", "connecting"}

\* A callback that rmCallCb took out is not told any more, although the
\* handlers go through a copy of the pool (MpPool::rmPoolData waits for them).
ToldOnlyRegistered ==
  \A i \in DOMAIN stack : \A j \in DOMAIN stack[i].left :
    \E k \in DOMAIN pool : pool[k] = stack[i].left[j]
=============================================================================
