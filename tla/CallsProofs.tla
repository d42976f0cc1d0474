----------------------------- MODULE CallsProofs -----------------------------
(***************************************************************************)
(* Proofs about Calls, for any number of calls and callbacks and whatever  *)
(* the callbacks answer: its types, that it implements PhoneLine, and that *)
(* only registered callbacks are told.  What the call timer promises holds *)
(* when no callback rejects an incoming call from within, as MpCall does   *)
(* not.                                                                    *)
(*                                                                         *)
(* The invariants say what the stack of handlers looks like, that a call   *)
(* that rings here is the manager's own, and where each call is known: on  *)
(* the line, refused, about to be told, or just over.                      *)
(***************************************************************************)
EXTENDS Calls, SequenceTheorems, TLAPS

-----------------------------------------------------------------------------
(***************************************************************************)
(* Sequences of handlers and of callbacks.                                 *)
(***************************************************************************)
\* A handler called from within the others is the first.
LEMMA PushIs ==
  ASSUME NEW S, NEW f \in S, NEW s \in Seq(S)
  PROVE  /\ <<f>> \o s \in Seq(S) /\ <<f>> \o s # <<>>
         /\ Head(<<f>> \o s) = f /\ Tail(<<f>> \o s) = s
         /\ \A i \in DOMAIN (<<f>> \o s) :
              (<<f>> \o s)[i] = f \/ \E j \in DOMAIN s : (<<f>> \o s)[i] = s[j]
<1>1. <<f>> \in Seq(S) /\ Len(<<f>>) = 1 /\ <<f>>[1] = f
  OBVIOUS
<1>2. /\ <<f>> \o s \in Seq(S)
      /\ Len(<<f>> \o s) = 1 + Len(s)
      /\ \A i \in 1 .. 1 + Len(s) : (<<f>> \o s)[i] = IF i <= 1 THEN <<f>>[i] ELSE s[i - 1]
  BY <1>1, ConcatProperties
<1> DEFINE p == <<f>> \o s
<1>3. p \in Seq(S) /\ Len(p) = 1 + Len(s) /\ Len(s) \in Nat /\ p[1] = f
      /\ \A i \in 2 .. 1 + Len(s) : p[i] = s[i - 1]
  BY <1>1, <1>2, LenProperties
<1> HIDE DEF p
<1>4. p # <<>> /\ Head(p) = f
  BY <1>3
<1>5. Tail(p) = s
  <2>1. Tail(p) \in Seq(S) /\ Len(Tail(p)) = Len(s)
        /\ \A i \in 1 .. Len(s) : Tail(p)[i] = p[i + 1]
    BY <1>3, <1>4, HeadTailProperties
  <2>2. \A i \in 1 .. Len(s) : Tail(p)[i] = s[i]
    BY <1>3, <2>1
  <2> QED
    BY <2>1, <2>2, SeqEqual
<1>6. \A i \in DOMAIN p : p[i] = f \/ \E j \in DOMAIN s : p[i] = s[j]
  <2>1. DOMAIN p = 1 .. 1 + Len(s) /\ DOMAIN s = 1 .. Len(s)
    BY <1>3, LenProperties
  <2> TAKE i \in DOMAIN p
  <2>2. CASE i = 1
    BY <1>3, <2>2
  <2>3. CASE i # 1
    <3>1. i - 1 \in DOMAIN s /\ p[i] = s[i - 1]
      BY <1>3, <2>1, <2>3
    <3> QED
      BY <3>1
  <2> QED
    BY <2>2, <2>3
<1> QED
  BY <1>3, <1>4, <1>5, <1>6 DEF p

\* The rest of a sequence.
LEMMA RestIs ==
  ASSUME NEW S, NEW s \in Seq(S), s # <<>>
  PROVE  /\ Head(s) \in S /\ Tail(s) \in Seq(S)
         /\ \E i \in DOMAIN s : Head(s) = s[i]
         /\ \A i \in DOMAIN Tail(s) : \E j \in DOMAIN s : Tail(s)[i] = s[j]
<1>1. /\ Head(s) \in S /\ Tail(s) \in Seq(S) /\ Len(s) \in Nat /\ Len(s) # 0
      /\ Len(Tail(s)) = Len(s) - 1 /\ \A i \in 1 .. Len(Tail(s)) : Tail(s)[i] = s[i + 1]
      /\ Head(s) = s[1]
  BY HeadTailProperties, LenProperties, EmptySeq
<1>2. DOMAIN s = 1 .. Len(s) /\ DOMAIN Tail(s) = 1 .. Len(s) - 1
  BY <1>1, LenProperties
<1> QED
  BY <1>1, <1>2

\* Erasing one entry.
LEMMA CutIs ==
  ASSUME NEW S, NEW s \in Seq(S), NEW i \in DOMAIN s
  PROVE  SubSeq(s, 1, i - 1) \o SubSeq(s, i + 1, Len(s)) \in Seq(S)
<1>1. i \in 1 .. Len(s) /\ Len(s) \in Nat
  BY LenProperties
<1>2. SubSeq(s, 1, i - 1) \in Seq(S) /\ SubSeq(s, i + 1, Len(s)) \in Seq(S)
  BY <1>1, SubSeqProperties
<1> QED
  BY <1>2, ConcatProperties

-----------------------------------------------------------------------------
(***************************************************************************)
(* What the operations of pjsua do: nothing, or a report from within.      *)
(***************************************************************************)
\* The state of a call when an event of it is reported.
StateAt(event) == IF event = "disconnected" THEN "over" ELSE event

Reports(c, event, others) ==
  /\ c \in Call /\ event \in Event
  /\ Report(c, StateAt(event), event, others)

\* Calls that ring here, and may be answered.
Rings(c) == c \in Call \ caller /\ inv[c] \in {"incoming", "early"}

\* pjsua answers a call that rings here with what it was told, and no other.
LEMMA AnswerIs ==
  ASSUME TypeOK, NEW c \in Call \cup {NoCall}, NEW mode \in {180, 200, 486}, NEW others,
         AnswerPjsua(c, mode, others)
  PROVE  /\ UNCHANGED <<caller, closing>>
         /\ \/ stack' = others /\ UNCHANGED inv /\ ~Rings(c)
            \/ Rings(c) /\ mode = 180 /\ Reports(c, "early", others)
            \/ Rings(c) /\ mode = 200 /\ Reports(c, "connecting", others)
            \/ Rings(c) /\ mode = 486 /\ Reports(c, "disconnected", others)
<1>1. CASE Rings(c)
  <2>1. CASE mode = 180
    BY <1>1, <2>1, CallConstantsOK DEF AnswerPjsua, Rings, Reports, StateAt, Event
  <2>2. CASE mode = 200
    BY <1>1, <2>2, CallConstantsOK DEF AnswerPjsua, Rings, Reports, StateAt, Event
  <2>3. CASE mode = 486
    BY <1>1, <2>3, CallConstantsOK DEF AnswerPjsua, Rings, Reports, StateAt, Event
  <2> QED
    BY <2>1, <2>2, <2>3
<1>2. CASE ~Rings(c)
  BY <1>2, CallConstantsOK DEF AnswerPjsua, Rings
<1> QED
  BY <1>1, <1>2

\* Hanging up reports something at once only of a call that rings here.
LEMMA HangUpIs ==
  ASSUME TypeOK, NEW c \in Call \cup {NoCall}, NEW others, HangUp(c, others)
  PROVE  /\ caller' = caller /\ closing' \subseteq Call
         /\ \/ stack' = others /\ UNCHANGED inv /\ ~Rings(c)
            \/ Rings(c) /\ Reports(c, "disconnected", others)
<1>1. CASE Rings(c)
  BY <1>1, CallConstantsOK DEF HangUp, Rings, Reports, StateAt, Event, TypeOK
<1>2. CASE ~Rings(c)
  BY <1>2, CallConstantsOK DEF HangUp, Rings, TypeOK, IsActive
<1> QED
  BY <1>1, <1>2

\* A report is the first thing on the stack.
LEMMA ReportIs ==
  ASSUME TypeOK, NEW c, NEW event, NEW others \in Seq(Frame), Reports(c, event, others)
  PROVE  /\ Due(c, event) \in Frame
         /\ stack' \in Seq(Frame) /\ stack' # <<>>
         /\ Head(stack') = Due(c, event) /\ Tail(stack') = others
         /\ \A i \in DOMAIN stack' :
              stack'[i] = Due(c, event) \/ \E j \in DOMAIN others : stack'[i] = others[j]
         /\ inv' \in [Call -> InviteState] /\ inv'[c] = StateAt(event)
         /\ \A d \in Call \ {c} : inv'[d] = inv[d]
<1>1. Due(c, event) \in Frame
  <2>1. <<>> \in Seq(Callback)
    BY EmptySeq
  <2> QED
    BY <2>1 DEF Due, Frame, Reports
<1>2. stack' = <<Due(c, event)>> \o others /\ inv' = [inv EXCEPT ![c] = StateAt(event)]
      /\ c \in Call /\ StateAt(event) \in InviteState
  BY DEF Reports, Report, StateAt, Event, InviteState
<1> QED
  BY <1>1, <1>2, PushIs DEF TypeOK

-----------------------------------------------------------------------------
(***************************************************************************)
(* Types.                                                                  *)
(***************************************************************************)
PjsuaTyped ==
  /\ inv \in [Call -> InviteState] /\ caller \subseteq Call /\ closing \subseteq Call
  /\ stack \in Seq(Frame)

RestTyped ==
  /\ callId \in Call \cup {NoCall} /\ lastAnswerMode \in Mode \cup {0}
  /\ timer \in BOOLEAN
  /\ pool \in Seq(Callback)
  /\ app \in {"idle", "dial", "accept", "decline", "reject", "hangup"}
  /\ target \in IF app = "hangup" THEN Call ELSE Call \cup {NoCall}
  /\ line \in [call : Call \cup {NoCall}, stage : Event \cup {"none"}]
  /\ told \in [call : Call \cup {NoCall}, stage : Event \cup {"none"}]
  /\ refused \subseteq Call
  /\ used \in [Budget -> Nat]

\* rejectCall has a call to reject when it reads call_id_ again.
Typed == PjsuaTyped /\ RestTyped /\ (app = "reject" => callId \in Call)

\* TypeOK in two parts: what the operations of pjsua change, and the rest.
LEMMA TypeParts == TypeOK <=> PjsuaTyped /\ RestTyped
BY DEF TypeOK, PjsuaTyped, RestTyped

\* The handler at the top of the stack has its type.
LEMMA TopTyped ==
  ASSUME TypeOK, stack # <<>>
  PROVE  /\ Top \in Frame /\ Tail(stack) \in Seq(Frame)
         /\ Top.call \in Call /\ Top.event \in Event /\ Top.due \in BOOLEAN
         /\ Top.left \in Seq(Callback)
<1>1. Top \in Frame /\ Tail(stack) \in Seq(Frame)
  BY RestIs DEF TypeOK, Top
<1> QED
  BY <1>1 DEF Frame

\* Answering keeps the types.
LEMMA AnswerTyped ==
  ASSUME TypeOK, NEW c \in Call \cup {NoCall}, NEW mode \in {180, 200, 486},
         NEW others \in Seq(Frame), AnswerPjsua(c, mode, others)
  PROVE  PjsuaTyped'
<1>1. UNCHANGED <<caller, closing>>
  BY AnswerIs
<1>2. (stack' = others /\ UNCHANGED inv) \/ \E event : Reports(c, event, others)
  BY AnswerIs
<1> QED
  BY <1>1, <1>2, ReportIs DEF PjsuaTyped, TypeOK

\* Hanging up keeps the types.
LEMMA HangUpTyped ==
  ASSUME TypeOK, NEW c \in Call \cup {NoCall}, NEW others \in Seq(Frame), HangUp(c, others)
  PROVE  PjsuaTyped'
BY HangUpIs, ReportIs DEF PjsuaTyped, TypeOK

\* The return of a handler keeps the types.
LEMMA ReturnTyped ==
  ASSUME TypeOK, stack # <<>>, Return(Top.call, Top.event)
  PROVE  PjsuaTyped'
<1>1. CASE Top.event = "incoming"
  <2>1. AnswerPjsua(Top.call, 180, Tail(stack)) /\ Top.call \in Call
        /\ Tail(stack) \in Seq(Frame) /\ 180 \in {180, 200, 486}
    BY <1>1, TopTyped DEF Return
  <2> QED
    BY <2>1, AnswerTyped
<1>2. CASE Top.event # "incoming"
  BY <1>2, TopTyped DEF Return, PjsuaTyped, TypeOK, InviteState
<1> QED
  BY <1>1, <1>2

\* Spending part of a bound keeps the type of "used".
LEMMA SpendTyped ==
  ASSUME used \in [Budget -> Nat], NEW b \in Budget, Spend(b)
  PROVE  used' \in [Budget -> Nat]
<1>1. used[b] + 1 \in Nat
  OBVIOUS
<1> QED
  BY <1>1 DEF Spend

\* The manager's handlers.
LEMMA HandlerTyped == Typed /\ Handler => Typed'
<1> SUFFICES ASSUME Typed, Handler PROVE Typed'
  OBVIOUS
<1>0. TypeOK /\ PjsuaTyped /\ RestTyped /\ stack # <<>>
      /\ Top.call \in Call /\ Top.event \in Event /\ Tail(stack) \in Seq(Frame)
  BY TypeParts, TopTyped DEF Typed, Handler, RejectSecond, Announce, Tell, Done
<1>1. CASE RejectSecond
  <2>1. PjsuaTyped'
    <3>1. Return(Top.call, Top.event) \/ HangUp(Top.call, Tail(stack))
      BY <1>1 DEF RejectSecond
    <3> QED
      BY <1>0, <3>1, ReturnTyped, HangUpTyped
  <2>2. RestTyped'
    BY <1>0, <1>1 DEF RejectSecond, RestTyped, manager, thread
  <2> QED
    BY <1>1, <2>1, <2>2 DEF Typed, RejectSecond, manager, thread
<1>2. CASE Announce
  <2>1. PjsuaTyped'
    <3>1. [Top EXCEPT !.due = FALSE, !.left = pool] \in Frame
      BY <1>0, TopTyped DEF RestTyped, Frame
    <3>2. stack' = <<[Top EXCEPT !.due = FALSE, !.left = pool]>> \o Tail(stack)
          /\ UNCHANGED <<inv, caller, closing>>
      BY <1>2 DEF Announce, pjsua
    <3> QED
      BY <1>0, <3>1, <3>2, PushIs DEF PjsuaTyped
  <2>2. callId' = Top.call /\ lastAnswerMode' \in Mode \cup {0} /\ timer' \in BOOLEAN
    BY <1>0, <1>2 DEF Announce, RestTyped, TimerFor
  <2>3. line' \in [call : Call \cup {NoCall}, stage : Event \cup {"none"}]
        /\ told' \in [call : Call \cup {NoCall}, stage : Event \cup {"none"}]
    <3>1. told' = [call |-> Top.call, stage |-> Top.event] /\ line' \in {told', line, Idle}
      BY <1>2 DEF Announce
    <3> QED
      BY <1>0, <3>1 DEF RestTyped, Idle
  <2>4. UNCHANGED <<pool, app, target, refused, used>>
    BY <1>2 DEF Announce, thread
  <2>5. RestTyped'
    BY <1>0, <2>2, <2>3, <2>4 DEF RestTyped
  <2> QED
    BY <1>0, <2>1, <2>2, <2>4, <2>5 DEF Typed
<1>3. CASE Tell
  <2> DEFINE cb == Head(Top.left)
             others == <<[Top EXCEPT !.left = Tail(@)]>> \o Tail(stack)
  <2>1. others \in Seq(Frame)
    <3>1. Tail(Top.left) \in Seq(Callback)
      BY <1>0, <1>3, TopTyped, HeadTailProperties DEF Tell
    <3>2. [Top EXCEPT !.left = Tail(@)] \in Frame
      BY <1>0, <3>1, TopTyped DEF Frame
    <3> QED
      BY <1>0, <3>2, PushIs
  <2>2. PjsuaTyped' /\ lastAnswerMode' \in Mode \cup {0}
    <3> HIDE DEF others
    <3>1. CASE AnswersIncoming(cb)
      <4>1. AutoAnswer[cb] \in Mode
        BY <3>1, CallConstantsOK DEF AnswersIncoming
      <4>2. lastAnswerMode' = AutoAnswer[cb] /\ AnswerPjsua(callId, AutoAnswer[cb], others)
        BY <1>3, <3>1 DEF Tell, others
      <4>3. AutoAnswer[cb] \in {180, 200, 486} /\ callId \in Call \cup {NoCall}
        BY <1>0, <4>1 DEF Mode, RestTyped
      <4> HIDE DEF cb
      <4> QED
        BY <1>0, <2>1, <4>1, <4>2, <4>3, AnswerTyped
    <3>2. CASE ~AnswersIncoming(cb)
      <4>1. stack' = others /\ UNCHANGED <<inv, caller, closing, lastAnswerMode>>
        BY <1>3, <3>2 DEF Tell, pjsua, others
      <4> QED
        BY <1>0, <2>1, <4>1 DEF PjsuaTyped, RestTyped
    <3> QED
      BY <3>1, <3>2
  <2>3. UNCHANGED <<callId, timer, pool, app, target, line, told, refused, used>>
    BY <1>3 DEF Tell, thread, history
  <2>4. RestTyped'
    BY <1>0, <2>2, <2>3 DEF RestTyped
  <2> QED
    BY <2>2, <2>3, <2>4 DEF Typed
<1>4. CASE Done
  <2>1. PjsuaTyped'
    BY <1>0, <1>4, ReturnTyped DEF Done
  <2>2. RestTyped'
    BY <1>0, <1>4 DEF Done, RestTyped, thread
  <2> QED
    BY <1>4, <2>1, <2>2 DEF Typed, Done, thread
<1> QED
  BY <1>1, <1>2, <1>3, <1>4 DEF Handler

\* The application's operations.
LEMMA ApplicationTyped == Typed /\ Application => Typed'
<1> SUFFICES ASSUME Typed, Application PROVE Typed'
  OBVIOUS
<1>0. TypeOK /\ PjsuaTyped /\ RestTyped /\ (app = "reject" => callId \in Call)
      /\ <<>> \in Seq(Frame)
  BY TypeParts, EmptySeq DEF Typed
<1>1. CASE CallBuddy \/ RejectCall \/ HoldCall \/ \E mode \in Mode : AnswerCall(mode)
  <2>1. UNCHANGED <<inv, caller, closing, stack>>
    BY <1>1 DEF CallBuddy, RejectCall, HoldCall, AnswerCall, pjsua
  <2>2. used' \in [Budget -> Nat]
    BY <1>0, <1>1, SpendTyped
       DEF CallBuddy, RejectCall, HoldCall, AnswerCall, Budget, RestTyped
  <2>3. RestTyped'
    BY <1>0, <1>1, <2>2
       DEF CallBuddy, RejectCall, HoldCall, AnswerCall, RestTyped, manager, thread, history
  <2>4. app' = "reject" => callId' \in Call
    BY <1>0, <1>1 DEF CallBuddy, RejectCall, HoldCall, AnswerCall, manager, thread, IsActive,
                      RestTyped
  <2> QED
    BY <1>0, <2>1, <2>3, <2>4 DEF Typed, PjsuaTyped
<1>2. CASE RejectCallAgain
  BY <1>0, <1>2
     DEF RejectCallAgain, Typed, PjsuaTyped, RestTyped, pjsua, manager, history
<1>3. CASE SIPStackAnswerCall
  <2>1. PjsuaTyped'
    <3>1. target \in Call \cup {NoCall} /\ (IF app = "accept" THEN 200 ELSE 486) \in {180, 200, 486}
      BY <1>0, <1>3 DEF RestTyped, SIPStackAnswerCall
    <3> QED
      <4> DEFINE mode == IF app = "accept" THEN 200 ELSE 486
      <4>1. AnswerPjsua(target, mode, <<>>) /\ mode \in {180, 200, 486}
        BY <1>3 DEF SIPStackAnswerCall
      <4> HIDE DEF mode
      <4> QED
        BY <1>0, <3>1, <4>1, AnswerTyped
  <2> QED
    BY <1>0, <1>3, <2>1 DEF SIPStackAnswerCall, Typed, RestTyped, manager, history
<1>4. CASE SIPStackRejectCall
  <2>1. PjsuaTyped'
    BY <1>0, <1>4, HangUpTyped DEF RestTyped, SIPStackRejectCall
  <2> QED
    BY <1>0, <1>4, <2>1 DEF SIPStackRejectCall, Typed, RestTyped, manager, history
<1>5. CASE EndCall
  <2>1. used' \in [Budget -> Nat]
    BY <1>0, <1>5, SpendTyped DEF EndCall, Budget, RestTyped
  <2>2. RestTyped'
    BY <1>0, <1>5, <2>1 DEF EndCall, RestTyped, Mode, thread, history
  <2>3. inv' \in [Call -> InviteState] /\ caller' \subseteq Call /\ closing' \subseteq Call
    BY <1>0, <1>5 DEF EndCall, PjsuaTyped, InviteState
  <2>4. stack' \in Seq(Frame)
    <3>1. \A c \in Call : Due(c, "disconnected") \in Frame
      <4>1. <<>> \in Seq(Callback)
        BY EmptySeq
      <4> QED
        BY <4>1 DEF Due, Frame, Event
    <3>2. stack' = <<>> \/ \E c \in Call : stack' = <<Due(c, "disconnected")>>
      BY <1>5 DEF EndCall
    <3>3. ASSUME NEW c \in Call, stack' = <<Due(c, "disconnected")>>
          PROVE  stack' \in Seq(Frame)
      <4> DEFINE f == Due(c, "disconnected")
      <4>1. f \in Frame /\ stack' = <<f>>
        BY <3>1, <3>3
      <4> HIDE DEF f
      <4> QED
        BY <4>1
    <3> QED
      BY <1>0, <3>2, <3>3
  <2> QED
    BY <1>0, <1>5, <2>2, <2>3, <2>4 DEF Typed, PjsuaTyped, EndCall, thread
<1>6. ASSUME NEW c \in Call, MakeCall(c) PROVE Typed'
  <2>1. Reports(c, "calling", <<>>)
    BY <1>6 DEF MakeCall, Reports, StateAt, Event
  <2>2. PjsuaTyped'
    BY <1>0, <1>6, <2>1, ReportIs DEF MakeCall, PjsuaTyped
  <2> QED
    BY <1>0, <1>6, <2>2 DEF MakeCall, Typed, RestTyped, manager, history
<1>7. ASSUME NEW cb \in Callback, AddCallCb(cb) \/ RmCallCb(cb) PROVE Typed'
  <2>1. pool' \in Seq(Callback)
    <3>1. CASE AddCallCb(cb)
      BY <1>0, <3>1, AppendProperties DEF AddCallCb, RestTyped
    <3>2. CASE RmCallCb(cb)
      <4>1. PICK i \in DOMAIN pool :
              pool' = SubSeq(pool, 1, i - 1) \o SubSeq(pool, i + 1, Len(pool))
        BY <3>2 DEF RmCallCb
      <4>2. pool \in Seq(Callback)
        BY <1>0 DEF RestTyped
      <4> QED
        BY <4>1, <4>2, CutIs, Zenon
    <3> QED
      BY <1>7, <3>1, <3>2
  <2>2. used' \in [Budget -> Nat]
    BY <1>0, <1>7, SpendTyped DEF AddCallCb, RmCallCb, Budget, RestTyped
  <2>3. UNCHANGED <<pjsua, stack, manager, thread, history>>
    BY <1>7 DEF AddCallCb, RmCallCb
  <2> QED
    BY <1>0, <2>1, <2>2, <2>3
       DEF Typed, PjsuaTyped, RestTyped, pjsua, manager, thread, history
<1> QED
  BY <1>1, <1>2, <1>3, <1>4, <1>5, <1>6, <1>7 DEF Application

\* The other side.
LEMMA OtherSideTyped ==
  ASSUME Typed, NEW c \in Call, IncomingCall(c) \/ OnCallState(c)
  PROVE  Typed'
<1>0. TypeOK /\ PjsuaTyped /\ RestTyped /\ <<>> \in Seq(Frame)
  BY TypeParts, EmptySeq DEF Typed
<1>1. \E event \in Event : Reports(c, event, <<>>)
  BY DEF IncomingCall, OnCallState, Reports, StateAt, Event
<1>2. inv' \in [Call -> InviteState] /\ stack' \in Seq(Frame)
  BY <1>0, <1>1, ReportIs
<1>3. caller' \subseteq Call /\ closing' \subseteq Call
  BY <1>0 DEF IncomingCall, OnCallState, PjsuaTyped
<1>4. used' \in [Budget -> Nat]
  BY <1>0, SpendTyped DEF IncomingCall, OnCallState, RestTyped, Budget
<1>5. UNCHANGED <<manager, pool, thread, history>>
  BY DEF IncomingCall, OnCallState
<1> QED
  BY <1>0, <1>2, <1>3, <1>4, <1>5
     DEF Typed, PjsuaTyped, RestTyped, manager, thread, history

\* The types hold at first.
LEMMA TypedInit == Init => Typed
<1> SUFFICES ASSUME Init PROVE Typed
  OBVIOUS
<1>1. <<>> \in Seq(Frame) /\ <<>> \in Seq(Callback)
  BY EmptySeq
<1>2. PjsuaTyped
  BY <1>1 DEF Init, PjsuaTyped, InviteState
<1>3. RestTyped
  BY <1>1 DEF Init, RestTyped, Idle
<1> QED
  BY <1>2, <1>3, TypeParts DEF Typed, Init

\* Every step keeps the types.
LEMMA TypedStep == Typed /\ [Next]_vars => Typed'
<1>1. Typed /\ UNCHANGED vars => Typed'
  BY DEF Typed, vars, pjsua, manager, thread, history, PjsuaTyped, RestTyped
<1> QED
  BY <1>1, HandlerTyped, ApplicationTyped, OtherSideTyped DEF Next

\* The types hold of every state.
THEOREM SpecTyped == Spec => []Typed
BY TypedInit, TypedStep, PTL DEF Spec

\* Every variable has its type, and rejectCall never hands on an id of no call.
THEOREM SpecTypeOK == Spec => []TypeOK
<1>1. Typed => TypeOK
  BY TypeParts DEF Typed
<1> QED
  BY <1>1, SpecTyped, PTL

-----------------------------------------------------------------------------
(***************************************************************************)
(* Who is told.  A handler copies the pool when it begins; the pool is     *)
(* changed only while no handler has begun.                                *)
(***************************************************************************)
\* A handler that has not begun has nobody left to tell.
DueTellsNobody == \A i \in DOMAIN stack : stack[i].due => stack[i].left = <<>>

Telling == Typed /\ DueTellsNobody /\ ToldOnlyRegistered

\* Callbacks that are all registered.
Registered(left) == \A j \in DOMAIN left : \E k \in DOMAIN pool : pool[k] = left[j]

\* The pool stays, and every handler is an old one, has nobody left to tell, or
\* has begun with registered callbacks.
LEMMA HandlersFrom ==
  ASSUME Telling, Typed', UNCHANGED pool,
         \A i \in DOMAIN stack' :
           \/ \E j \in DOMAIN stack : stack'[i] = stack[j]
           \/ stack'[i].left = <<>>
           \/ ~stack'[i].due /\ Registered(stack'[i].left)
  PROVE  Telling'
<1>1. DueTellsNobody'
  BY DEF Telling, DueTellsNobody
<1>2. ToldOnlyRegistered'
  <2> SUFFICES ASSUME NEW i \in DOMAIN stack' PROVE Registered(stack'[i].left)
    BY DEF ToldOnlyRegistered, Registered
  <2>1. CASE \E j \in DOMAIN stack : stack'[i] = stack[j]
    BY <2>1 DEF Telling, ToldOnlyRegistered, Registered
  <2>2. CASE stack'[i].left = <<>>
    BY <2>2 DEF Registered
  <2> QED
    BY <2>1, <2>2
<1> QED
  BY <1>1, <1>2 DEF Telling

\* A report goes on top of what was there, without callbacks.
LEMMA ReportTells ==
  ASSUME Telling, Typed', UNCHANGED pool, NEW others \in Seq(Frame),
         stack' = others \/ \E c, event : Reports(c, event, others),
         \A i \in DOMAIN others :
           \/ \E j \in DOMAIN stack : others[i] = stack[j]
           \/ ~others[i].due /\ Registered(others[i].left)
  PROVE  Telling'
<1>1. TypeOK
  BY TypeParts DEF Telling, Typed
<1>2. CASE stack' = others
  BY <1>2, HandlersFrom
<1>3. ASSUME NEW c, NEW event, Reports(c, event, others) PROVE Telling'
  <2>1. \A i \in DOMAIN stack' :
          stack'[i] = Due(c, event) \/ \E j \in DOMAIN others : stack'[i] = others[j]
    BY <1>1, <1>3, ReportIs
  <2>2. Due(c, event).left = <<>>
    BY DEF Due
  <2> QED
    BY <2>1, <2>2, HandlersFrom
<1> QED
  BY <1>2, <1>3

\* Every step keeps what a copy of the pool may hold.
LEMMA TellingStep == Telling /\ [Next]_vars => Telling'
<1> SUFFICES ASSUME Telling, [Next]_vars PROVE Telling'
  OBVIOUS
<1>0. Typed /\ Typed' /\ TypeOK /\ stack \in Seq(Frame) /\ <<>> \in Seq(Frame)
  BY TypedStep, TypeParts, EmptySeq DEF Telling, Typed, PjsuaTyped
<1>1. \A i \in DOMAIN <<>> : FALSE
  OBVIOUS
<1>2. ASSUME stack # <<>>
      PROVE  /\ Tail(stack) \in Seq(Frame)
             /\ \A i \in DOMAIN Tail(stack) : \E j \in DOMAIN stack : Tail(stack)[i] = stack[j]
             /\ \E i \in DOMAIN stack : Top = stack[i]
             /\ Top.call \in Call /\ Top \in Frame /\ Registered(Top.left)
  BY <1>0, <1>2, RestIs, TopTyped DEF Top, Telling, ToldOnlyRegistered, Registered
<1>3. ASSUME stack # <<>>, Return(Top.call, Top.event), UNCHANGED pool PROVE Telling'
  <2>1. stack' = Tail(stack) \/ \E c, event : Reports(c, event, Tail(stack))
    <3>1. CASE Top.event = "incoming"
      <4> DEFINE mode == 180
                 c == Top.call
                 rest == Tail(stack)
      <4>1. AnswerPjsua(c, mode, rest) /\ mode \in {180, 200, 486}
        BY <1>3, <3>1 DEF Return
      <4>2. c \in Call \cup {NoCall}
        BY <1>2, <1>3
      <4>3. stack' = rest \/ \E event : Reports(c, event, rest)
        <5> HIDE DEF c, mode, rest
        <5> QED
          BY <1>0, <4>1, <4>2, AnswerIs
      <4> QED
        BY <4>3
    <3>2. CASE Top.event # "incoming"
      BY <1>3, <3>2 DEF Return
    <3> QED
      BY <3>1, <3>2
  <2> QED
    BY <1>0, <1>2, <1>3, <2>1, ReportTells
<1>4. CASE RejectSecond
  <2>1. stack # <<>> /\ UNCHANGED pool
        /\ (Return(Top.call, Top.event) \/ HangUp(Top.call, Tail(stack)))
    BY <1>4 DEF RejectSecond
  <2>2. CASE HangUp(Top.call, Tail(stack))
    <3>1. stack' = Tail(stack) \/ \E c, event : Reports(c, event, Tail(stack))
      BY <1>0, <1>2, <2>1, <2>2, HangUpIs
    <3> QED
      BY <1>0, <1>2, <2>1, <3>1, ReportTells
  <2> QED
    BY <1>3, <2>1, <2>2
<1>5. CASE Announce
  <2> DEFINE f == [Top EXCEPT !.due = FALSE, !.left = pool]
  <2>1. stack # <<>> /\ stack' = <<f>> \o Tail(stack) /\ UNCHANGED pool
    BY <1>5 DEF Announce
  <2>2. f \in Frame /\ ~f.due /\ f.left = pool
    BY <1>0, <1>2, <2>1 DEF Frame, Typed, RestTyped
  <2>3. Registered(f.left)
    BY <2>2 DEF Registered
  <2> HIDE DEF f
  <2>4. \A i \in DOMAIN stack' :
          stack'[i] = f \/ \E j \in DOMAIN Tail(stack) : stack'[i] = Tail(stack)[j]
    BY <1>2, <2>1, <2>2, PushIs
  <2> QED
    BY <1>0, <1>2, <2>1, <2>2, <2>3, <2>4, HandlersFrom
<1>6. CASE Tell
  <2> DEFINE cb == Head(Top.left)
             f == [Top EXCEPT !.left = Tail(@)]
             others == <<f>> \o Tail(stack)
  <2>1. stack # <<>> /\ ~Top.due /\ Top.left # <<>> /\ UNCHANGED pool
    BY <1>6 DEF Tell
  <2>2. f \in Frame /\ ~f.due /\ Registered(f.left)
    <3>1. Top.left \in Seq(Callback)
      BY <1>0, <2>1, TopTyped
    <3>2. Tail(Top.left) \in Seq(Callback)
          /\ \A i \in DOMAIN Tail(Top.left) : \E j \in DOMAIN Top.left : Tail(Top.left)[i] = Top.left[j]
      BY <2>1, <3>1, RestIs
    <3>3. f \in Frame /\ ~f.due /\ f.left = Tail(Top.left)
      BY <1>2, <2>1, <3>2 DEF Frame
    <3> HIDE DEF f
    <3> QED
      BY <1>2, <2>1, <3>2, <3>3 DEF Registered
  <2>3. stack' = others \/ \E c, event : Reports(c, event, others)
    <3>1. CASE AnswersIncoming(cb)
      <4> DEFINE mode == AutoAnswer[cb]
      <4>1. mode \in {180, 200, 486}
        BY <3>1, CallConstantsOK DEF AnswersIncoming, Mode
      <4>2. AnswerPjsua(callId, mode, others)
        BY <1>6, <3>1 DEF Tell
      <4>3. callId \in Call \cup {NoCall}
        BY <1>0 DEF Typed, RestTyped
      <4> HIDE DEF cb, others, mode
      <4> QED
        BY <1>0, <4>1, <4>2, <4>3, AnswerIs
    <3>2. CASE ~AnswersIncoming(cb)
      BY <1>6, <3>2 DEF Tell
    <3> QED
      BY <3>1, <3>2
  <2> HIDE DEF f
  <2>4. others \in Seq(Frame) /\ \A i \in DOMAIN others :
          others[i] = f \/ \E j \in DOMAIN Tail(stack) : others[i] = Tail(stack)[j]
    BY <1>2, <2>1, <2>2, PushIs
  <2> HIDE DEF others
  <2> QED
    BY <1>0, <1>2, <2>1, <2>2, <2>3, <2>4, ReportTells
<1>7. CASE Done
  <2>1. stack # <<>> /\ Return(Top.call, Top.event) /\ UNCHANGED pool
    BY <1>7 DEF Done
  <2> QED
    BY <1>3, <2>1
<1>8. ASSUME NEW cb \in Callback, AddCallCb(cb) \/ RmCallCb(cb) PROVE Telling'
  <2>1. UNCHANGED stack /\ PoolFree
    BY <1>8 DEF AddCallCb, RmCallCb
  <2>2. \A i \in DOMAIN stack : stack[i].left = <<>>
    BY <2>1 DEF PoolFree, Telling, DueTellsNobody
  <2>3. ToldOnlyRegistered'
    BY <1>1, <2>1, <2>2 DEF ToldOnlyRegistered
  <2>4. DueTellsNobody'
    BY <2>1 DEF Telling, DueTellsNobody
  <2> QED
    BY <1>0, <2>3, <2>4 DEF Telling
<1>9. ASSUME UNCHANGED <<stack, pool>> PROVE Telling'
  BY <1>0, <1>9 DEF Telling, DueTellsNobody, ToldOnlyRegistered
<1>10. ASSUME UNCHANGED pool, stack = <<>>,
              stack' = <<>> \/ \E c, event : Reports(c, event, <<>>)
       PROVE  Telling'
  BY <1>0, <1>1, <1>10, ReportTells
<1>11. ASSUME NEW c \in Call, IncomingCall(c) \/ OnCallState(c) \/ MakeCall(c) PROVE Telling'
  <2>1. \E event : Reports(c, event, <<>>)
    BY <1>11 DEF IncomingCall, OnCallState, MakeCall, Reports, StateAt, Event
  <2> QED
    BY <1>10, <1>11, <2>1 DEF IncomingCall, OnCallState, MakeCall
<1>12. CASE SIPStackAnswerCall
  <2> DEFINE mode == IF app = "accept" THEN 200 ELSE 486
  <2>1. AnswerPjsua(target, mode, <<>>) /\ mode \in {180, 200, 486}
        /\ target \in Call \cup {NoCall}
    BY <1>0, <1>12 DEF SIPStackAnswerCall, Typed, RestTyped
  <2> HIDE DEF mode
  <2> QED
    BY <1>0, <1>10, <1>12, <2>1, AnswerIs DEF SIPStackAnswerCall
<1>13. CASE SIPStackRejectCall
  <2>1. HangUp(target, <<>>) /\ target \in Call \cup {NoCall}
    BY <1>0, <1>13 DEF SIPStackRejectCall, Typed, RestTyped
  <2> QED
    BY <1>0, <1>10, <1>13, <2>1, HangUpIs DEF SIPStackRejectCall
<1>14. CASE EndCall
  <2>1. stack' = <<>> \/ \E c \in Call : stack' = <<Due(c, "disconnected")>>
    BY <1>14 DEF EndCall
  <2>2. \A i \in DOMAIN stack' : stack'[i].left = <<>>
    BY <2>1 DEF Due
  <2> QED
    BY <1>0, <1>14, <2>2, HandlersFrom DEF EndCall
<1>15. CASE CallBuddy \/ RejectCall \/ RejectCallAgain \/ HoldCall
            \/ (\E mode \in Mode : AnswerCall(mode)) \/ UNCHANGED vars
  BY <1>9, <1>15 DEF CallBuddy, RejectCall, RejectCallAgain, HoldCall, AnswerCall, vars
<1> QED
  BY <1>4, <1>5, <1>6, <1>7, <1>8, <1>11, <1>12, <1>13, <1>14, <1>15
     DEF Next, Handler, Application

\* A callback that was taken out of the pool is not told any more, although the
\* handlers go through copies of the pool.
THEOREM SpecToldOnlyRegistered == Spec => []ToldOnlyRegistered
<1>1. Init => Telling
  BY TypedInit DEF Init, Telling, DueTellsNobody, ToldOnlyRegistered
<1>2. Telling /\ [Next]_vars => Telling'
  BY TellingStep
<1>3. Telling => ToldOnlyRegistered
  BY DEF Telling
<1> QED
  BY <1>1, <1>2, <1>3, PTL DEF Spec

-----------------------------------------------------------------------------
(***************************************************************************)
(* The stack of handlers: one for a report of pjsua, and one more while a  *)
(* callback answers an incoming call from within.                          *)
(***************************************************************************)
\* Something is reported of c, and has not been heard yet.
Reporting(c) == stack # <<>> /\ Top.due /\ Top.call = c
Begins(c) == Reporting(c) /\ Top.event \in {"calling", "incoming"}

\* The outer handler of two tells of the incoming call that was answered.
Nested ==
  Tail(stack) # <<>> =>
    /\ Tail(Tail(stack)) = <<>>
    /\ Top.call = callId /\ Top.event \in {"connecting", "disconnected"}
    /\ Head(Tail(stack)).call = callId /\ Head(Tail(stack)).event = "incoming"
    /\ ~Head(Tail(stack)).due
    /\ callId \notin caller

Shape ==
  stack # <<>> =>
    /\ Nested
    /\ Top.event = "incoming" => Top.call \notin caller
    /\ Top.due => inv[Top.call] = StateAt(Top.event)
    /\ ~Top.due =>
         /\ callId = Top.call
         /\ \/ inv[Top.call] = StateAt(Top.event)
            \/ Top.event = "incoming" /\ inv[Top.call] \in {"connecting", "free"}

\* A call that rings here, or was answered here, is the manager's own: others
\* are rejected at once.
OneIncoming ==
  \A c \in Call \ caller :
    IsActive(c) => c = callId \/ (Reporting(c) /\ Top.event = "incoming")

(***************************************************************************)
(* Where each call is known.                                               *)
(***************************************************************************)
\* The next thing told of a call is a later stage, the same one, or its end.
Follows(event, stage) ==
  \/ event = "disconnected"
  \/ event \in PL!Stage /\ (event = stage \/ PL!Rank[stage] < PL!Rank[event])

\* The call on the line is the manager's own, at the stage pjsua has it at or
\* about to be told what follows.
LineIsOurs ==
  line # Idle =>
    /\ line.call \in Call /\ line.call = callId /\ line.stage \in PL!Stage
    /\ ~Begins(callId)
    /\ Reporting(callId) => Follows(Top.event, line.stage)
    /\ ~Reporting(callId) => inv[callId] = line.stage

\* Every call there is is on the line, refused, about to be told or just over.
EveryCallKnown ==
  \A c \in Call :
    inv[c] # "free" =>
      \/ c = line.call \/ c \in refused \/ Begins(c)
      \/ stack # <<>> /\ ~Top.due /\ Top.call = c /\ Top.event = "disconnected"

RefusedExist == \A c \in refused : inv[c] # "free" /\ ~Begins(c)

PhoneInv == Shape /\ OneIncoming /\ LineIsOurs /\ EveryCallKnown /\ RefusedExist

\* The ranks of the stages of PhoneLine.
LEMMA RankIs ==
  /\ PL!Rank["calling"] = 0 /\ PL!Rank["incoming"] = 0 /\ PL!Rank["early"] = 1
  /\ PL!Rank["connecting"] = 2 /\ PL!Rank["confirmed"] = 3
  /\ PL!Stage = {"calling", "incoming", "early", "connecting", "confirmed"}
BY DEF PL!Rank, PL!Stage

\* The handler at the top returns.
LEMMA ReturnIs ==
  ASSUME TypeOK, stack # <<>>, Return(Top.call, Top.event)
  PROVE  /\ UNCHANGED <<caller, closing>>
         /\ \/ /\ Top.event = "incoming" /\ ~Rings(Top.call)
               /\ stack' = Tail(stack) /\ UNCHANGED inv
            \/ /\ Top.event = "incoming" /\ Rings(Top.call)
               /\ Reports(Top.call, "early", Tail(stack))
            \/ /\ Top.event = "disconnected"
               /\ stack' = Tail(stack) /\ inv' = [inv EXCEPT ![Top.call] = "free"]
            \/ /\ Top.event \notin {"incoming", "disconnected"}
               /\ stack' = Tail(stack) /\ UNCHANGED inv
<1>1. CASE Top.event = "incoming"
  <2> DEFINE mode == 180
             c == Top.call
             rest == Tail(stack)
  <2>1. AnswerPjsua(c, mode, rest) /\ mode \in {180, 200, 486}
    BY <1>1 DEF Return
  <2>2. c \in Call \cup {NoCall}
    BY TopTyped
  <2>3. /\ UNCHANGED <<caller, closing>>
        /\ \/ stack' = rest /\ UNCHANGED inv /\ ~Rings(c)
           \/ Rings(c) /\ mode = 180 /\ Reports(c, "early", rest)
           \/ Rings(c) /\ mode = 200 /\ Reports(c, "connecting", rest)
           \/ Rings(c) /\ mode = 486 /\ Reports(c, "disconnected", rest)
    <3> HIDE DEF c, mode, rest
    <3> QED
      BY <2>1, <2>2, AnswerIs
  <2> QED
    BY <1>1, <2>3
<1>2. CASE Top.event # "incoming"
  BY <1>2 DEF Return
<1> QED
  BY <1>1, <1>2

\* A call that exists goes on: it becomes early, connecting, confirmed or over.
LEMMA GoingOnKeepsPhone ==
  ASSUME TypeOK, PhoneInv, stack = <<>>, NEW c \in Call, IsActive(c), NEW event \in Event,
         event \notin {"calling", "incoming"}, Follows(event, inv[c]),
         Reports(c, event, <<>>), UNCHANGED <<caller, callId, line, refused>>
  PROVE  PhoneInv'
<1>1. /\ stack' # <<>> /\ Head(stack') = Due(c, event) /\ Tail(stack') = <<>>
      /\ inv'[c] = StateAt(event) /\ \A d \in Call \ {c} : inv'[d] = inv[d]
  BY ReportIs, EmptySeq
<1>2. Due(c, event).call = c /\ Due(c, event).event = event /\ Due(c, event).due
  BY DEF Due
<1>3. Shape'
  BY <1>1, <1>2 DEF Shape, Nested, Top
<1>4. OneIncoming'
  BY <1>1, <1>2 DEF PhoneInv, OneIncoming, Reporting, IsActive, Top
<1>5. LineIsOurs'
  BY <1>1, <1>2 DEF PhoneInv, LineIsOurs, Reporting, Begins, Top, Follows, IsActive
<1>6. EveryCallKnown'
  BY <1>1, <1>2 DEF PhoneInv, EveryCallKnown, Begins, Reporting, Top, IsActive
<1>7. RefusedExist'
  BY <1>1, <1>2 DEF PhoneInv, RefusedExist, Begins, Reporting, Top, StateAt, TypeOK, Event
<1> QED
  BY <1>3, <1>4, <1>5, <1>6, <1>7 DEF PhoneInv

\* A call begins, here or on the other side.
LEMMA BeginningKeepsPhone ==
  ASSUME TypeOK, PhoneInv, stack = <<>>, NEW c \in Call, inv[c] = "free",
         NEW event \in {"calling", "incoming"}, Reports(c, event, <<>>),
         caller' = IF event = "calling" THEN caller \cup {c} ELSE caller \ {c},
         UNCHANGED <<callId, line, refused>>
  PROVE  PhoneInv'
<1>1. /\ stack' # <<>> /\ Head(stack') = Due(c, event) /\ Tail(stack') = <<>>
      /\ inv'[c] = event /\ \A d \in Call \ {c} : inv'[d] = inv[d]
  BY ReportIs, EmptySeq DEF StateAt
<1>2. Due(c, event).call = c /\ Due(c, event).event = event /\ Due(c, event).due
  BY DEF Due
<1>3. Shape'
  BY <1>1, <1>2 DEF Shape, Nested, Top, StateAt
<1>4. OneIncoming'
  BY <1>1, <1>2 DEF PhoneInv, OneIncoming, Reporting, IsActive, Top
<1>5. LineIsOurs'
  <2> SUFFICES ASSUME line # Idle PROVE LineIsOurs'
    BY DEF LineIsOurs, Idle
  <2>1. c # callId /\ ~Reporting(callId)
    BY RankIs DEF PhoneInv, LineIsOurs, Reporting
  <2> QED
    BY <1>1, <1>2, <2>1 DEF PhoneInv, LineIsOurs, Reporting, Begins, Top
<1>6. EveryCallKnown'
  BY <1>1, <1>2 DEF PhoneInv, EveryCallKnown, Begins, Reporting, Top
<1>7. RefusedExist'
  BY <1>1, <1>2 DEF PhoneInv, RefusedExist, Begins, Reporting, Top, TypeOK
<1> QED
  BY <1>3, <1>4, <1>5, <1>6, <1>7 DEF PhoneInv

\* Something is reported of a call that goes on, or of one that begins.
GoesOn(c, event) ==
  /\ IsActive(c) /\ event \notin {"calling", "incoming"} /\ Follows(event, inv[c])
  /\ UNCHANGED caller

Starts(c, event) ==
  /\ inv[c] = "free" /\ event \in {"calling", "incoming"}
  /\ caller' = IF event = "calling" THEN caller \cup {c} ELSE caller \ {c}

\* Outside the handlers pjsua reports one thing, or nothing changes for them.
Outside ==
  \/ UNCHANGED <<inv, caller, stack>>
  \/ \E c \in Call, event \in Event :
       stack = <<>> /\ Reports(c, event, <<>>) /\ (GoesOn(c, event) \/ Starts(c, event))

\* What the other side and the application's threads do.
LEMMA OutsideIs ==
  ASSUME Typed, PhoneInv,
         \/ Application
         \/ \E c \in Call : IncomingCall(c) \/ OnCallState(c)
  PROVE  Outside /\ UNCHANGED <<callId, line, told, refused>> /\ timer' \in {timer, FALSE}
<1>0. TypeOK /\ <<>> \in Seq(Frame) /\ timer \in BOOLEAN
  BY TypeParts, EmptySeq DEF Typed, RestTyped
<1>1. UNCHANGED <<callId, line, told, refused>> /\ timer' \in {timer, FALSE}
  BY <1>0 DEF Application, CallBuddy, SIPStackAnswerCall, RejectCall, RejectCallAgain,
         SIPStackRejectCall, EndCall, HoldCall, MakeCall, AnswerCall, AddCallCb, RmCallCb,
         IncomingCall, OnCallState, history, manager
<1> SUFFICES Outside
  BY <1>1
<1>2. ASSUME NEW c, Rings(c), stack = <<>>, NEW event \in {"connecting", "disconnected"},
             Reports(c, event, <<>>), UNCHANGED caller
      PROVE  Outside
  <2>1. IsActive(c) /\ Follows(event, inv[c]) /\ event \in Event /\ c \in Call
    BY <1>2, RankIs, CallConstantsOK DEF Rings, IsActive, Follows, Event
  <2> QED
    BY <1>2, <2>1 DEF Outside, GoesOn
<1>3. ASSUME UNCHANGED <<inv, caller, stack>> PROVE Outside
  BY <1>3 DEF Outside
<1>4. CASE \/ CallBuddy \/ RejectCall \/ RejectCallAgain \/ HoldCall
           \/ \E mode \in Mode : AnswerCall(mode)
           \/ \E cb \in Callback : AddCallCb(cb) \/ RmCallCb(cb)
  BY <1>3, <1>4 DEF CallBuddy, RejectCall, RejectCallAgain, HoldCall, AnswerCall, AddCallCb,
                    RmCallCb, pjsua, manager
<1>5. ASSUME NEW c \in Call, MakeCall(c) PROVE Outside
  <2>1. Reports(c, "calling", <<>>) /\ stack = <<>> /\ inv[c] = "free"
        /\ caller' = caller \cup {c} /\ UNCHANGED callId
    BY <1>5 DEF MakeCall, Reports, StateAt, Event, manager
  <2> QED
    BY <2>1 DEF Outside, Starts, Event
<1>6. ASSUME NEW c \in Call, IncomingCall(c) PROVE Outside
  <2>1. Reports(c, "incoming", <<>>) /\ stack = <<>> /\ inv[c] = "free"
        /\ caller' = caller \ {c} /\ UNCHANGED callId
    BY <1>6 DEF IncomingCall, Reports, StateAt, Event, manager
  <2> QED
    BY <2>1 DEF Outside, Starts, Event
<1>7. ASSUME NEW c \in Call, OnCallState(c) PROVE Outside
  <2>1. /\ stack = <<>> /\ UNCHANGED <<caller, callId>> /\ IsActive(c)
        /\ \E event \in {"early", "connecting", "confirmed", "disconnected"} :
             Reports(c, event, <<>>) /\ Follows(event, inv[c])
    BY <1>7, RankIs, CallConstantsOK
       DEF OnCallState, Reports, StateAt, Event, manager, IsActive, Follows
  <2> QED
    BY <2>1 DEF Outside, GoesOn, Event
<1>8. CASE SIPStackAnswerCall
  <2> DEFINE mode == IF app = "accept" THEN 200 ELSE 486
  <2>1. AnswerPjsua(target, mode, <<>>) /\ mode \in {180, 200, 486} /\ mode # 180
        /\ target \in Call \cup {NoCall} /\ stack = <<>> /\ UNCHANGED callId
    BY <1>8 DEF SIPStackAnswerCall, Typed, RestTyped, manager
  <2> HIDE DEF mode
  <2>2. /\ UNCHANGED caller
        /\ \/ stack' = <<>> /\ UNCHANGED inv
           \/ Rings(target) /\ Reports(target, "connecting", <<>>)
           \/ Rings(target) /\ Reports(target, "disconnected", <<>>)
    BY <1>0, <2>1, AnswerIs
  <2>3. CASE stack' = <<>> /\ UNCHANGED inv
    BY <1>3, <2>1, <2>2, <2>3
  <2>4. ASSUME Rings(target), NEW event \in {"connecting", "disconnected"},
               Reports(target, event, <<>>)
        PROVE  Outside
    <3>1. target \in Call
      BY <2>4 DEF Rings
    <3> QED
      BY <1>2, <2>1, <2>2, <2>4, <3>1
  <2> QED
    BY <2>2, <2>3, <2>4
<1>9. CASE SIPStackRejectCall
  <2>1. HangUp(target, <<>>) /\ target \in Call \cup {NoCall} /\ stack = <<>>
        /\ UNCHANGED callId
    BY <1>9 DEF SIPStackRejectCall, Typed, RestTyped, manager
  <2>2. /\ UNCHANGED caller
        /\ \/ stack' = <<>> /\ UNCHANGED inv
           \/ Rings(target) /\ Reports(target, "disconnected", <<>>)
    BY <1>0, <2>1, HangUpIs
  <2>3. CASE stack' = <<>> /\ UNCHANGED inv
    BY <1>3, <2>1, <2>2, <2>3
  <2>4. ASSUME Rings(target), NEW event \in {"connecting", "disconnected"},
               Reports(target, event, <<>>)
        PROVE  Outside
    <3>1. target \in Call
      BY <2>4 DEF Rings
    <3> QED
      BY <1>2, <2>1, <2>2, <2>4, <3>1
  <2> QED
    BY <2>2, <2>3, <2>4
<1>10. CASE EndCall
  <2> DEFINE ringing == {c \in Call : Rings(c)}
  <2>1. /\ stack = <<>> /\ UNCHANGED <<caller, callId>>
        /\ inv' = [c \in Call |-> IF c \in ringing THEN "over" ELSE inv[c]]
        /\ \E c \in ringing \cup {NoCall} :
              /\ c = NoCall => ringing = {}
              /\ stack' = IF c = NoCall THEN <<>> ELSE <<Due(c, "disconnected")>>
    <3>1. ringing = {c \in {d \in Call : IsActive(d)} \ caller : inv[c] \in {"incoming", "early"}}
      BY CallConstantsOK DEF Rings, IsActive
    <3> HIDE DEF ringing
    <3> QED
      BY <1>10, <3>1 DEF EndCall
  <2>2. \A c \in ringing : c = callId
    BY <2>1, CallConstantsOK DEF Rings, PhoneInv, OneIncoming, Reporting, IsActive
  <2>3. CASE ringing = {}
    <3>1. stack' = <<>> /\ inv' = inv
      <4>1. stack' = <<>>
        BY <2>1, <2>3
      <4>2. inv' = [c \in Call |-> inv[c]]
        BY <2>1, <2>3
      <4> QED
        BY <1>0, <4>1, <4>2 DEF TypeOK
    <3>2. UNCHANGED <<inv, caller, stack>>
      BY <2>1, <3>1
    <3> QED
      BY <1>3, <3>2
  <2>4. ASSUME NEW c \in ringing, stack' = <<Due(c, "disconnected")>> PROVE Outside
    <3>1. inv' = [inv EXCEPT ![c] = "over"]
      BY <1>0, <2>1, <2>2, <2>4 DEF TypeOK
    <3>2. Due(c, "disconnected") \in Frame
      <4>1. <<>> \in Seq(Callback)
        BY EmptySeq
      <4> QED
        BY <4>1 DEF Due, Frame, Event
    <3>3. stack' = <<Due(c, "disconnected")>> \o <<>>
      <4> DEFINE f == Due(c, "disconnected")
      <4>1. f \in Frame /\ stack' = <<f>>
        BY <2>4, <3>2
      <4> HIDE DEF f
      <4>2. <<f>> \in Seq(Frame)
        BY <4>1
      <4>3. stack' = <<f>> \o <<>>
        BY <4>1, <4>2, ConcatEmptySeq
      <4> QED
        BY <4>3 DEF f
    <3>4. Reports(c, "disconnected", <<>>) /\ Rings(c)
      BY <3>1, <3>3 DEF Reports, Report, StateAt, Event
    <3> QED
      BY <1>2, <2>1, <3>4
  <2>5. CASE ringing # {}
    <3>1. PICK c \in ringing \cup {NoCall} :
              /\ c = NoCall => ringing = {}
              /\ stack' = IF c = NoCall THEN <<>> ELSE <<Due(c, "disconnected")>>
      BY <2>1
    <3> HIDE DEF ringing
    <3>2. c \in ringing /\ stack' = <<Due(c, "disconnected")>>
      BY <2>5, <3>1
    <3> QED
      BY <2>4, <3>2
  <2> QED
    BY <2>3, <2>5
<1> QED
  BY <1>1, <1>4, <1>5, <1>6, <1>7, <1>8, <1>9, <1>10 DEF Application

\* What happens outside the handlers keeps where each call is known.
LEMMA OutsideKeepsPhone ==
  ASSUME TypeOK, PhoneInv, Outside, UNCHANGED <<callId, line, refused>>
  PROVE  PhoneInv'
<1>1. CASE UNCHANGED <<inv, caller, stack>>
  BY <1>1 DEF PhoneInv, Shape, Nested, OneIncoming, LineIsOurs, EveryCallKnown,
              RefusedExist, Begins, Reporting, Top, IsActive, Idle
<1>2. ASSUME NEW c \in Call, NEW event \in Event, stack = <<>>, Reports(c, event, <<>>),
             GoesOn(c, event)
      PROVE  PhoneInv'
  BY <1>2, GoingOnKeepsPhone DEF GoesOn
<1>3. ASSUME NEW c \in Call, NEW event \in Event, stack = <<>>, Reports(c, event, <<>>),
             Starts(c, event)
      PROVE  PhoneInv'
  BY <1>3, BeginningKeepsPhone DEF Starts
<1> QED
  BY <1>1, <1>2, <1>3 DEF Outside

-----------------------------------------------------------------------------
(***************************************************************************)
(* What the handlers do, and what it is to PhoneLine.                      *)
(***************************************************************************)
\* What the lemmas about handlers need of the handler at the top.
LEMMA TopOfPhone ==
  ASSUME TypeOK, PhoneInv, stack # <<>>
  PROVE  /\ Top.call \in Call /\ Top.event \in Event /\ Top.due \in BOOLEAN
         /\ Tail(stack) \in Seq(Frame)
         /\ inv[Top.call] \in InviteState /\ NoCall \notin Call
         /\ Top.call # callId => Tail(stack) = <<>>
         /\ Top.event \notin {"connecting", "disconnected"} => Tail(stack) = <<>>
<1>1. Top.call \in Call /\ Top.event \in Event /\ Top.due \in BOOLEAN
      /\ Tail(stack) \in Seq(Frame)
  BY TopTyped
<1> QED
  BY <1>1, CallConstantsOK DEF TypeOK, PhoneInv, Shape, Nested

\* A call on the line that nothing is reported of is active.
LEMMA LineIsActive ==
  ASSUME PhoneInv, line # Idle, ~Reporting(callId)
  PROVE  callId \in Call /\ IsActive(callId)
BY RankIs, CallConstantsOK DEF PhoneInv, LineIsOurs, IsActive

\* A second call is refused, or a refused one is over.
LEMMA RejectSecondStep ==
  ASSUME TypeOK, PhoneInv, RejectSecond
  PROVE  PhoneInv' /\ \E c \in Call : PL!Refuse(c) \/ PL!Over(c)
<1> DEFINE c == Top.call
           rest == Tail(stack)
<1>1. /\ stack # <<>> /\ Top.due /\ callId # c /\ IsActive(callId)
      /\ UNCHANGED <<callId, caller, line, told>>
  BY DEF RejectSecond, LineBusy, manager, Return, HangUp, AnswerPjsua
<1>2. c \in Call /\ Top.event \in Event /\ rest = <<>> /\ rest \in Seq(Frame)
      /\ NoCall \notin Call
  BY <1>1, TopOfPhone
<1>3. inv[c] = StateAt(Top.event)
  BY <1>1 DEF PhoneInv, Shape
<1>4. line.call # c
  BY <1>1, <1>2 DEF PhoneInv, LineIsOurs, Idle
<1>5. \A d \in Call \ caller : IsActive(d) => d = callId \/ (d = c /\ Top.event = "incoming")
  BY <1>1 DEF PhoneInv, OneIncoming, Reporting
<1>6. line # Idle => /\ line.call \in Call /\ line.call = callId /\ line.stage \in PL!Stage
                     /\ inv[callId] = line.stage
  BY <1>1 DEF PhoneInv, LineIsOurs, Reporting
<1>7. \A d \in Call \ {c} : inv[d] # "free" => d = line.call \/ d \in refused
  BY <1>1 DEF PhoneInv, EveryCallKnown, Begins, Reporting
<1>8. refused \subseteq Call /\ (\A d \in refused : inv[d] # "free")
  BY DEF PhoneInv, RefusedExist, TypeOK
<1>9. CASE inv[c] = "over"
  <2>1. Top.event = "disconnected"
    BY <1>2, <1>3, <1>9 DEF StateAt, Event
  <2>2. stack' = <<>> /\ inv' = [inv EXCEPT ![c] = "free"] /\ refused' = refused \ {c}
    BY <1>2, <1>9, <2>1 DEF RejectSecond, Return
  <2>3. inv'[c] = "free" /\ \A d \in Call \ {c} : inv'[d] = inv[d]
    BY <1>2, <2>2 DEF TypeOK
  <2> HIDE DEF c
  <2>4. Shape' /\ OneIncoming'
    BY <1>1, <1>2, <1>5, <2>1, <2>2, <2>3 DEF Shape, OneIncoming, IsActive
  <2>5. LineIsOurs'
    BY <1>1, <1>2, <1>6, <2>2, <2>3 DEF LineIsOurs, Begins, Reporting, Idle
  <2>6. EveryCallKnown' /\ RefusedExist'
    BY <1>1, <1>2, <1>7, <1>8, <2>2, <2>3 DEF EveryCallKnown, RefusedExist, Begins, Reporting
  <2>7. PL!Over(c)
    BY <1>1, <2>2 DEF PL!Over
  <2> QED
    BY <1>2, <2>4, <2>5, <2>6, <2>7 DEF PhoneInv
<1>10. CASE inv[c] # "over"
  <2>1. HangUp(c, rest) /\ refused' = refused \cup {c}
    BY <1>10 DEF RejectSecond
  <2>2. PL!Refuse(c)
    BY <1>1, <1>4, <2>1 DEF PL!Refuse
  <2>3. \/ stack' = <<>> /\ UNCHANGED inv /\ ~Rings(c)
        \/ Reports(c, "disconnected", <<>>)
    <3> HIDE DEF c, rest
    <3> QED
      BY <1>2, <2>1, HangUpIs
  <2>4. CASE stack' = <<>> /\ UNCHANGED inv /\ ~Rings(c)
    <3>1. \A d \in Call \ caller : IsActive(d) => d = callId
      BY <1>2, <1>3, <1>5, <2>4 DEF Rings, StateAt
    <3>2. inv[c] # "free"
      BY <1>2, <1>3 DEF StateAt, Event
    <3> HIDE DEF c
    <3>3. Shape' /\ OneIncoming'
      BY <1>1, <2>4, <3>1 DEF Shape, OneIncoming, IsActive
    <3>4. LineIsOurs'
      BY <1>1, <1>6, <2>4 DEF LineIsOurs, Begins, Reporting, Idle
    <3>5. EveryCallKnown' /\ RefusedExist'
      BY <1>1, <1>7, <1>8, <2>1, <2>4, <3>2 DEF EveryCallKnown, RefusedExist, Begins, Reporting
    <3> QED
      BY <1>2, <2>2, <3>3, <3>4, <3>5 DEF PhoneInv
  <2>5. CASE Reports(c, "disconnected", <<>>)
    <3> HIDE DEF c
    <3>1. /\ stack' # <<>> /\ Head(stack') = Due(c, "disconnected") /\ Tail(stack') = <<>>
          /\ inv'[c] = "over" /\ \A d \in Call \ {c} : inv'[d] = inv[d]
      BY <1>2, <2>5, ReportIs DEF StateAt
    <3>2. Top' = [call |-> c, event |-> "disconnected", due |-> TRUE, left |-> <<>>]
      BY <3>1 DEF Top, Due
    <3>3. Shape'
      BY <3>1, <3>2 DEF Shape, Nested, StateAt
    <3>4. OneIncoming'
      BY <1>1, <1>5, <3>1 DEF OneIncoming, IsActive
    <3>5. LineIsOurs'
      BY <1>1, <1>2, <1>6, <3>1, <3>2 DEF LineIsOurs, Begins, Reporting, Idle
    <3>6. EveryCallKnown' /\ RefusedExist'
      BY <1>1, <1>7, <1>8, <2>1, <3>1, <3>2 DEF EveryCallKnown, RefusedExist, Begins, Reporting
    <3> QED
      BY <1>2, <2>2, <3>3, <3>4, <3>5, <3>6 DEF PhoneInv
  <2> QED
    BY <2>3, <2>4, <2>5
<1> QED
  BY <1>9, <1>10

\* A callback may be told now: the call on the line begins, goes on or ends, or
\* something is told of a refused one while there is no other.
LEMMA AnnounceStep ==
  ASSUME TypeOK, PhoneInv, Announce
  PROVE  PhoneInv' /\ PL!Next
<1> DEFINE c == Top.call
           e == Top.event
           rest == Tail(stack)
           f == [Top EXCEPT !.due = FALSE, !.left = pool]
<1>1. /\ stack # <<>> /\ Top.due /\ (callId = c \/ ~IsActive(callId))
      /\ callId' = c /\ stack' = <<f>> \o rest
      /\ told' = [call |-> c, stage |-> e]
      /\ line' = IF e \in {"calling", "incoming"} THEN told'
                 ELSE IF c # line.call THEN line
                 ELSE IF e = "disconnected" THEN Idle ELSE told'
      /\ UNCHANGED <<inv, caller, refused>>
  BY DEF Announce, LineBusy, pjsua
<1>2. /\ c \in Call /\ e \in Event /\ rest \in Seq(Frame) /\ NoCall \notin Call
      /\ c # callId => rest = <<>>
  BY <1>1, TopOfPhone
<1>3. f \in Frame /\ f.call = c /\ f.event = e /\ ~f.due
  BY <1>1, TopTyped DEF Frame, TypeOK
<1>4. stack' # <<>> /\ Top' = f /\ Tail(stack') = rest
  <2> HIDE DEF f, rest
  <2> QED
    BY <1>1, <1>2, <1>3, PushIs DEF Top
<1>5. inv[c] = StateAt(e) /\ Nested /\ (e = "incoming" => c \notin caller)
  BY <1>1 DEF PhoneInv, Shape
<1>6. Nested'
  BY <1>1, <1>2, <1>3, <1>4, <1>5 DEF Nested
<1> HIDE DEF f
<1>7. Shape'
  BY <1>1, <1>3, <1>4, <1>5, <1>6 DEF Shape
<1>8. OneIncoming'
  BY <1>1 DEF PhoneInv, OneIncoming, Reporting, IsActive
<1>9. RefusedExist' /\ refused \subseteq Call /\ ~(\E d \in Call : Begins(d)')
      /\ ~(\E d \in Call : Reporting(d)')
  BY <1>1, <1>3, <1>4 DEF PhoneInv, RefusedExist, Begins, Reporting, TypeOK
<1>10. /\ Reporting(c) /\ (Begins(c) <=> e \in {"calling", "incoming"})
       /\ \A d \in Call \ {c} : ~Begins(d) /\ ~Reporting(d)
  BY <1>1 DEF Begins, Reporting
<1>11. line # Idle => callId = c /\ line.call = c /\ Follows(e, line.stage) /\ ~Begins(c)
  <2> SUFFICES ASSUME line # Idle
               PROVE callId = c /\ line.call = c /\ Follows(e, line.stage) /\ ~Begins(c)
    OBVIOUS
  <2>1. callId \in Call /\ line.call = callId /\ ~Begins(callId)
        /\ (Reporting(callId) => Follows(e, line.stage))
    BY DEF PhoneInv, LineIsOurs
  <2>2. callId = c
    BY <1>1, <1>10, <2>1, LineIsActive
  <2> QED
    BY <1>10, <2>1, <2>2
<1>12. \A d \in Call : inv[d] # "free" => d = line.call \/ d \in refused \/ (d = c /\ Begins(c))
  BY <1>1, <1>10 DEF PhoneInv, EveryCallKnown
<1>13. inv[c] # "free" /\ line' \in {told', line, Idle}
  BY <1>1, <1>2, <1>5 DEF StateAt, Event
<1>14. CASE e \in {"calling", "incoming"}
  <2>1. line = Idle /\ c \notin refused /\ line' = told'
    BY <1>1, <1>10, <1>11, <1>14 DEF PhoneInv, RefusedExist
  <2>2. PL!Start(c)
    BY <1>1, <1>14, <2>1 DEF PL!Start, PL!Idle, Idle
  <2>3. LineIsOurs'
    BY <1>1, <1>2, <1>5, <1>9, <1>14, <2>1, RankIs DEF LineIsOurs, StateAt
  <2>4. EveryCallKnown'
    BY <1>1, <1>2, <1>12, <2>1 DEF EveryCallKnown, Idle
  <2> QED
    BY <1>2, <1>7, <1>8, <1>9, <2>2, <2>3, <2>4 DEF PhoneInv, PL!Next
<1>15. CASE e \notin {"calling", "incoming"} /\ c # line.call
  <2>1. line = Idle /\ line' = line /\ c \in refused
    BY <1>1, <1>2, <1>10, <1>11, <1>12, <1>13, <1>15
  <2>2. PL!Stray(c)
    BY <1>1, <1>2, <1>15, <2>1 DEF PL!Stray, PL!Idle, Idle, Event
  <2>3. LineIsOurs'
    BY <2>1 DEF LineIsOurs, Idle
  <2>4. EveryCallKnown'
    BY <1>1, <1>2, <1>10, <1>12, <1>15, <2>1 DEF EveryCallKnown
  <2> QED
    BY <1>2, <1>7, <1>8, <1>9, <2>2, <2>3, <2>4 DEF PhoneInv, PL!Next
<1>16. CASE e = "disconnected" /\ c = line.call
  <2>1. line # Idle /\ line' = Idle
    BY <1>1, <1>2, <1>16 DEF Idle
  <2>2. PL!End
    BY <1>1, <1>16, <2>1 DEF PL!End, PL!Idle, Idle, TypeOK
  <2>3. LineIsOurs'
    BY <2>1 DEF LineIsOurs, Idle
  <2>4. EveryCallKnown'
    BY <1>1, <1>2, <1>3, <1>4, <1>10, <1>12, <1>16, <2>1 DEF EveryCallKnown
  <2> QED
    BY <1>7, <1>8, <1>9, <2>2, <2>3, <2>4 DEF PhoneInv, PL!Next
<1>17. CASE e \notin {"calling", "incoming", "disconnected"} /\ c = line.call
  <2>1. line # Idle /\ line' = told' /\ callId = c /\ Follows(e, line.stage)
    BY <1>1, <1>2, <1>11, <1>17 DEF Idle
  <2>2. PL!Progress
    <3>1. e \in PL!Stage /\ (PL!Rank[e] > PL!Rank[line.stage] \/ e = line.stage)
      <4> HIDE DEF e
      <4>1. e \in PL!Stage /\ (e = line.stage \/ PL!Rank[line.stage] < PL!Rank[e])
        BY <1>17, <2>1 DEF Follows
      <4> QED
        BY <4>1
    <3>2. line' = [line EXCEPT !.stage = e] /\ line # PL!Idle /\ told' = line' /\ UNCHANGED refused
      BY <1>1, <1>17, <2>1 DEF PL!Idle, Idle, TypeOK
    <3> HIDE DEF e
    <3> QED
      BY <3>1, <3>2 DEF PL!Progress
  <2>3. LineIsOurs'
    BY <1>1, <1>2, <1>5, <1>9, <1>17, <2>1, RankIs DEF LineIsOurs, StateAt, Event
  <2>4. EveryCallKnown'
    BY <1>1, <1>2, <1>10, <1>12, <1>17, <2>1 DEF EveryCallKnown
  <2> QED
    BY <1>7, <1>8, <1>9, <2>2, <2>3, <2>4 DEF PhoneInv, PL!Next
<1> QED
  BY <1>2, <1>14, <1>15, <1>16, <1>17 DEF Event

\* The next callback is told; it may answer an incoming call from within.
LEMMA TellStep ==
  ASSUME Typed, PhoneInv, Tell
  PROVE  PhoneInv' /\ UNCHANGED history
<1> DEFINE c == Top.call
           cb == Head(Top.left)
           rest == Tail(stack)
           f == [Top EXCEPT !.left = Tail(@)]
           others == <<f>> \o rest
<1>0. TypeOK /\ callId \in Call \cup {NoCall}
  BY TypeParts DEF Typed, RestTyped
<1>1. /\ stack # <<>> /\ ~Top.due /\ Top.left # <<>>
      /\ UNCHANGED <<callId, line, told, refused>>
  BY DEF Tell, history
<1>2. /\ c \in Call /\ Top.event \in Event /\ rest \in Seq(Frame) /\ NoCall \notin Call
      /\ Top.event = "incoming" => rest = <<>>
  BY <1>0, <1>1, TopOfPhone
<1>3. /\ f \in Frame /\ f.call = c /\ f.event = Top.event /\ ~f.due
  <2>1. Tail(Top.left) \in Seq(Callback)
    BY <1>0, <1>1, TopTyped, HeadTailProperties
  <2> QED
    BY <1>0, <1>1, <2>1, TopTyped DEF Frame
<1>4. others \in Seq(Frame) /\ others # <<>> /\ Head(others) = f /\ Tail(others) = rest
  <2> HIDE DEF f, rest
  <2> QED
    BY <1>2, <1>3, PushIs
<1>5. /\ callId = c /\ Nested /\ (Top.event = "incoming" => c \notin caller)
      /\ \/ inv[c] = StateAt(Top.event)
         \/ Top.event = "incoming" /\ inv[c] \in {"connecting", "free"}
  BY <1>1 DEF PhoneInv, Shape
<1>6. ~(\E d \in Call : Reporting(d)) /\ ~Reporting(callId)
  BY <1>1 DEF Reporting
<1>7. \A d \in Call : inv[d] # "free" =>
        \/ d = line.call \/ d \in refused
        \/ d = c /\ Top.event = "disconnected"
  BY <1>1, <1>6 DEF PhoneInv, EveryCallKnown, Begins
<1>8. refused \subseteq Call /\ (\A d \in refused : inv[d] # "free")
  BY <1>0 DEF PhoneInv, RefusedExist, TypeOK
<1>9. line # Idle => /\ line.call \in Call /\ line.call = callId /\ line.stage \in PL!Stage
                     /\ inv[callId] = line.stage
  BY <1>6 DEF PhoneInv, LineIsOurs
<1> HIDE DEF f, others
<1>10. ASSUME stack' = others, UNCHANGED <<inv, caller>> PROVE PhoneInv'
  <2>1. stack' # <<>> /\ Top' = f /\ Tail(stack') = rest
    BY <1>4, <1>10 DEF Top
  <2>2. Nested'
    BY <1>1, <1>3, <1>5, <1>10, <2>1 DEF Nested
  <2>3. Shape'
    BY <1>1, <1>3, <1>5, <1>10, <2>1, <2>2 DEF Shape
  <2>4. ~(\E d \in Call : Reporting(d)') /\ ~Reporting(callId)'
    BY <1>3, <2>1 DEF Reporting
  <2>5. OneIncoming'
    BY <1>1, <1>6, <1>10 DEF PhoneInv, OneIncoming, IsActive
  <2>6. LineIsOurs'
    BY <1>1, <1>9, <1>10, <2>4 DEF LineIsOurs, Begins, Idle
  <2>7. EveryCallKnown' /\ RefusedExist'
    BY <1>1, <1>3, <1>7, <1>8, <1>10, <2>1, <2>4 DEF EveryCallKnown, RefusedExist, Begins
  <2> QED
    BY <2>3, <2>5, <2>6, <2>7 DEF PhoneInv
<1>11. ASSUME Top.event = "incoming", Rings(c), UNCHANGED caller,
              NEW e \in {"connecting", "disconnected"}, Reports(c, e, others)
       PROVE  PhoneInv'
  <2> HIDE DEF c
  <2>1. /\ stack' # <<>> /\ Head(stack') = Due(c, e) /\ Tail(stack') = others
        /\ inv'[c] = StateAt(e) /\ \A d \in Call \ {c} : inv'[d] = inv[d]
    BY <1>0, <1>4, <1>11, ReportIs
  <2>2. Top' = [call |-> c, event |-> e, due |-> TRUE, left |-> <<>>]
    BY <2>1 DEF Top, Due
  <2>3. Nested'
    BY <1>1, <1>2, <1>3, <1>4, <1>5, <1>11, <2>1, <2>2 DEF Nested
  <2>4. Shape'
    BY <1>11, <2>1, <2>2, <2>3 DEF Shape
  <2>5. OneIncoming'
    BY <1>1, <1>5, <1>6, <1>11, <2>1 DEF PhoneInv, OneIncoming, IsActive
  <2>6. LineIsOurs'
    <3>1. line # Idle => Follows(e, line.stage)
      BY <1>5, <1>9, <1>11, RankIs DEF Follows, Rings
    <3>2. line # Idle => Follows(e, line.stage)' /\ ~Begins(callId)' /\ Reporting(callId)'
      BY <1>1, <1>5, <1>11, <2>1, <2>2, <3>1 DEF Follows, Begins, Reporting
    <3> QED
      BY <1>1, <1>9, <1>11, <2>2, <3>2 DEF LineIsOurs, Idle, Follows
  <2>7. inv[c] # "free" /\ inv'[c] # "free"
    BY <1>11, <2>1 DEF Rings, StateAt
  <2>8. EveryCallKnown'
    BY <1>1, <1>7, <1>11, <2>1, <2>7 DEF EveryCallKnown
  <2>9. RefusedExist'
    BY <1>1, <1>8, <1>11, <2>1, <2>2, <2>7 DEF RefusedExist, Begins, Reporting
  <2> QED
    BY <2>4, <2>5, <2>6, <2>8, <2>9 DEF PhoneInv
<1>12. CASE AnswersIncoming(cb)
  <2> DEFINE mode == AutoAnswer[cb]
  <2>1. mode \in {180, 200, 486} /\ mode # 180 /\ Top.event = "incoming"
    BY <1>12, CallConstantsOK DEF AnswersIncoming, Mode
  <2>2. AnswerPjsua(c, mode, others)
    BY <1>5, <1>12 DEF Tell, others, f
  <2> HIDE DEF cb, mode, c
  <2>3. /\ UNCHANGED caller
        /\ \/ stack' = others /\ UNCHANGED inv
           \/ Rings(c) /\ Reports(c, "connecting", others)
           \/ Rings(c) /\ Reports(c, "disconnected", others)
    BY <1>0, <1>2, <2>1, <2>2, AnswerIs
  <2> QED
    BY <1>1, <1>10, <1>11, <2>1, <2>3 DEF history
<1>13. CASE ~AnswersIncoming(cb)
  <2>1. stack' = others /\ UNCHANGED <<inv, caller>>
    BY <1>13 DEF Tell, pjsua, others, f
  <2> QED
    BY <1>1, <1>10, <2>1 DEF history
<1> QED
  BY <1>12, <1>13

\* A handler returns: an incoming call begins to ring, a call that is over is given up.
LEMMA DoneStep ==
  ASSUME TypeOK, PhoneInv, Done
  PROVE  PhoneInv' /\ (UNCHANGED history \/ \E c \in Call : PL!Over(c))
<1> DEFINE c == Top.call
           e == Top.event
           rest == Tail(stack)
<1>1. /\ stack # <<>> /\ ~Top.due /\ Return(Top.call, Top.event)
      /\ refused' = IF e = "disconnected" THEN refused \ {c} ELSE refused
      /\ UNCHANGED <<callId, line, told>>
  BY DEF Done
<1>2. /\ c \in Call /\ e \in Event /\ rest \in Seq(Frame) /\ NoCall \notin Call
      /\ e \notin {"connecting", "disconnected"} => rest = <<>>
  BY <1>1, TopOfPhone
<1>3. UNCHANGED caller
      /\ \/ /\ e = "incoming" /\ stack' = rest /\ UNCHANGED inv
         \/ /\ e = "incoming" /\ Rings(c) /\ Reports(c, "early", rest)
         \/ /\ e = "disconnected" /\ stack' = rest /\ inv' = [inv EXCEPT ![c] = "free"]
         \/ /\ e \notin {"incoming", "disconnected"} /\ stack' = rest /\ UNCHANGED inv
  BY <1>1, ReturnIs
<1>4. /\ callId = c /\ Nested
      /\ \/ inv[c] = StateAt(e)
         \/ e = "incoming" /\ inv[c] \in {"connecting", "free"}
  BY <1>1 DEF PhoneInv, Shape
<1>5. \A d \in Call : ~Reporting(d)
  BY <1>1 DEF Reporting
<1>6. \A d \in Call : inv[d] # "free" =>
        d = line.call \/ d \in refused \/ (d = c /\ e = "disconnected")
  BY <1>1, <1>5 DEF PhoneInv, EveryCallKnown, Begins
<1>7. refused \subseteq Call /\ (\A d \in refused : inv[d] # "free")
  BY DEF PhoneInv, RefusedExist, TypeOK
<1>8. line # Idle => /\ line.call = c /\ line.stage \in PL!Stage /\ inv[c] = line.stage
  BY <1>2, <1>4, <1>5 DEF PhoneInv, LineIsOurs
<1>9. \A d \in Call \ caller : IsActive(d) => d = c
  BY <1>4, <1>5 DEF PhoneInv, OneIncoming
<1>10. /\ rest # <<>> => /\ Tail(rest) = <<>> /\ Head(rest).call = c
                         /\ Head(rest).event = "incoming" /\ ~Head(rest).due
                         /\ c \notin caller
  BY <1>4 DEF Nested
<1> HIDE DEF c, e, rest
<1>11. ASSUME stack' = rest PROVE Nested' /\ \A d : ~Reporting(d)'
  BY <1>10, <1>11 DEF Nested, Reporting, Top
<1>12. CASE e \notin {"disconnected"} /\ stack' = rest /\ UNCHANGED inv
  <2>1. Shape'
    BY <1>1, <1>2, <1>3, <1>4, <1>10, <1>11, <1>12 DEF Shape, StateAt, Event, Top
  <2>2. OneIncoming' /\ EveryCallKnown'
    BY <1>1, <1>3, <1>4, <1>6, <1>9, <1>12 DEF OneIncoming, EveryCallKnown, IsActive
  <2>3. LineIsOurs'
    BY <1>1, <1>2, <1>4, <1>8, <1>11, <1>12 DEF LineIsOurs, Begins, Idle
  <2>4. RefusedExist' /\ UNCHANGED history
    BY <1>1, <1>7, <1>11, <1>12 DEF RefusedExist, Begins, history
  <2> QED
    BY <2>1, <2>2, <2>3, <2>4 DEF PhoneInv
<1>13. CASE e = "disconnected" /\ stack' = rest /\ inv' = [inv EXCEPT ![c] = "free"]
  <2>1. inv'[c] = "free" /\ (\A d \in Call \ {c} : inv'[d] = inv[d]) /\ inv[c] = "over"
        /\ refused' = refused \ {c}
    BY <1>1, <1>2, <1>4, <1>13 DEF TypeOK, StateAt
  <2>2. Shape'
    BY <1>1, <1>3, <1>4, <1>10, <1>11, <1>13, <2>1 DEF Shape, Top
  <2>3. OneIncoming' /\ EveryCallKnown'
    BY <1>1, <1>3, <1>6, <1>9, <2>1 DEF OneIncoming, EveryCallKnown, IsActive
  <2>4. line = Idle
    BY <1>8, <2>1, RankIs
  <2>5. LineIsOurs'
    BY <1>1, <2>4 DEF LineIsOurs, Idle
  <2>6. PL!Over(c)
    BY <1>1, <2>1 DEF PL!Over
  <2>7. RefusedExist'
    <3>1. \A d : ~Reporting(d)'
      BY <1>11, <1>13
    <3>2. \A d \in refused' : inv'[d] # "free"
      BY <1>7, <2>1
    <3> QED
      BY <3>1, <3>2 DEF RefusedExist, Begins
  <2> QED
    BY <1>2, <2>2, <2>3, <2>5, <2>6, <2>7 DEF PhoneInv
<1>14. CASE e = "incoming" /\ Rings(c) /\ Reports(c, "early", rest)
  <2>1. /\ stack' # <<>> /\ Head(stack') = Due(c, "early") /\ Tail(stack') = <<>>
        /\ inv'[c] = "early" /\ \A d \in Call \ {c} : inv'[d] = inv[d]
    BY <1>2, <1>14, ReportIs DEF StateAt
  <2>2. Top' = [call |-> c, event |-> "early", due |-> TRUE, left |-> <<>>]
        /\ refused' = refused
    BY <1>1, <1>14, <2>1 DEF Top, Due
  <2>3. Shape'
    BY <2>1, <2>2 DEF Shape, Nested, StateAt
  <2>4. OneIncoming'
    BY <1>1, <1>3, <1>4, <1>9, <1>14, <2>1 DEF OneIncoming, IsActive, Rings
  <2>5. LineIsOurs'
    <3>1. line # Idle => Follows("early", line.stage)' /\ ~Begins(callId)' /\ Reporting(callId)'
      BY <1>1, <1>4, <1>8, <1>14, <2>1, <2>2, RankIs DEF Follows, Rings, Begins, Reporting
    <3> QED
      BY <1>1, <1>2, <1>4, <1>8, <2>2, <3>1 DEF LineIsOurs, Idle, Follows
  <2>6. EveryCallKnown'
    BY <1>1, <1>6, <1>14, <2>1, <2>2 DEF EveryCallKnown, Rings
  <2>7. RefusedExist'
    BY <1>7, <2>1, <2>2 DEF RefusedExist, Begins, Reporting
  <2> QED
    BY <1>1, <2>2, <2>3, <2>4, <2>5, <2>6, <2>7 DEF PhoneInv, history
<1> QED
  BY <1>3, <1>12, <1>13, <1>14

\* At first no call is known, and the line is idle.
LEMMA PhoneInit == Init => PhoneInv /\ PL!Init
<1> SUFFICES ASSUME Init PROVE PhoneInv /\ PL!Init
  OBVIOUS
<1>1. /\ inv = [c \in Call |-> "free"] /\ stack = <<>> /\ refused = {}
      /\ line = Idle /\ told = Idle
  BY DEF Init
<1> QED
  BY <1>1 DEF PhoneInv, Shape, OneIncoming, LineIsOurs, EveryCallKnown, RefusedExist,
              IsActive, PL!Init, PL!Idle, Idle

\* Every step keeps where each call is known, and is one of PhoneLine or a stutter.
LEMMA PhoneStep ==
  ASSUME Typed, PhoneInv, [Next]_vars
  PROVE  PhoneInv' /\ [PL!Next]_<<line, told, refused>>
<1>0. TypeOK
  BY TypeParts DEF Typed
<1>1. CASE Handler
  <2>1. CASE RejectSecond
    BY <1>0, <2>1, RejectSecondStep DEF PL!Next
  <2>2. CASE Announce
    BY <1>0, <2>2, AnnounceStep
  <2>3. CASE Tell
    BY <2>3, TellStep DEF history
  <2>4. CASE Done
    BY <1>0, <2>4, DoneStep DEF PL!Next, history
  <2> QED
    BY <1>1, <2>1, <2>2, <2>3, <2>4 DEF Handler
<1>2. CASE Application \/ \E c \in Call : IncomingCall(c) \/ OnCallState(c)
  BY <1>0, <1>2, OutsideIs, OutsideKeepsPhone
<1>3. CASE UNCHANGED vars
  <2>1. UNCHANGED <<inv, caller, stack, callId, line, told, refused>>
    BY <1>3 DEF vars, pjsua, manager, history
  <2> QED
    BY <2>1 DEF PhoneInv, Shape, Nested, OneIncoming, LineIsOurs, EveryCallKnown,
                RefusedExist, Begins, Reporting, Top, IsActive, Idle
<1> QED
  BY <1>1, <1>2, <1>3 DEF Next

\* Where each call is known holds of every state.
THEOREM SpecPhoneInv == Spec => []PhoneInv
<1>1. Init => Typed /\ PhoneInv
  BY TypedInit, PhoneInit
<1>2. Typed /\ PhoneInv /\ [Next]_vars => Typed' /\ PhoneInv'
  BY TypedStep, PhoneStep
<1> QED
  BY <1>1, <1>2, PTL DEF Spec

\* The call manager implements PhoneLine, whatever the callbacks answer: it tells
\* of one call at a time, in the order of its stages and to its end.
THEOREM SpecImplementsPhoneLine == Spec => ImplementsPhoneLine
<1>1. Init => PL!Init
  BY PhoneInit
<1>2. Typed /\ PhoneInv /\ [Next]_vars => [PL!Next]_<<line, told, refused>>
  BY PhoneStep
<1>3. Spec => []Typed
  BY SpecTyped
<1>4. Spec => []PhoneInv
  BY SpecPhoneInv
<1> QED
  BY <1>1, <1>2, <1>3, <1>4, PTL DEF Spec, ImplementsPhoneLine, PL!Spec

-----------------------------------------------------------------------------
(***************************************************************************)
(* The call timer, when the callbacks only accept an incoming call, as     *)
(* MpCall does (MpCall.cpp:23).  A callback that rejects it leaves the     *)
(* timer running after the call: its handler starts the timer last.        *)
(***************************************************************************)
Accepts == \A cb \in DOMAIN AutoAnswer : AutoAnswer[cb] = 200

SettingUp(c) == c # NoCall /\ inv[c] \in {"calling", "connecting"}

\* Where the timer may run.
TimerOK ==
  timer =>
    IF stack = <<>> THEN SettingUp(callId)
    ELSE IF Top.due
    THEN /\ Top.call # callId => SettingUp(callId)
         /\ Top.event = "incoming" => Top.call # callId
    ELSE Top.event \in {"calling", "connecting", "incoming"}

\* An incoming call does not end while its handler runs.
Accepted ==
  stack # <<>> =>
    /\ ~Top.due /\ Top.event = "incoming" => inv[Top.call] # "free"
    /\ Tail(stack) # <<>> => Top.event = "connecting" /\ inv[Top.call] = "connecting"

TimerInv == TimerOK /\ Accepted

\* A report goes to a handler before the timer matters again.
LEMMA OutsideKeepsTimer ==
  ASSUME TypeOK, PhoneInv, TimerInv, Outside, UNCHANGED callId, timer' \in {timer, FALSE}
  PROVE  TimerInv'
<1>1. CASE UNCHANGED <<inv, caller, stack>>
  <2>1. timer' => timer
    OBVIOUS
  <2>2. UNCHANGED <<inv, stack, callId>>
    BY <1>1
  <2>3. TimerOK'
    BY <2>1, <2>2 DEF TimerInv, TimerOK, SettingUp, Top
  <2>4. Accepted'
    BY <2>2 DEF TimerInv, Accepted, Top
  <2> QED
    BY <2>3, <2>4 DEF TimerInv
<1>2. ASSUME NEW c \in Call, NEW event \in Event, stack = <<>>, Reports(c, event, <<>>),
             GoesOn(c, event) \/ Starts(c, event)
      PROVE  TimerInv'
  <2>1. /\ stack' # <<>> /\ Head(stack') = Due(c, event) /\ Tail(stack') = <<>>
        /\ \A d \in Call \ {c} : inv'[d] = inv[d]
    BY <1>2, ReportIs, EmptySeq
  <2>2. Top' = [call |-> c, event |-> event, due |-> TRUE, left |-> <<>>]
    BY <2>1 DEF Top, Due
  <2>3. timer => callId \in Call /\ SettingUp(callId)
    BY <1>2 DEF TimerInv, TimerOK, TypeOK, SettingUp
  <2>4. event = "incoming" => inv[c] = "free"
    BY <1>2 DEF GoesOn, Starts
  <2>5. TimerOK'
    BY <2>1, <2>2, <2>3, <2>4 DEF TimerOK, SettingUp
  <2> QED
    BY <2>1, <2>2, <2>5 DEF TimerInv, Accepted
<1> QED
  BY <1>1, <1>2 DEF Outside

\* A second call leaves the first one, and its timer, alone.
LEMMA RejectSecondKeepsTimer ==
  ASSUME TypeOK, PhoneInv, TimerInv, RejectSecond
  PROVE  TimerInv'
<1> DEFINE c == Top.call
           rest == Tail(stack)
<1>1. /\ stack # <<>> /\ Top.due /\ callId # c /\ UNCHANGED <<callId, timer>>
      /\ IsActive(callId)
  BY DEF RejectSecond, LineBusy, manager
<1>2. c \in Call /\ Top.event \in Event /\ rest = <<>> /\ rest \in Seq(Frame)
      /\ callId \in Call
  BY <1>1, TopOfPhone DEF TypeOK, IsActive
<1>3. timer => SettingUp(callId)
  BY <1>1 DEF TimerInv, TimerOK
<1>4. ASSUME stack' = <<>>, inv'[callId] = inv[callId] PROVE TimerInv'
  BY <1>1, <1>3, <1>4 DEF TimerInv, TimerOK, Accepted, SettingUp
<1>5. CASE inv[c] = "over"
  <2>1. Top.event = "disconnected"
    BY <1>1, <1>2, <1>5 DEF PhoneInv, Shape, StateAt, Event
  <2>2. stack' = <<>> /\ inv' = [inv EXCEPT ![c] = "free"]
    BY <1>2, <1>5, <2>1 DEF RejectSecond, Return
  <2> QED
    BY <1>1, <1>2, <1>4, <2>2 DEF TypeOK
<1>6. CASE inv[c] # "over"
  <2>1. HangUp(c, rest)
    BY <1>6 DEF RejectSecond
  <2>2. (stack' = <<>> /\ UNCHANGED inv) \/ Reports(c, "disconnected", <<>>)
    <3> HIDE DEF c, rest
    <3> QED
      BY <1>2, <2>1, HangUpIs
  <2>3. CASE Reports(c, "disconnected", <<>>)
    <3> HIDE DEF c
    <3>1. /\ stack' # <<>> /\ Head(stack') = Due(c, "disconnected") /\ Tail(stack') = <<>>
          /\ \A d \in Call \ {c} : inv'[d] = inv[d]
      BY <1>2, <2>3, ReportIs
    <3>2. Top' = [call |-> c, event |-> "disconnected", due |-> TRUE, left |-> <<>>]
      BY <3>1 DEF Top, Due
    <3>3. TimerOK'
      BY <1>1, <1>2, <1>3, <3>1, <3>2 DEF TimerOK, SettingUp
    <3> QED
      BY <3>1, <3>2, <3>3 DEF TimerInv, Accepted
  <2> QED
    BY <1>4, <2>2, <2>3
<1> QED
  BY <1>5, <1>6

\* A handler sets the timer for its event.
LEMMA AnnounceKeepsTimer ==
  ASSUME TypeOK, PhoneInv, TimerInv, Announce
  PROVE  TimerInv'
<1> DEFINE c == Top.call
           e == Top.event
           rest == Tail(stack)
           f == [Top EXCEPT !.due = FALSE, !.left = pool]
<1>1. /\ stack # <<>> /\ Top.due /\ stack' = <<f>> \o rest /\ UNCHANGED inv
      /\ timer' = TimerFor(e)
  BY DEF Announce, pjsua
<1>2. c \in Call /\ e \in Event /\ rest \in Seq(Frame)
  BY <1>1, TopOfPhone
<1>3. f \in Frame /\ f.call = c /\ f.event = e /\ ~f.due
  BY <1>1, TopTyped DEF Frame, TypeOK
<1>4. stack' # <<>> /\ Top' = f /\ Tail(stack') = rest
  <2> HIDE DEF f, rest
  <2> QED
    BY <1>1, <1>2, <1>3, PushIs DEF Top
<1>5. inv[c] = StateAt(e) /\ (rest # <<>> => e = "connecting" /\ inv[c] = "connecting")
  BY <1>1 DEF PhoneInv, Shape, TimerInv, Accepted
<1> HIDE DEF f, rest, c, e
<1>6. TimerOK'
  BY <1>1, <1>2, <1>3, <1>4 DEF TimerOK, TimerFor, Event
<1>7. Accepted'
  BY <1>1, <1>3, <1>4, <1>5 DEF Accepted, StateAt
<1> QED
  BY <1>6, <1>7 DEF TimerInv

\* A callback that accepts a call from within leaves it connecting.
LEMMA TellKeepsTimer ==
  ASSUME Accepts, Typed, PhoneInv, TimerInv, Tell
  PROVE  TimerInv'
<1> DEFINE c == Top.call
           cb == Head(Top.left)
           rest == Tail(stack)
           f == [Top EXCEPT !.left = Tail(@)]
           others == <<f>> \o rest
<1>0. TypeOK
  BY TypeParts DEF Typed
<1>1. stack # <<>> /\ ~Top.due /\ Top.left # <<>> /\ UNCHANGED <<callId, timer>>
  BY DEF Tell
<1>2. /\ c \in Call /\ Top.event \in Event /\ rest \in Seq(Frame)
      /\ Top.event = "incoming" => rest = <<>>
  BY <1>0, <1>1, TopOfPhone
<1>3. /\ f \in Frame /\ f.call = c /\ f.event = Top.event /\ ~f.due
  <2>1. Tail(Top.left) \in Seq(Callback)
    BY <1>0, <1>1, TopTyped, HeadTailProperties
  <2> QED
    BY <1>0, <1>1, <2>1, TopTyped DEF Frame
<1>4. others \in Seq(Frame) /\ others # <<>> /\ Head(others) = f /\ Tail(others) = rest
  <2> HIDE DEF f, rest
  <2> QED
    BY <1>2, <1>3, PushIs
<1>5. callId = c
  BY <1>1 DEF PhoneInv, Shape
<1> HIDE DEF f, others
<1>6. ASSUME stack' = others, UNCHANGED inv PROVE TimerInv'
  <2>1. stack' # <<>> /\ Top' = f /\ Tail(stack') = rest
    BY <1>4, <1>6 DEF Top
  <2> QED
    BY <1>1, <1>3, <1>6, <2>1 DEF TimerInv, TimerOK, Accepted
<1>7. CASE AnswersIncoming(cb)
  <2> DEFINE mode == AutoAnswer[cb]
  <2>1. mode = 200 /\ mode \in {180, 200, 486} /\ mode # 180 /\ mode # 486
    BY <1>7 DEF AnswersIncoming, Accepts
  <2>2. AnswerPjsua(c, mode, others)
    BY <1>5, <1>7 DEF Tell, others, f
  <2> HIDE DEF cb, mode, c
  <2>3. (stack' = others /\ UNCHANGED inv) \/ Reports(c, "connecting", others)
    BY <1>0, <1>2, <2>1, <2>2, AnswerIs
  <2>4. CASE Reports(c, "connecting", others)
    <3>1. /\ stack' # <<>> /\ Head(stack') = Due(c, "connecting") /\ inv'[c] = "connecting"
      BY <1>0, <1>4, <2>4, ReportIs DEF StateAt
    <3>2. Top' = [call |-> c, event |-> "connecting", due |-> TRUE, left |-> <<>>]
      BY <3>1 DEF Top, Due
    <3> QED
      BY <1>1, <1>5, <3>1, <3>2 DEF TimerInv, TimerOK, Accepted
  <2> QED
    BY <1>6, <2>3, <2>4
<1>8. CASE ~AnswersIncoming(cb)
  <2>1. stack' = others /\ UNCHANGED inv
    BY <1>8 DEF Tell, pjsua, others, f
  <2> QED
    BY <1>6, <2>1
<1> QED
  BY <1>7, <1>8

\* The timer that onIncomingCall starts last finds its call connecting, or ringing next.
LEMMA DoneKeepsTimer ==
  ASSUME TypeOK, PhoneInv, TimerInv, Done
  PROVE  TimerInv'
<1> DEFINE c == Top.call
           e == Top.event
           rest == Tail(stack)
<1>1. /\ stack # <<>> /\ ~Top.due /\ Return(Top.call, Top.event)
      /\ timer' = (timer \/ e = "incoming") /\ UNCHANGED callId
  BY DEF Done
<1>2. /\ c \in Call /\ e \in Event /\ rest \in Seq(Frame) /\ c # NoCall
      /\ e \notin {"connecting", "disconnected"} => rest = <<>>
  BY <1>1, TopOfPhone
<1>3. \/ /\ e = "incoming" /\ ~Rings(c) /\ stack' = rest /\ UNCHANGED inv
      \/ /\ e = "incoming" /\ Reports(c, "early", rest)
      \/ /\ e = "disconnected" /\ stack' = rest
      \/ /\ e \notin {"incoming", "disconnected"} /\ stack' = rest /\ UNCHANGED inv
  BY <1>1, ReturnIs
<1>4. /\ callId = c /\ Nested /\ (e = "incoming" => c \notin caller)
      /\ \/ inv[c] = StateAt(e)
         \/ e = "incoming" /\ inv[c] \in {"connecting", "free"}
  BY <1>1 DEF PhoneInv, Shape
<1>5. /\ timer => e \in {"calling", "connecting", "incoming"}
      /\ e = "incoming" => inv[c] # "free"
      /\ rest # <<>> => e = "connecting" /\ inv[c] = "connecting"
  BY <1>1 DEF TimerInv, TimerOK, Accepted
<1>6. /\ rest # <<>> => /\ Tail(rest) = <<>> /\ Head(rest).call = c
                         /\ Head(rest).event = "incoming" /\ ~Head(rest).due
  BY <1>4 DEF Nested
<1> HIDE DEF c, e, rest
<1>7. CASE e = "incoming" /\ ~Rings(c) /\ stack' = rest /\ UNCHANGED inv
  <2>1. inv[c] = "connecting" /\ rest = <<>>
    BY <1>2, <1>4, <1>5, <1>7 DEF Rings, StateAt
  <2> QED
    BY <1>1, <1>2, <1>4, <1>7, <2>1 DEF TimerInv, TimerOK, Accepted, SettingUp
<1>8. CASE e = "incoming" /\ Reports(c, "early", rest)
  <2>1. stack' # <<>> /\ Head(stack') = Due(c, "early") /\ Tail(stack') = <<>>
    BY <1>2, <1>8, ReportIs
  <2>2. Top' = [call |-> c, event |-> "early", due |-> TRUE, left |-> <<>>]
    BY <2>1 DEF Top, Due
  <2> QED
    BY <1>1, <1>4, <2>1, <2>2 DEF TimerInv, TimerOK, Accepted
<1>9. CASE e = "disconnected" /\ stack' = rest
  <2>1. ~timer' /\ rest = <<>>
    BY <1>1, <1>5, <1>9
  <2> QED
    BY <1>9, <2>1 DEF TimerInv, TimerOK, Accepted
<1>10. CASE e \notin {"incoming", "disconnected"} /\ stack' = rest /\ UNCHANGED inv
  <2>1. timer' => inv[c] \in {"calling", "connecting"}
    BY <1>1, <1>4, <1>5, <1>10 DEF StateAt
  <2>2. CASE rest = <<>>
    BY <1>1, <1>2, <1>4, <1>10, <2>1, <2>2 DEF TimerInv, TimerOK, Accepted, SettingUp
  <2>3. CASE rest # <<>>
    BY <1>5, <1>6, <1>10, <2>3 DEF TimerInv, TimerOK, Accepted, Top
  <2> QED
    BY <2>2, <2>3
<1> QED
  BY <1>3, <1>7, <1>8, <1>9, <1>10

\* Every step keeps the timer to calls that are being set up.
LEMMA TimerStep ==
  ASSUME Accepts, Typed, PhoneInv, TimerInv, [Next]_vars
  PROVE  TimerInv'
<1>0. TypeOK
  BY TypeParts DEF Typed
<1>1. CASE Handler
  BY <1>0, <1>1, RejectSecondKeepsTimer, AnnounceKeepsTimer, TellKeepsTimer, DoneKeepsTimer
     DEF Handler
<1>2. CASE Application \/ \E c \in Call : IncomingCall(c) \/ OnCallState(c)
  BY <1>0, <1>2, OutsideIs, OutsideKeepsTimer
<1>3. CASE UNCHANGED vars
  BY <1>3 DEF vars, pjsua, manager, TimerInv, TimerOK, Accepted, SettingUp, Top
<1> QED
  BY <1>1, <1>2, <1>3 DEF Next

\* Between two handlers the call timer runs only while the manager's call is
\* being set up, if the callbacks only accept incoming calls.
THEOREM SpecTimerWhileSettingUp ==
  ASSUME Accepts
  PROVE  Spec => []TimerWhileSettingUp
<1>1. Init => TimerInv
  BY DEF Init, TimerInv, TimerOK, Accepted
<1>2. Typed /\ PhoneInv /\ TimerInv /\ [Next]_vars => TimerInv'
  BY TimerStep
<1>3. TimerInv => TimerWhileSettingUp
  BY DEF TimerInv, TimerOK, SettingUp, TimerWhileSettingUp
<1>4. Spec => []Typed
  BY SpecTyped
<1>5. Spec => []PhoneInv
  BY SpecPhoneInv
<1> QED
  BY <1>1, <1>2, <1>3, <1>4, <1>5, PTL DEF Spec
=============================================================================
