------------------------------ MODULE Account ------------------------------
(***************************************************************************)
(* Login and logout (src/user_account/src/MpUserAccount.cpp), the SIP      *)
(* stack they start and stop (src/sip_stack/src/MpSIPStack.cpp) and the    *)
(* buddy list that subscribes through it (src/buddy/src/MpBuddyList.cpp).  *)
(*                                                                         *)
(* Application threads call these methods while pjsip's worker thread      *)
(* "sip" reports registrations and presence and delivers messages.  As in  *)
(* AutoResend, a step is a critical section: it ends where the thread has  *)
(* to wait for its next lock (or for the worker to end), and "held" keeps  *)
(* the locks it does not give up in between.  A thread's locals go back to *)
(* their first value when it is done with them.                            *)
(***************************************************************************)
EXTENDS Integers, FiniteSets

CONSTANTS
  App,      \* application threads
  Admin,    \* those of them that call login and logout
  Buddy,    \* serials of the buddies
  NoBuddy,  \* what an unused subscription of pjsua is for
  MaxId,    \* pjsua's PJSUA_MAX_BUDDIES
  Bound     \* bound: how often each operation of Budget happens

Thread == App \cup {"sip"}
Id == 1 .. MaxId
Budget == {"login", "logout", "buddy", "callback", "report", "fail", "destroy"}

ASSUME ThreadsDiffer == "sip" \notin App /\ Admin \subseteq App
ASSUME NoBuddyIsNone == NoBuddy \notin Buddy
ASSUME AccountConstantsOK == MaxId \in Nat /\ Bound \in [Budget -> Nat]

\* The locks of MpSIPStack, MpBuddyList and MpUserAccount, and the readers'
\* side of the pool of registration callbacks.
Lock == {"sip", "list", "account", "reg"}

\* Where a thread is: the section it enters next.
Label == {"idle", "start", "settings", "stop", "reset", "destroy", "status",
          "notify", "subscribe", "unsubscribe", "rmReg", "find", "query"}

OnlineState == {"ONLINE", "OFFLINE"}

VARIABLES
  pjsua,      \* the library: "none", "created", or "running"
  registered, \* an account was added to it
  subs,       \* its subscriptions: id -> the buddy it is for
  abandoned,  \* history: pjsua was created over an instance that was there
  started,    \* MpSIPStack::started_
  settings,   \* accSettings_ holds the account's settings
  list,       \* buddyList_: serial -> pjsuaId_, 0 for none
  reqStatus,  \* reqStatus_
  cb,         \* a registration callback is in regCb_
  notified,   \* the last status it was told, "none" at first
  pc, held,   \* thread -> where it is, the locks it has
  serial,     \* thread -> serial it works on
  presence,   \* the pjsua id the worker reports presence for
  success,    \* thread -> the status it passes to registration_state
  userStatus, \* thread -> what it made of it
  used        \* operation -> how much of its bound is used

library == <<pjsua, registered, subs, abandoned>>
account == <<settings, reqStatus, cb, notified>>
locals == <<serial, presence, success, userStatus>>
vars == <<library, started, list, account, pc, held, locals, used>>

Init ==
  /\ pjsua = "none" /\ registered = FALSE /\ subs = [i \in Id |-> NoBuddy]
  /\ abandoned = FALSE /\ started = FALSE /\ settings = FALSE
  /\ list = [b \in Buddy |-> 0]
  /\ reqStatus = "OFFLINE" /\ cb = FALSE /\ notified = "none"
  /\ pc = [t \in Thread |-> "idle"] /\ held = [t \in Thread |-> {}]
  /\ serial = [t \in Thread |-> NoBuddy] /\ presence = 0
  /\ success = [t \in Thread |-> FALSE]
  /\ userStatus = [t \in Thread |-> "OFFLINE"]
  /\ used = [b \in Budget |-> 0]

-----------------------------------------------------------------------------
Free(t, lock) == \A x \in Thread \ {t} : lock \notin held[x]

\* t goes on at label, with the locks it takes and without those it gives up.
Leave(t, label, taken, given) ==
  /\ pc' = [pc EXCEPT ![t] = label]
  /\ held' = [held EXCEPT ![t] = (@ \cup taken) \ given]

Spend(b) == used[b] < Bound[b] /\ used' = [used EXCEPT ![b] = @ + 1]

(***************************************************************************)
(* login: startSIPStack under its lock, then the settings without one.     *)
(***************************************************************************)
Login(t) ==
  /\ pc[t] = "idle" /\ t \in Admin
  /\ Spend("login")
  /\ reqStatus' = "ONLINE"
  /\ Leave(t, "start", {}, {})
  /\ UNCHANGED <<library, started, list, settings, cb, notified, locals>>

StartedAlready(t) ==
  /\ pc[t] = "start" /\ Free(t, "sip") /\ started
  /\ Leave(t, "settings", {}, {})
  /\ UNCHANGED <<library, started, list, account, locals, used>>

\* The call of stopSIPStack at line 178 returns at once, because started_ is
\* FALSE; then pjsua_create runs, whatever there is already.
StartSIPStack(t) ==
  /\ pc[t] = "start" /\ Free(t, "sip") /\ ~started
  /\ abandoned' = (abandoned \/ pjsua # "none")
  /\ pjsua' = "running" /\ registered' = TRUE /\ started' = TRUE
  /\ Leave(t, "settings", {}, {})
  /\ UNCHANGED <<subs, list, account, locals, used>>

\* What is left when a call of startSIPStack fails: only pjsua_start destroys
\* the library.
LeftOver == [pjsua : {"created", "none", "running"}, registered : {FALSE}]
            \cup [pjsua : {"running"}, registered : {TRUE}]

StartFails(t) ==
  /\ pc[t] = "start" /\ Free(t, "sip") /\ ~started
  /\ Spend("fail")
  /\ abandoned' = (abandoned \/ pjsua # "none")
  /\ \E left \in LeftOver : pjsua' = left.pjsua /\ registered' = left.registered
  /\ Leave(t, "idle", {}, {})
  /\ UNCHANGED <<subs, started, list, account, locals>>

LoggedIn(t) ==
  /\ pc[t] = "settings"
  /\ settings' = TRUE
  /\ Leave(t, "idle", {}, {})
  /\ UNCHANGED <<library, started, list, reqStatus, cb, notified, locals, used>>

-----------------------------------------------------------------------------
(***************************************************************************)
(* logout: stopSIPStack, then registration_state with its result.          *)
(***************************************************************************)
\* Mutant of Logout: reqStatus_ keeps what login requested.
LogoutKeepsStatus(t) ==
  /\ pc[t] = "idle" /\ t \in Admin
  /\ Spend("logout")
  /\ Leave(t, "stop", {}, {})
  /\ UNCHANGED <<library, started, list, account, locals>>

Logout(t) ==
  /\ pc[t] = "idle" /\ t \in Admin
  /\ Spend("logout")
  /\ reqStatus' = "OFFLINE"
  /\ Leave(t, "stop", {}, {})
  /\ UNCHANGED <<library, started, list, settings, cb, notified, locals>>

StopSIPStack(t) ==
  /\ pc[t] = "stop" /\ Free(t, "sip")
  /\ IF started THEN Leave(t, "reset", {"sip"}, {}) /\ UNCHANGED success
     ELSE Leave(t, "status", {}, {}) /\ success' = [success EXCEPT ![t] = TRUE]
  /\ UNCHANGED <<library, started, list, account, serial, presence, userStatus,
                 used>>

\* Mutant of Reset: the buddies stay in the list.
ResetForgotten(t) ==
  /\ pc[t] = "reset" /\ Free(t, "list")
  /\ Leave(t, "destroy", {}, {})
  /\ UNCHANGED <<library, started, list, account, locals, used>>

\* MpBuddyList::reset, called by stopSIPStack.
Reset(t) ==
  /\ pc[t] = "reset" /\ Free(t, "list")
  /\ list' = [b \in Buddy |-> 0]
  /\ Leave(t, "destroy", {}, {})
  /\ UNCHANGED <<library, started, account, locals, used>>

\* pjsua_destroy2 ends the worker thread: it waits until its callback is over.
Destroy(t) ==
  /\ pc[t] = "destroy" /\ pc["sip"] = "idle"
  /\ \/ /\ pjsua' = "none" /\ registered' = FALSE /\ started' = FALSE
        /\ subs' = [i \in Id |-> NoBuddy]
        /\ success' = [success EXCEPT ![t] = TRUE]
        /\ UNCHANGED <<abandoned, used>>
     \/ /\ Spend("destroy")
        /\ success' = [success EXCEPT ![t] = FALSE]
        /\ UNCHANGED <<library, started>>
  /\ Leave(t, "status", {}, {"sip"})
  /\ UNCHANGED <<list, account, serial, presence, userStatus>>

(***************************************************************************)
(* registration_state, called by logout and by the worker: it reads        *)
(* reqStatus_ and calls the callback, as a reader of the pool.             *)
(***************************************************************************)
OnRegState(ok) ==
  /\ pc["sip"] = "idle" /\ pjsua = "running" /\ registered
  /\ Spend("report")
  /\ success' = [success EXCEPT !["sip"] = ok]
  /\ Leave("sip", "status", {}, {})
  /\ UNCHANGED <<library, started, list, account, serial, presence, userStatus>>

\* Mutant of RegistrationState: it hands on the error it was given.
RegistrationStateUnmapped(t) ==
  /\ pc[t] = "status"
  /\ userStatus' = [userStatus EXCEPT
                      ![t] = IF success[t] THEN reqStatus ELSE "STATUS_ERR"]
  /\ success' = [success EXCEPT ![t] = FALSE]
  /\ Leave(t, "notify", {"reg"}, {})
  /\ UNCHANGED <<library, started, list, account, serial, presence, used>>

RegistrationState(t) ==
  /\ pc[t] = "status"
  /\ userStatus' = [userStatus EXCEPT
                      ![t] = IF success[t] THEN reqStatus ELSE "OFFLINE"]
  /\ success' = [success EXCEPT ![t] = FALSE]
  /\ Leave(t, "notify", {"reg"}, {})
  /\ UNCHANGED <<library, started, list, account, serial, presence, used>>

NotifyCallback(t) ==
  /\ pc[t] = "notify"
  /\ notified' = IF cb THEN userStatus[t] ELSE notified
  /\ userStatus' = [userStatus EXCEPT ![t] = "OFFLINE"]
  /\ Leave(t, "idle", {}, {"reg"})
  /\ UNCHANGED <<library, started, list, settings, reqStatus, cb, serial, presence,
                 success, used>>

\* A callback that is added was told nothing yet.
AddRegCallback(t) ==
  /\ pc[t] = "idle" /\ Free(t, "reg") /\ ~cb
  /\ Spend("callback")
  /\ cb' = TRUE /\ notified' = "none"
  /\ UNCHANGED <<library, started, list, settings, reqStatus, pc, held, locals>>

\* rmRegCallback takes lock_ and returns with it.
RmRegCallback(t) ==
  /\ pc[t] = "idle" /\ Free(t, "account")
  /\ Spend("callback")
  /\ Leave(t, "rmReg", {"account"}, {})
  /\ UNCHANGED <<library, started, list, account, locals>>

RmPoolData(t) ==
  /\ pc[t] = "rmReg" /\ Free(t, "reg")
  /\ cb' = FALSE
  /\ Leave(t, "idle", {}, {})
  /\ UNCHANGED <<library, started, list, settings, reqStatus, notified, locals, used>>

-----------------------------------------------------------------------------
(***************************************************************************)
(* The buddy list: its lock is kept while the SIP stack subscribes.  A     *)
(* duplicate and an unknown serial are refused without a change.           *)
(***************************************************************************)
AddBuddy(t, b) ==
  /\ pc[t] = "idle" /\ Free(t, "list") /\ list[b] = 0
  /\ Spend("buddy")
  /\ serial' = [serial EXCEPT ![t] = b]
  /\ Leave(t, "subscribe", {"list"}, {})
  /\ UNCHANGED <<library, started, list, account, presence, success, userStatus>>

\* Subscribing or unsubscribing fails: the list stays as it is.
Refused == (~started /\ UNCHANGED used) \/ (started /\ Spend("fail"))

Subscribe(t) ==
  /\ pc[t] = "subscribe" /\ Free(t, "sip")
  /\ \/ Refused /\ UNCHANGED <<subs, list>>
     \/ \E i \in Id :
          /\ started /\ subs[i] = NoBuddy /\ \A j \in Id : j < i => subs[j] # NoBuddy
          /\ subs' = [subs EXCEPT ![i] = serial[t]]
          /\ list' = [list EXCEPT ![serial[t]] = i]
          /\ UNCHANGED used
  /\ Leave(t, "idle", {}, {"list"})
  /\ serial' = [serial EXCEPT ![t] = NoBuddy]
  /\ UNCHANGED <<pjsua, registered, abandoned, started, account, presence, success,
                 userStatus>>

RmBuddy(t, b) ==
  /\ pc[t] = "idle" /\ Free(t, "list") /\ list[b] # 0
  /\ Spend("buddy")
  /\ serial' = [serial EXCEPT ![t] = b]
  /\ Leave(t, "unsubscribe", {"list"}, {})
  /\ UNCHANGED <<library, started, list, account, presence, success, userStatus>>

Unsubscribe(t) ==
  /\ pc[t] = "unsubscribe" /\ Free(t, "sip")
  /\ \/ Refused /\ UNCHANGED <<subs, list>>
     \/ /\ started
        /\ subs' = [subs EXCEPT ![list[serial[t]]] = NoBuddy]
        /\ list' = [list EXCEPT ![serial[t]] = 0]
        /\ UNCHANGED used
  /\ Leave(t, "idle", {}, {"list"})
  /\ serial' = [serial EXCEPT ![t] = NoBuddy]
  /\ UNCHANGED <<pjsua, registered, abandoned, started, account,
                 presence, success, userStatus>>

(***************************************************************************)
(* The worker's other callbacks.                                           *)
(***************************************************************************)
OnBuddyState(i) ==
  /\ pc["sip"] = "idle" /\ pjsua = "running" /\ subs[i] # NoBuddy
  /\ Spend("report")
  /\ presence' = i
  /\ Leave("sip", "find", {}, {})
  /\ UNCHANGED <<library, started, list, account, serial, success, userStatus>>

\* buddy_state: the callbacks run under the lock of the list.  One that starts
\* the resend engine (buddy_state2 for a buddy online) asks for the SIP stack.
BuddyState ==
  /\ pc["sip"] = "find" /\ Free("sip", "list")
  /\ \/ (\E b \in Buddy : list[b] = presence) /\ Leave("sip", "query", {"list"}, {})
     \/ Leave("sip", "idle", {}, {})
  /\ presence' = 0
  /\ UNCHANGED <<library, started, list, account, serial, success, userStatus, used>>

\* A message whose handler sends another one starts the resend engine.
OnPager ==
  /\ pc["sip"] = "idle" /\ pjsua = "running"
  /\ Spend("report")
  /\ Leave("sip", "query", {}, {})
  /\ UNCHANGED <<library, started, list, account, locals>>

IsSipStackStarted ==
  /\ pc["sip"] = "query" /\ Free("sip", "sip")
  /\ Leave("sip", "idle", {}, {"list"})
  /\ UNCHANGED <<library, started, list, account, locals, used>>

-----------------------------------------------------------------------------
Run(t) ==
  \/ StartedAlready(t) \/ StartSIPStack(t) \/ StartFails(t) \/ LoggedIn(t)
  \/ StopSIPStack(t) \/ Reset(t) \/ Destroy(t)
  \/ RegistrationState(t) \/ NotifyCallback(t) \/ RmPoolData(t)
  \/ Subscribe(t) \/ Unsubscribe(t)

Call(t) ==
  \/ Login(t) \/ Logout(t) \/ AddRegCallback(t) \/ RmRegCallback(t)
  \/ \E b \in Buddy : AddBuddy(t, b) \/ RmBuddy(t, b)

Worker ==
  \/ BuddyState \/ IsSipStackStarted \/ OnPager
  \/ \E ok \in BOOLEAN : OnRegState(ok)
  \/ \E i \in Id : OnBuddyState(i)

Next == Worker \/ (\E t \in Thread : Run(t)) \/ (\E t \in App : Call(t))

Spec == Init /\ [][Next]_vars

-----------------------------------------------------------------------------
(***************************************************************************)
(* Properties.                                                             *)
(***************************************************************************)
\* Every variable has its type.
TypeOK ==
  /\ pjsua \in {"none", "created", "running"} /\ registered \in BOOLEAN
  /\ subs \in [Id -> Buddy \cup {NoBuddy}]
  /\ abandoned \in BOOLEAN /\ started \in BOOLEAN /\ settings \in BOOLEAN
  /\ list \in [Buddy -> Id \cup {0}]
  /\ reqStatus \in OnlineState /\ cb \in BOOLEAN
  /\ notified \in OnlineState \cup {"none"}
  /\ pc \in [Thread -> Label] /\ held \in [Thread -> SUBSET Lock]
  /\ serial \in [Thread -> Buddy \cup {NoBuddy}] /\ presence \in Id \cup {0}
  /\ success \in [Thread -> BOOLEAN] /\ userStatus \in [Thread -> OnlineState]
  /\ used \in [Budget -> Nat]

\* The buddy list knows a buddy exactly when pjsua subscribed to it, under the
\* same id, however adding, removing, stopping and starting interleave; only
\* while a stop is under way, or after one that failed, pjsua may know more.
ListAgrees ==
  /\ \A b \in Buddy : list[b] # 0 => started /\ subs[list[b]] = b
  /\ \/ used["destroy"] > 0
     \/ \E t \in App : pc[t] = "destroy"
     \/ \A i \in Id : subs[i] # NoBuddy => list[subs[i]] = i

\* Once the application has stopped the stack, the last status a callback was
\* told is not ONLINE: no report of the worker overtakes the one of logout.
LogoutReported ==
  pjsua = "none" /\ ~abandoned /\ cb /\ (\A t \in Thread : pc[t] = "idle") =>
    notified # "ONLINE"

\* The threads t waits for: those that hold its lock, or the worker to end.
Waits(t) ==
  LET lock == CASE pc[t] \in {"start", "stop", "subscribe", "unsubscribe", "query"}
                       -> "sip"
                [] pc[t] \in {"reset", "find"} -> "list"
                [] pc[t] = "rmReg" -> "reg"
                [] OTHER -> "nothing"
  IN  {x \in Thread \ {t} : lock \in held[x]}
      \cup IF pc[t] = "destroy" /\ pc["sip"] # "idle" THEN {"sip"} ELSE {}

-----------------------------------------------------------------------------
(***************************************************************************)
(* What the documentation says and the code does not do.                   *)
(***************************************************************************)
\* MpBuddyList.h:60, addBuddy is "[THREAD SAFE]", and MpSIPStack.h:209,
\* stopSIPStack is "(THREAD SAFE)": no threads wait for each other in a circle.
NoCircle == \A S \in SUBSET Thread : S # {} => \E t \in S : Waits(t) \cap S = {}
=============================================================================
