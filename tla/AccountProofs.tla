---------------------------- MODULE AccountProofs ----------------------------
(***************************************************************************)
(* Proofs about Account, for every number of threads, buddies and ids of   *)
(* pjsua, and every bound: the buddy list agrees with pjsua, and, when one *)
(* thread logs in and out, a logout is the last thing a callback hears.    *)
(*                                                                         *)
(* Both rest on who holds which lock.  The list's is held by whoever works *)
(* on a buddy, so that what was looked up is still true when pjsua has     *)
(* answered; the stack's is held from before the list is emptied until     *)
(* pjsua is destroyed, so that nobody subscribes in between.               *)
(***************************************************************************)
EXTENDS Account, TLAPS

-----------------------------------------------------------------------------
(***************************************************************************)
(* Types.                                                                  *)
(***************************************************************************)
\* Everything has its type at first.
LEMMA InitTypeOK == Init => TypeOK
<1> SUFFICES ASSUME Init PROVE TypeOK
  OBVIOUS
<1>1. /\ pjsua \in {"none", "created", "running"} /\ registered \in BOOLEAN
      /\ subs \in [Id -> Buddy \cup {NoBuddy}]
      /\ abandoned \in BOOLEAN /\ started \in BOOLEAN /\ settings \in BOOLEAN
      /\ list \in [Buddy -> Id \cup {0}]
      /\ reqStatus \in OnlineState /\ cb \in BOOLEAN
      /\ notified \in OnlineState \cup {"none"}
  BY DEF Init, OnlineState
<1>2. /\ pc \in [Thread -> Label] /\ held \in [Thread -> SUBSET Lock]
      /\ serial \in [Thread -> Buddy \cup {NoBuddy}] /\ presence \in Id \cup {0}
      /\ success \in [Thread -> BOOLEAN]
  BY DEF Init, Label
<1>3. userStatus \in [Thread -> OnlineState] /\ used \in [Budget -> Nat]
  BY DEF Init, OnlineState
<1> QED
  BY <1>1, <1>2, <1>3 DEF TypeOK

\* What a step assigns has the type of what it is assigned to.
LEMMA NextTypeOK == TypeOK /\ [Next]_vars => TypeOK'
<1> SUFFICES ASSUME TypeOK, [Next]_vars PROVE TypeOK'
  OBVIOUS
<1> USE ThreadsDiffer, NoBuddyIsNone, AccountConstantsOK
<1>1. ASSUME NEW t \in Thread, StartedAlready(t) PROVE TypeOK'
  BY <1>1 DEF StartedAlready, library, account, locals, Leave, TypeOK, Thread,
       Label, Lock
<1>2. ASSUME NEW t \in Thread, StartSIPStack(t) PROVE TypeOK'
  BY <1>2 DEF StartSIPStack, account, locals, Leave, TypeOK, Thread, Label,
       Lock
<1>3. ASSUME NEW t \in Thread, StartFails(t) PROVE TypeOK'
  <2>1. PICK left \in LeftOver : pjsua' = left.pjsua /\ registered' = left.registered
    BY <1>3 DEF StartFails
  <2>2. left.pjsua \in {"none", "created", "running"} /\ left.registered \in BOOLEAN
    BY <2>1 DEF LeftOver
  <2>3. pc' \in [Thread -> Label] /\ held' \in [Thread -> SUBSET Lock]
    BY <1>3 DEF TypeOK, StartFails, Leave, Label
  <2>4. used' \in [Budget -> Nat]
    BY <1>3 DEF TypeOK, StartFails, Spend, Budget
  <2> QED
    BY <1>3, <2>1, <2>2, <2>3, <2>4 DEF TypeOK, StartFails, account, locals
<1>4. ASSUME NEW t \in Thread, LoggedIn(t) PROVE TypeOK'
  BY <1>4 DEF LoggedIn, library, locals, Leave, TypeOK, Thread, Label, Lock,
       OnlineState
<1>5. ASSUME NEW t \in Thread, StopSIPStack(t) PROVE TypeOK'
  <2>1. CASE started
    BY <1>5, <2>1 DEF TypeOK, StopSIPStack, Leave, library, account, Label, Lock
  <2>2. CASE ~started
    <3>1. pc' \in [Thread -> Label] /\ held' \in [Thread -> SUBSET Lock]
      BY <1>5, <2>2 DEF TypeOK, StopSIPStack, Leave, Label
    <3>2. success' \in [Thread -> BOOLEAN]
      BY <1>5, <2>2 DEF TypeOK, StopSIPStack
    <3> QED
      BY <1>5, <3>1, <3>2 DEF TypeOK, StopSIPStack, library, account
  <2> QED
    BY <2>1, <2>2
<1>6. ASSUME NEW t \in Thread, Reset(t) PROVE TypeOK'
  BY <1>6 DEF Reset, library, account, locals, Leave, TypeOK, Thread, Label,
       Lock
<1>7. ASSUME NEW t \in Thread, Destroy(t) PROVE TypeOK'
  <2>1. pc' \in [Thread -> Label] /\ held' \in [Thread -> SUBSET Lock]
    BY <1>7 DEF TypeOK, Destroy, Leave, Label, Lock
  <2>2. /\ pjsua' \in {"none", "created", "running"} /\ registered' \in BOOLEAN
        /\ started' \in BOOLEAN /\ subs' \in [Id -> Buddy \cup {NoBuddy}]
        /\ abandoned' \in BOOLEAN /\ used' \in [Budget -> Nat]
    <3>1. CASE /\ pjsua' = "none" /\ registered' = FALSE /\ started' = FALSE
               /\ subs' = [i \in Id |-> NoBuddy] /\ UNCHANGED <<abandoned, used>>
      BY <3>1 DEF TypeOK
    <3>2. CASE Spend("destroy") /\ UNCHANGED <<library, started>>
      BY <3>2 DEF TypeOK, Spend, Budget, library
    <3> QED
      BY <1>7, <3>1, <3>2 DEF Destroy
  <2>3. success' \in [Thread -> BOOLEAN]
    <3>1. CASE success' = [success EXCEPT ![t] = TRUE]
      BY <3>1 DEF TypeOK
    <3>2. CASE success' = [success EXCEPT ![t] = FALSE]
      BY <3>2 DEF TypeOK
    <3> QED
      BY <1>7, <3>1, <3>2 DEF Destroy
  <2> QED
    BY <1>7, <2>1, <2>2, <2>3 DEF TypeOK, Destroy, account
<1>8. ASSUME NEW t \in Thread, RegistrationState(t) PROVE TypeOK'
  BY <1>8 DEF RegistrationState, library, account, Leave, TypeOK, Thread,
       Label, Lock, OnlineState
<1>9. ASSUME NEW t \in Thread, NotifyCallback(t) PROVE TypeOK'
  BY <1>9 DEF NotifyCallback, library, Leave, TypeOK, Thread, Label, Lock,
       OnlineState
<1>10. ASSUME NEW t \in Thread, RmPoolData(t) PROVE TypeOK'
  BY <1>10 DEF RmPoolData, library, locals, Leave, TypeOK, Thread, Label,
       Lock, OnlineState
<1>11. ASSUME NEW t \in Thread, Subscribe(t) PROVE TypeOK'
  BY <1>11 DEF Subscribe, account, Refused, Leave, Spend, TypeOK, Thread,
       Budget, Label, Lock, OnlineState
<1>12. ASSUME NEW t \in Thread, Unsubscribe(t) PROVE TypeOK'
  BY <1>12 DEF Unsubscribe, account, Refused, Leave, Spend, TypeOK, Thread,
       Budget, Label, Lock, OnlineState
<1>13. ASSUME NEW t \in App, Login(t) PROVE TypeOK'
  BY <1>13 DEF Login, library, locals, Spend, Leave, TypeOK, Thread, Budget,
       Label, Lock, OnlineState
<1>14. ASSUME NEW t \in App, Logout(t) PROVE TypeOK'
  BY <1>14 DEF Logout, library, locals, Spend, Leave, TypeOK, Thread, Budget,
       Label, Lock, OnlineState
<1>15. ASSUME NEW t \in App, AddRegCallback(t) PROVE TypeOK'
  BY <1>15 DEF AddRegCallback, library, locals, Spend, TypeOK, Thread, Budget,
       Label, Lock, OnlineState
<1>16. ASSUME NEW t \in App, RmRegCallback(t) PROVE TypeOK'
  BY <1>16 DEF RmRegCallback, library, account, locals, Spend, Leave, TypeOK,
       Thread, Budget, Label, Lock
<1>17. ASSUME NEW t \in App, NEW b \in Buddy, AddBuddy(t, b) PROVE TypeOK'
  BY <1>17 DEF AddBuddy, library, account, Spend, Leave, TypeOK, Thread,
       Budget, Label, Lock, OnlineState
<1>18. ASSUME NEW t \in App, NEW b \in Buddy, RmBuddy(t, b) PROVE TypeOK'
  BY <1>18 DEF RmBuddy, library, account, Spend, Leave, TypeOK, Thread,
       Budget, Label, Lock, OnlineState
<1>19. ASSUME NEW ok \in BOOLEAN, OnRegState(ok) PROVE TypeOK'
  BY <1>19 DEF OnRegState, library, account, Spend, Leave, TypeOK, Thread,
       Budget, Label, Lock, OnlineState
<1>20. ASSUME NEW i \in Id, OnBuddyState(i) PROVE TypeOK'
  BY <1>20 DEF OnBuddyState, library, account, Spend, Leave, TypeOK, Thread,
       Budget, Label, Lock, OnlineState
<1>21. ASSUME BuddyState PROVE TypeOK'
  BY <1>21 DEF BuddyState, library, account, Leave, TypeOK, Thread, Label,
       Lock, OnlineState
<1>22. ASSUME OnPager PROVE TypeOK'
  BY <1>22 DEF OnPager, library, account, locals, Spend, Leave, TypeOK,
       Thread, Budget, Label, Lock
<1>23. ASSUME IsSipStackStarted PROVE TypeOK'
  BY <1>23 DEF IsSipStackStarted, library, account, locals, Leave, TypeOK,
       Thread, Label, Lock
<1>24. CASE UNCHANGED vars
  BY <1>24 DEF TypeOK, vars, library, account, locals
<1> QED
  BY <1>1, <1>2, <1>3, <1>4, <1>5, <1>6, <1>7, <1>8, <1>9, <1>10, <1>11, <1>12,
     <1>13, <1>14, <1>15, <1>16, <1>17, <1>18, <1>19, <1>20, <1>21, <1>22,
     <1>23, <1>24 DEF Next, Run, Call, Worker

\* Every variable has its type.
THEOREM SpecTypeOK == Spec => []TypeOK
BY InitTypeOK, NextTypeOK, PTL DEF Spec

-----------------------------------------------------------------------------
(***************************************************************************)
(* Locks.                                                                  *)
(***************************************************************************)
\* Who is inside a method of the buddy list, or stops the stack, has its lock.
Held ==
  /\ \A t \in Thread : pc[t] \in {"subscribe", "unsubscribe"} => "list" \in held[t]
  /\ \A t \in Thread : pc[t] \in {"reset", "destroy"} => "sip" \in held[t]

\* Nobody shares these locks, and the worker runs callbacks only.
Mutex ==
  /\ \A t, x \in Thread : "list" \in held[t] /\ "list" \in held[x] => t = x
  /\ \A t, x \in Thread : "sip" \in held[t] /\ "sip" \in held[x] => t = x
  /\ pc["sip"] \in {"idle", "status", "notify", "find", "query"}

Locks == Held /\ Mutex

\* A thread that has the lock where it goes, and took none that another has,
\* keeps them so.
LEMMA LeaveLocks ==
  ASSUME TypeOK, Locks, NEW t \in Thread, NEW label, NEW taken, NEW given,
         Leave(t, label, taken, given),
         label \in {"subscribe", "unsubscribe"} => "list" \in (held[t] \cup taken) \ given,
         label \in {"reset", "destroy"} => "sip" \in (held[t] \cup taken) \ given,
         "list" \in taken => Free(t, "list"),
         "sip" \in taken => Free(t, "sip"),
         t = "sip" => label \in {"idle", "status", "notify", "find", "query"}
  PROVE  Locks'
<1>1. /\ pc'[t] = label /\ held'[t] = (held[t] \cup taken) \ given
      /\ \A x \in Thread \ {t} : pc'[x] = pc[x] /\ held'[x] = held[x]
  BY DEF TypeOK, Leave
<1>2. Held'
  BY <1>1 DEF Locks, Held
<1>3. \A x \in Thread \ {t} :
        /\ ~("list" \in held'[t] /\ "list" \in held'[x])
        /\ ~("sip" \in held'[t] /\ "sip" \in held'[x])
  BY <1>1 DEF Locks, Mutex, Free
<1>4. Mutex'
  BY <1>1, <1>3, ThreadsDiffer DEF Locks, Mutex, Thread
<1> QED
  BY <1>2, <1>4 DEF Locks

\* Nobody has a lock at first.
LEMMA InitLocks == Init => Locks
BY DEF Init, Locks, Held, Mutex, Thread

\* The lock of the list is given up with the work on a buddy, that of the stack
\* with the end of pjsua.
LEMMA NextLocks == TypeOK /\ Locks /\ [Next]_vars => Locks'
<1> SUFFICES ASSUME TypeOK, Locks, [Next]_vars PROVE Locks'
  OBVIOUS
<1>1. ASSUME NEW t \in Thread, StartedAlready(t) PROVE Locks'
  BY <1>1, LeaveLocks DEF StartedAlready, Locks, Held, Mutex
<1>2. ASSUME NEW t \in Thread, StartSIPStack(t) PROVE Locks'
  BY <1>2, LeaveLocks DEF StartSIPStack, Locks, Held, Mutex
<1>3. ASSUME NEW t \in Thread, StartFails(t) PROVE Locks'
  BY <1>3, LeaveLocks DEF StartFails
<1>4. ASSUME NEW t \in Thread, LoggedIn(t) PROVE Locks'
  BY <1>4, LeaveLocks DEF LoggedIn, Locks, Held, Mutex
<1>5. ASSUME NEW t \in Thread, StopSIPStack(t) PROVE Locks'
  BY <1>5, LeaveLocks DEF StopSIPStack, Locks, Held, Mutex
<1>6. ASSUME NEW t \in Thread, Reset(t) PROVE Locks'
  BY <1>6, LeaveLocks DEF Reset, Locks, Held, Mutex
<1>7. ASSUME NEW t \in Thread, Destroy(t) PROVE Locks'
  BY <1>7, LeaveLocks DEF Destroy, Locks, Held, Mutex
<1>8. ASSUME NEW t \in Thread, RegistrationState(t) PROVE Locks'
  BY <1>8, LeaveLocks DEF RegistrationState, Locks, Held, Mutex
<1>9. ASSUME NEW t \in Thread, NotifyCallback(t) PROVE Locks'
  BY <1>9, LeaveLocks DEF NotifyCallback, Locks, Held, Mutex
<1>10. ASSUME NEW t \in Thread, RmPoolData(t) PROVE Locks'
  BY <1>10, LeaveLocks DEF RmPoolData, Locks, Held, Mutex
<1>11. ASSUME NEW t \in Thread, Subscribe(t) PROVE Locks'
  BY <1>11, LeaveLocks DEF Subscribe, Locks, Held, Mutex
<1>12. ASSUME NEW t \in Thread, Unsubscribe(t) PROVE Locks'
  BY <1>12, LeaveLocks DEF Unsubscribe, Locks, Held, Mutex
<1>13. ASSUME NEW t \in App, Login(t) PROVE Locks'
  BY <1>13, LeaveLocks, ThreadsDiffer DEF Login, Thread
<1>14. ASSUME NEW t \in App, Logout(t) PROVE Locks'
  BY <1>14, LeaveLocks, ThreadsDiffer DEF Logout, Thread
<1>15. ASSUME NEW t \in App, AddRegCallback(t) PROVE Locks'
  BY <1>15 DEF AddRegCallback, Locks, Held, Mutex
<1>16. ASSUME NEW t \in App, RmRegCallback(t) PROVE Locks'
  BY <1>16, LeaveLocks, ThreadsDiffer DEF RmRegCallback, Thread
<1>17. ASSUME NEW t \in App, NEW b \in Buddy, AddBuddy(t, b) PROVE Locks'
  BY <1>17, LeaveLocks, ThreadsDiffer DEF AddBuddy, Thread
<1>18. ASSUME NEW t \in App, NEW b \in Buddy, RmBuddy(t, b) PROVE Locks'
  BY <1>18, LeaveLocks, ThreadsDiffer DEF RmBuddy, Thread
<1>19. ASSUME NEW ok \in BOOLEAN, OnRegState(ok) PROVE Locks'
  BY <1>19, LeaveLocks DEF OnRegState, Thread
<1>20. ASSUME NEW i \in Id, OnBuddyState(i) PROVE Locks'
  BY <1>20, LeaveLocks DEF OnBuddyState, Thread
<1>21. ASSUME BuddyState PROVE Locks'
  BY <1>21, LeaveLocks DEF BuddyState, Thread
<1>22. ASSUME OnPager PROVE Locks'
  BY <1>22, LeaveLocks DEF OnPager, Thread
<1>23. ASSUME IsSipStackStarted PROVE Locks'
  BY <1>23, LeaveLocks DEF IsSipStackStarted, Thread
<1>24. CASE UNCHANGED vars
  BY <1>24 DEF vars, Locks, Held, Mutex
<1> QED
  BY <1>1, <1>2, <1>3, <1>4, <1>5, <1>6, <1>7, <1>8, <1>9, <1>10, <1>11, <1>12,
     <1>13, <1>14, <1>15, <1>16, <1>17, <1>18, <1>19, <1>20, <1>21, <1>22,
     <1>23, <1>24 DEF Next, Run, Call, Worker

-----------------------------------------------------------------------------
(***************************************************************************)
(* The buddy list and pjsua's subscriptions.                               *)
(***************************************************************************)
\* pjsua has subscriptions only while the stack is started.
OnlyStarted == started \/ \A i \in Id : subs[i] = NoBuddy

\* A buddy that is to be added is not in the list, and one to be removed is,
\* because whoever works on it has the lock; who destroys pjsua emptied the list.
AtWork ==
  /\ \A t \in Thread : pc[t] = "subscribe" => serial[t] \in Buddy /\ list[serial[t]] = 0
  /\ \A t \in Thread : pc[t] = "unsubscribe" => serial[t] \in Buddy /\ list[serial[t]] # 0
  /\ \A t \in Thread : pc[t] \in {"reset", "destroy"} => started
  /\ \A t \in Thread : pc[t] = "destroy" => \A b \in Buddy : list[b] = 0

Lists == ListAgrees /\ OnlyStarted /\ AtWork

\* Steps of threads that are not at work on the list, and do not begin to be.
LEMMA LeaveLists ==
  ASSUME TypeOK, Lists, NEW t \in Thread, NEW label, NEW taken, NEW given,
         Leave(t, label, taken, given),
         label \notin {"subscribe", "unsubscribe", "reset", "destroy"}, pc[t] # "destroy",
         UNCHANGED <<subs, list, started, serial>>, used'["destroy"] = used["destroy"]
  PROVE  Lists'
<1>1. /\ pc'[t] = label
      /\ \A x \in Thread \ {t} : pc'[x] = pc[x]
  BY DEF TypeOK, Leave
<1>2. AtWork'
  BY <1>1 DEF Lists, AtWork
<1>3. ListAgrees'
  <2>1. \A x \in App : pc[x] = "destroy" => pc'[x] = "destroy"
    BY <1>1 DEF Thread
  <2> QED
    BY <2>1 DEF Lists, ListAgrees
<1>4. OnlyStarted'
  BY DEF Lists, OnlyStarted
<1> QED
  BY <1>2, <1>3, <1>4 DEF Lists

\* Both are empty at first.
LEMMA InitLists == Init => Lists
<1> SUFFICES ASSUME Init PROVE Lists
  OBVIOUS
<1>1. ListAgrees
  BY DEF Init, ListAgrees
<1>2. OnlyStarted /\ AtWork
  BY DEF Init, OnlyStarted, AtWork
<1> QED
  BY <1>1, <1>2 DEF Lists

\* The stack is started over what a failed start left of pjsua, never over
\* subscriptions.
LEMMA StartSIPStackLists ==
  ASSUME TypeOK, Lists, NEW t \in Thread, StartSIPStack(t)
  PROVE  Lists'
<1>1. /\ pc[t] = "start" /\ ~started /\ started' /\ pc'[t] = "settings"
      /\ \A x \in Thread \ {t} : pc'[x] = pc[x]
      /\ UNCHANGED <<subs, list, serial, used>>
  BY DEF StartSIPStack, Leave, TypeOK, locals
<1>2. AtWork'
  BY <1>1 DEF Lists, AtWork
<1>3. \A i \in Id : subs'[i] = NoBuddy
  BY <1>1 DEF Lists, OnlyStarted
<1>4. ListAgrees'
  BY <1>1, <1>3 DEF Lists, ListAgrees
<1>5. OnlyStarted'
  BY <1>1 DEF OnlyStarted
<1> QED
  BY <1>2, <1>4, <1>5 DEF Lists

\* Who has the stack's lock is the only one to stop it.
LEMMA StopSIPStackLists ==
  ASSUME TypeOK, Lists, NEW t \in Thread, StopSIPStack(t)
  PROVE  Lists'
<1>1. CASE started
  <2>1. /\ pc[t] = "stop" /\ pc'[t] = "reset"
        /\ \A x \in Thread \ {t} : pc'[x] = pc[x]
        /\ UNCHANGED <<subs, list, started, serial, used>>
    BY <1>1 DEF StopSIPStack, Leave, TypeOK, library
  <2>2. AtWork'
    BY <1>1, <2>1 DEF Lists, AtWork
  <2>3. ListAgrees'
    <3>1. \A x \in App : pc[x] = "destroy" => pc'[x] = "destroy"
      BY <2>1 DEF Thread
    <3> QED
      BY <2>1, <3>1 DEF Lists, ListAgrees
  <2>4. OnlyStarted'
    BY <1>1, <2>1 DEF OnlyStarted
  <2> QED
    BY <2>2, <2>3, <2>4 DEF Lists
<1>2. CASE ~started
  <2>1. Leave(t, "status", {}, {}) /\ pc[t] = "stop"
        /\ UNCHANGED <<subs, list, started, serial, used>>
    BY <1>2 DEF StopSIPStack, library
  <2> QED
    BY <2>1, LeaveLists
<1> QED
  BY <1>1, <1>2

\* The list is emptied while nobody works on a buddy.
LEMMA ResetLists ==
  ASSUME TypeOK, Locks, Lists, NEW t \in Thread, Reset(t)
  PROVE  Lists'
<1>1. /\ pc[t] = "reset" /\ pc'[t] = "destroy" /\ Free(t, "list")
      /\ \A x \in Thread \ {t} : pc'[x] = pc[x]
      /\ list' = [b \in Buddy |-> 0] /\ UNCHANGED <<subs, started, serial, used>>
  BY DEF Reset, Leave, TypeOK, library, locals
<1>2. \A x \in Thread : pc'[x] \notin {"subscribe", "unsubscribe"}
  BY <1>1 DEF Free, Locks, Held
<1>3. \A x \in Thread : pc'[x] \in {"reset", "destroy"} => pc[x] \in {"reset", "destroy"}
  BY <1>1
<1>4. AtWork'
  BY <1>1, <1>2, <1>3 DEF Lists, AtWork
<1>5. t \in App
  BY <1>1 DEF Locks, Mutex, Thread
<1>6. ListAgrees'
  BY <1>1, <1>5 DEF ListAgrees
<1>7. OnlyStarted'
  BY <1>1 DEF Lists, OnlyStarted
<1> QED
  BY <1>4, <1>6, <1>7 DEF Lists

\* Nothing was subscribed to since the list was emptied; a destroy that fails
\* leaves pjsua its subscriptions.
LEMMA DestroyLists ==
  ASSUME TypeOK, Locks, Lists, NEW t \in Thread, Destroy(t)
  PROVE  Lists'
<1>1. /\ pc[t] = "destroy" /\ pc'[t] = "status"
      /\ \A x \in Thread \ {t} : pc'[x] = pc[x]
      /\ UNCHANGED <<list, serial>> /\ \A b \in Buddy : list[b] = 0
  BY DEF Destroy, Leave, TypeOK, Lists, AtWork
<1>2. \A x \in Thread : pc'[x] \notin {"reset", "destroy"}
  BY <1>1 DEF Locks, Held, Mutex
<1>3. AtWork'
  BY <1>1, <1>2 DEF Lists, AtWork
<1>4. CASE ~started' /\ subs' = [i \in Id |-> NoBuddy]
  <2>1. ListAgrees' /\ OnlyStarted'
    BY <1>1, <1>4, NoBuddyIsNone DEF ListAgrees, OnlyStarted
  <2> QED
    BY <1>3, <2>1 DEF Lists
<1>5. CASE Spend("destroy") /\ UNCHANGED <<library, started>>
  <2>1. used'["destroy"] > 0
    BY <1>5 DEF Spend, TypeOK, Budget
  <2>2. ListAgrees' /\ OnlyStarted'
    BY <1>1, <1>5, <2>1 DEF Lists, ListAgrees, OnlyStarted, library
  <2> QED
    BY <1>3, <2>2 DEF Lists
<1> QED
  BY <1>4, <1>5 DEF Destroy

\* A buddy that is not in the list is added by the only thread at work on it.
LEMMA AddBuddyLists ==
  ASSUME TypeOK, Lists, NEW t \in Thread, NEW b \in Buddy, AddBuddy(t, b)
  PROVE  Lists'
<1>1. /\ pc[t] = "idle" /\ pc'[t] = "subscribe" /\ serial'[t] = b /\ list[b] = 0
      /\ \A x \in Thread \ {t} : pc'[x] = pc[x] /\ serial'[x] = serial[x]
      /\ UNCHANGED <<subs, list, started>> /\ used'["destroy"] = used["destroy"]
  BY DEF AddBuddy, Leave, TypeOK, library, Spend, Budget
<1>2. AtWork'
  BY <1>1 DEF Lists, AtWork
<1>3. ListAgrees'
  <2>1. \A x \in App : pc[x] = "destroy" => pc'[x] = "destroy"
    BY <1>1 DEF Thread
  <2> QED
    BY <1>1, <2>1 DEF Lists, ListAgrees
<1>4. OnlyStarted'
  BY <1>1 DEF Lists, OnlyStarted
<1> QED
  BY <1>2, <1>3, <1>4 DEF Lists

\* One that is in the list is removed likewise.
LEMMA RmBuddyLists ==
  ASSUME TypeOK, Lists, NEW t \in Thread, NEW b \in Buddy, RmBuddy(t, b)
  PROVE  Lists'
<1>1. /\ pc[t] = "idle" /\ pc'[t] = "unsubscribe" /\ serial'[t] = b /\ list[b] # 0
      /\ \A x \in Thread \ {t} : pc'[x] = pc[x] /\ serial'[x] = serial[x]
      /\ UNCHANGED <<subs, list, started>> /\ used'["destroy"] = used["destroy"]
  BY DEF RmBuddy, Leave, TypeOK, library, Spend, Budget
<1>2. AtWork'
  BY <1>1 DEF Lists, AtWork
<1>3. ListAgrees'
  <2>1. \A x \in App : pc[x] = "destroy" => pc'[x] = "destroy"
    BY <1>1 DEF Thread
  <2> QED
    BY <1>1, <2>1 DEF Lists, ListAgrees
<1>4. OnlyStarted'
  BY <1>1 DEF Lists, OnlyStarted
<1> QED
  BY <1>2, <1>3, <1>4 DEF Lists

\* What both ends of a piece of work on a buddy have in common.
LEMMA WorkEnds ==
  ASSUME TypeOK, Locks, NEW t \in Thread, Subscribe(t) \/ Unsubscribe(t)
  PROVE  /\ pc'[t] = "idle"
         /\ \A x \in Thread \ {t} : pc'[x] = pc[x] /\ serial'[x] = serial[x]
         /\ \A x \in Thread \ {t} : pc[x] \notin {"subscribe", "unsubscribe"}
         /\ \A x \in Thread : pc'[x] \notin {"subscribe", "unsubscribe"}
         /\ \A x \in Thread : pc[x] # "destroy" /\ pc'[x] # "destroy"
         /\ started' = started /\ used'["destroy"] = used["destroy"]
<1>1. /\ pc[t] \in {"subscribe", "unsubscribe"} /\ pc'[t] = "idle" /\ Free(t, "sip")
      /\ \A x \in Thread \ {t} : pc'[x] = pc[x] /\ serial'[x] = serial[x]
      /\ started' = started
  BY DEF Subscribe, Unsubscribe, Leave, TypeOK
<1>2. \A x \in Thread \ {t} : pc[x] \notin {"subscribe", "unsubscribe"}
  BY <1>1 DEF Locks, Held, Mutex
<1>3. \A x \in Thread \ {t} : pc[x] # "destroy"
  BY <1>1 DEF Locks, Held, Free
<1>4. used'["destroy"] = used["destroy"]
  <2>1. ASSUME Refused PROVE used'["destroy"] = used["destroy"]
    BY <2>1 DEF Refused, Spend, TypeOK, Budget
  <2> QED
    BY <2>1 DEF Subscribe, Unsubscribe
<1> QED
  BY <1>1, <1>2, <1>3, <1>4

\* The ids a refused piece of work leaves are those it found.
LEMMA RefusedLists ==
  ASSUME TypeOK, Locks, Lists, NEW t \in Thread, Subscribe(t) \/ Unsubscribe(t),
         UNCHANGED <<subs, list>>
  PROVE  Lists'
<1>1. AtWork'
  BY WorkEnds DEF Lists, AtWork
<1>2. ListAgrees' /\ OnlyStarted'
  BY WorkEnds DEF Lists, ListAgrees, OnlyStarted, Thread
<1> QED
  BY <1>1, <1>2 DEF Lists

\* The buddy gets an id nobody has, and it had none before.
LEMMA SubscribeLists ==
  ASSUME TypeOK, Locks, Lists, NEW t \in Thread, Subscribe(t)
  PROVE  Lists'
<1> DEFINE b == serial[t]
<1>1. b \in Buddy /\ list[b] = 0
  BY DEF Subscribe, Lists, AtWork
<1> HIDE DEF b
<1>2. CASE UNCHANGED <<subs, list>>
  BY <1>2, RefusedLists
<1>3. CASE \E i \in Id :
             /\ started /\ subs[i] = NoBuddy
             /\ subs' = [subs EXCEPT ![i] = b] /\ list' = [list EXCEPT ![b] = i]
  <2>1. PICK i \in Id :
          /\ started /\ subs[i] = NoBuddy
          /\ subs' = [subs EXCEPT ![i] = b] /\ list' = [list EXCEPT ![b] = i]
    BY <1>3
  <2>2. /\ i \in Id /\ i # 0 /\ subs'[i] = b /\ list'[b] = i
        /\ \A j \in Id \ {i} : subs'[j] = subs[j]
        /\ \A c \in Buddy \ {b} : list'[c] = list[c]
    BY <1>1, <2>1 DEF TypeOK, Id
  <2>3. AtWork'
    BY <2>1, WorkEnds DEF Lists, AtWork
  <2>4. ASSUME NEW c \in Buddy, list'[c] # 0
        PROVE  started' /\ subs'[list'[c]] = c
    <3>1. CASE c = b
      BY <2>1, <2>2, <3>1, WorkEnds
    <3>2. CASE c # b
      <4>1. list'[c] = list[c] /\ subs[list[c]] = c /\ list[c] \in Id
        BY <2>2, <2>4, <3>2 DEF Lists, ListAgrees, TypeOK
      <4>2. list[c] # i
        BY <2>1, <4>1, NoBuddyIsNone
      <4>3. started'
        BY <2>1, WorkEnds
      <4> QED
        BY <2>2, <4>1, <4>2, <4>3
    <3> QED
      BY <3>1, <3>2
  <2>5. ASSUME used'["destroy"] = 0, NEW j \in Id, subs'[j] # NoBuddy
        PROVE  list'[subs'[j]] = j
    <3>1. CASE j = i
      BY <2>2, <3>1
    <3>2. CASE j # i
      <4>1. subs'[j] = subs[j] /\ list[subs[j]] = j
        BY <2>2, <2>5, <3>2, WorkEnds DEF Lists, ListAgrees, Thread
      <4>2. subs[j] \in Buddy /\ subs[j] # b
        BY <1>1, <2>5, <4>1 DEF TypeOK, Id
      <4> QED
        BY <2>2, <4>1, <4>2
    <3> QED
      BY <3>1, <3>2
  <2>6. ListAgrees'
    <3>1. used'["destroy"] \in Nat
      BY WorkEnds DEF TypeOK, Budget
    <3> QED
      BY <2>4, <2>5, <3>1 DEF ListAgrees
  <2>7. OnlyStarted'
    BY <2>1, WorkEnds DEF OnlyStarted
  <2> QED
    BY <2>3, <2>6, <2>7 DEF Lists
<1> QED
  BY <1>2, <1>3 DEF Subscribe, b

\* The buddy and its id go together.
LEMMA UnsubscribeLists ==
  ASSUME TypeOK, Locks, Lists, NEW t \in Thread, Unsubscribe(t)
  PROVE  Lists'
<1> DEFINE b == serial[t]
           i == list[b]
<1>1. b \in Buddy /\ i \in Id /\ subs[i] = b
  BY DEF Unsubscribe, Lists, AtWork, ListAgrees, TypeOK
<1> HIDE DEF b, i
<1>2. CASE UNCHANGED <<subs, list>>
  BY <1>2, RefusedLists
<1>3. CASE /\ started
           /\ subs' = [subs EXCEPT ![i] = NoBuddy] /\ list' = [list EXCEPT ![b] = 0]
  <2>1. /\ subs'[i] = NoBuddy /\ list'[b] = 0 /\ list[b] = i
        /\ \A j \in Id \ {i} : subs'[j] = subs[j]
        /\ \A c \in Buddy \ {b} : list'[c] = list[c]
    BY <1>1, <1>3 DEF TypeOK, i
  <2>2. AtWork'
    BY <1>3, WorkEnds DEF Lists, AtWork
  <2>3. ASSUME NEW c \in Buddy, list'[c] # 0
        PROVE  started' /\ subs'[list'[c]] = c
    <3>1. c # b /\ list'[c] = list[c] /\ subs[list[c]] = c /\ list[c] \in Id
      BY <2>1, <2>3 DEF Lists, ListAgrees, TypeOK
    <3>2. list[c] # i
      BY <1>1, <3>1
    <3>3. started'
      BY <1>3, WorkEnds
    <3> QED
      BY <2>1, <3>1, <3>2, <3>3
  <2>4. ASSUME used'["destroy"] = 0, NEW j \in Id, subs'[j] # NoBuddy
        PROVE  list'[subs'[j]] = j
    <3>1. j # i /\ subs'[j] = subs[j] /\ list[subs[j]] = j
      BY <2>1, <2>4, WorkEnds DEF Lists, ListAgrees, Thread
    <3>2. subs[j] \in Buddy /\ subs[j] # b
      BY <2>1, <2>4, <3>1 DEF TypeOK
    <3> QED
      BY <2>1, <3>1, <3>2
  <2>5. ListAgrees'
    <3>1. used'["destroy"] \in Nat
      BY WorkEnds DEF TypeOK, Budget
    <3> QED
      BY <2>3, <2>4, <3>1 DEF ListAgrees
  <2>6. OnlyStarted'
    BY <1>3, WorkEnds DEF OnlyStarted
  <2> QED
    BY <2>2, <2>5, <2>6 DEF Lists
<1> QED
  BY <1>2, <1>3 DEF Unsubscribe, b, i

\* No step takes the list and the subscriptions apart.
LEMMA NextLists == TypeOK /\ Locks /\ Lists /\ [Next]_vars => Lists'
<1> SUFFICES ASSUME TypeOK, Locks, Lists, [Next]_vars PROVE Lists'
  OBVIOUS
<1>1. ASSUME NEW t \in Thread, StartedAlready(t) PROVE Lists'
  BY <1>1, LeaveLists DEF StartedAlready, library, locals
<1>2. ASSUME NEW t \in Thread, StartSIPStack(t) PROVE Lists'
  BY <1>2, StartSIPStackLists
<1>3. ASSUME NEW t \in Thread, StartFails(t) PROVE Lists'
  BY <1>3, LeaveLists DEF StartFails, locals, Spend, Budget, TypeOK
<1>4. ASSUME NEW t \in Thread, LoggedIn(t) PROVE Lists'
  BY <1>4, LeaveLists DEF LoggedIn, library, locals
<1>5. ASSUME NEW t \in Thread, StopSIPStack(t) PROVE Lists'
  BY <1>5, StopSIPStackLists
<1>6. ASSUME NEW t \in Thread, Reset(t) PROVE Lists'
  BY <1>6, ResetLists
<1>7. ASSUME NEW t \in Thread, Destroy(t) PROVE Lists'
  BY <1>7, DestroyLists
<1>8. ASSUME NEW t \in Thread, RegistrationState(t) PROVE Lists'
  BY <1>8, LeaveLists DEF RegistrationState, library
<1>9. ASSUME NEW t \in Thread, NotifyCallback(t) PROVE Lists'
  BY <1>9, LeaveLists DEF NotifyCallback, library
<1>10. ASSUME NEW t \in Thread, RmPoolData(t) PROVE Lists'
  BY <1>10, LeaveLists DEF RmPoolData, library, locals
<1>11. ASSUME NEW t \in Thread, Subscribe(t) PROVE Lists'
  BY <1>11, SubscribeLists
<1>12. ASSUME NEW t \in Thread, Unsubscribe(t) PROVE Lists'
  BY <1>12, UnsubscribeLists
<1>13. ASSUME NEW t \in App, Login(t) PROVE Lists'
  BY <1>13, LeaveLists DEF Login, library, locals, Spend, Budget, TypeOK,
       Thread
<1>14. ASSUME NEW t \in App, Logout(t) PROVE Lists'
  BY <1>14, LeaveLists DEF Logout, library, locals, Spend, Budget, TypeOK,
       Thread
<1>15. ASSUME NEW t \in App, AddRegCallback(t) PROVE Lists'
  BY <1>15 DEF AddRegCallback, Lists, ListAgrees, OnlyStarted, AtWork, Spend,
       Budget, TypeOK, library, locals
<1>16. ASSUME NEW t \in App, RmRegCallback(t) PROVE Lists'
  BY <1>16, LeaveLists DEF RmRegCallback, library, locals, Spend, Budget,
       TypeOK, Thread
<1>17. ASSUME NEW t \in App, NEW b \in Buddy, AddBuddy(t, b) PROVE Lists'
  BY <1>17, AddBuddyLists DEF Thread
<1>18. ASSUME NEW t \in App, NEW b \in Buddy, RmBuddy(t, b) PROVE Lists'
  BY <1>18, RmBuddyLists DEF Thread
<1>19. ASSUME NEW ok \in BOOLEAN, OnRegState(ok) PROVE Lists'
  BY <1>19, LeaveLists DEF OnRegState, library, Spend, Budget, TypeOK, Thread
<1>20. ASSUME NEW i \in Id, OnBuddyState(i) PROVE Lists'
  BY <1>20, LeaveLists DEF OnBuddyState, library, Spend, Budget, TypeOK, Thread
<1>21. ASSUME BuddyState PROVE Lists'
  BY <1>21, LeaveLists DEF BuddyState, library, Thread
<1>22. ASSUME OnPager PROVE Lists'
  BY <1>22, LeaveLists DEF OnPager, library, locals, Spend, Budget, TypeOK,
       Thread
<1>23. ASSUME IsSipStackStarted PROVE Lists'
  BY <1>23, LeaveLists DEF IsSipStackStarted, library, locals, Thread
<1>24. CASE UNCHANGED vars
  BY <1>24 DEF vars, library, locals, Lists, ListAgrees, OnlyStarted, AtWork
<1> QED
  BY <1>1, <1>2, <1>3, <1>4, <1>5, <1>6, <1>7, <1>8, <1>9, <1>10, <1>11, <1>12,
     <1>13, <1>14, <1>15, <1>16, <1>17, <1>18, <1>19, <1>20, <1>21, <1>22,
     <1>23, <1>24 DEF Next, Run, Call, Worker

Sound == TypeOK /\ Locks /\ Lists

\* Every reachable state.
THEOREM SpecSound == Spec => []Sound
<1>1. Init => Sound
  BY InitTypeOK, InitLocks, InitLists DEF Sound
<1>2. Sound /\ [Next]_vars => Sound'
  BY NextTypeOK, NextLocks, NextLists DEF Sound
<1> QED
  BY <1>1, <1>2, PTL DEF Spec

\* The buddy list knows a buddy exactly when pjsua subscribed to it.
THEOREM SpecListAgrees == Spec => []ListAgrees
<1>1. Sound => ListAgrees
  BY DEF Sound, Lists
<1> QED
  BY SpecSound, <1>1, PTL

-----------------------------------------------------------------------------
(***************************************************************************)
(* What a callback hears last.                                             *)
(***************************************************************************)
\* As in MpMain.cpp, where only main logs in and out: with two of them a login
\* may request ONLINE between the other's logout and its report.
OneAdmin == \A t, x \in Admin : t = x

\* What the administrator is about to tell its callbacks, once it stopped.
Telling ==
  /\ \A t \in App \ Admin :
       pc[t] \in {"idle", "subscribe", "unsubscribe", "rmReg"}
  /\ \A t \in Admin : pc[t] \in {"stop", "reset", "destroy", "status"} => reqStatus = "OFFLINE"
  /\ \A t \in Admin : pc[t] = "notify" => userStatus[t] = "OFFLINE"

\* Without pjsua there are no reports, and what was told last is the logout.
Down ==
  pjsua = "none" /\ ~abandoned =>
    /\ pc["sip"] = "idle"
    /\ cb /\ (\A t \in Thread : pc[t] \notin {"status", "notify"}) => notified # "ONLINE"

Told == Telling /\ Down

\* Those inside login or logout are the administrator, or the worker with a
\* report.
LEMMA Who ==
  ASSUME Locks, Told, NEW t \in Thread
  PROVE  /\ pc[t] \in {"start", "settings", "stop", "reset", "destroy"} => t \in Admin
         /\ pc[t] \in {"status", "notify"} => t \in Admin \/ t = "sip"
         /\ pc[t] \in {"subscribe", "unsubscribe", "rmReg"} => t \in App
BY DEF Locks, Mutex, Told, Telling, Thread

\* Nothing is under way at first.
LEMMA InitTold == Init => Told
BY ThreadsDiffer DEF Init, Told, Telling, Down, Thread

\* What is requested and reported stays, and only the administrator moves
\* within login and logout.
LEMMA LeaveTelling ==
  ASSUME TypeOK, Told, NEW t \in Thread, NEW label, NEW taken, NEW given,
         Leave(t, label, taken, given), UNCHANGED <<reqStatus, userStatus>>,
         \/ t = "sip"
         \/ label \in {"idle", "subscribe", "unsubscribe", "rmReg"}
         \/ t \in Admin /\ label \in {"start", "settings"}
         \/ /\ t \in Admin /\ label \in {"reset", "destroy", "status"}
            /\ pc[t] \in {"stop", "reset", "destroy"}
  PROVE  Telling'
<1>1. /\ pc'[t] = label
      /\ \A x \in Thread \ {t} : pc'[x] = pc[x]
  BY DEF TypeOK, Leave
<1> QED
  BY <1>1, ThreadsDiffer DEF Told, Telling, Thread

\* Without pjsua the worker does not move, and who has nothing to report leaves
\* what was told.
LEMMA LeaveDown ==
  ASSUME TypeOK, Told, NEW t \in Thread, NEW label, NEW taken, NEW given,
         Leave(t, label, taken, given), UNCHANGED <<pjsua, abandoned, cb, notified>>,
         pc[t] \notin {"status", "notify"},
         t = "sip" => pjsua = "running" \/ pc[t] # "idle"
  PROVE  Down'
<1>1. /\ pc'[t] = label
      /\ \A x \in Thread \ {t} : pc'[x] = pc[x]
  BY DEF TypeOK, Leave
<1> QED
  BY <1>1, ThreadsDiffer DEF Told, Down, Thread

\* Nobody is told ONLINE once pjsua is gone.
LEMMA NextTold ==
  ASSUME OneAdmin
  PROVE  TypeOK /\ Locks /\ Told /\ [Next]_vars => Told'
<1> SUFFICES ASSUME TypeOK, Locks, Told, [Next]_vars PROVE Told'
  OBVIOUS
<1>1. ASSUME NEW t \in Thread, StartedAlready(t) PROVE Told'
  <2>1. Telling'
    BY <1>1, Who, LeaveTelling DEF StartedAlready, library, account,
       locals
  <2>2. Down'
    BY <1>1, Who, LeaveDown, ThreadsDiffer DEF StartedAlready, library, account,
       locals
  <2> QED
    BY <2>1, <2>2 DEF Told
<1>2. ASSUME NEW t \in Thread, StartSIPStack(t) PROVE Told'
  <2>1. Telling'
    BY <1>2, Who, LeaveTelling DEF StartSIPStack, account, locals
  <2>2. Down'
    BY <1>2 DEF StartSIPStack, Down
  <2> QED
    BY <2>1, <2>2 DEF Told
<1>3. ASSUME NEW t \in Thread, StartFails(t) PROVE Told'
  <2>1. Telling'
    BY <1>3, Who, LeaveTelling DEF StartFails, account, locals
  <2>2. Down'
    <3>1. /\ t \in Admin /\ pc'["sip"] = pc["sip"]
          /\ pc[t] = "start" /\ \A x \in Thread \ {t} : pc'[x] = pc[x]
      BY <1>3, Who, ThreadsDiffer DEF StartFails, Leave, TypeOK, Thread
    <3>2. abandoned' = (abandoned \/ pjsua # "none") /\ UNCHANGED <<cb, notified>>
      BY <1>3 DEF StartFails, account
    <3>3. ~abandoned' => pjsua = "none" /\ ~abandoned
      BY <3>2 DEF TypeOK
    <3> QED
      BY <3>1, <3>2, <3>3 DEF Told, Down
  <2> QED
    BY <2>1, <2>2 DEF Told
<1>4. ASSUME NEW t \in Thread, LoggedIn(t) PROVE Told'
  <2>1. Telling'
    BY <1>4, Who, LeaveTelling DEF LoggedIn, library, locals
  <2>2. Down'
    BY <1>4, Who, LeaveDown, ThreadsDiffer DEF LoggedIn, library, locals
  <2> QED
    BY <2>1, <2>2 DEF Told
<1>5. ASSUME NEW t \in Thread, StopSIPStack(t) PROVE Told'
  <2>1. Telling'
    BY <1>5, Who, LeaveTelling DEF StopSIPStack, library, account
  <2>2. Down'
    BY <1>5, Who, LeaveDown, ThreadsDiffer DEF StopSIPStack, library, account
  <2> QED
    BY <2>1, <2>2 DEF Told
<1>6. ASSUME NEW t \in Thread, Reset(t) PROVE Told'
  <2>1. Telling'
    BY <1>6, Who, LeaveTelling DEF Reset, library, account, locals
  <2>2. Down'
    BY <1>6, Who, LeaveDown, ThreadsDiffer DEF Reset, library, account, locals
  <2> QED
    BY <2>1, <2>2 DEF Told
<1>7. ASSUME NEW t \in Thread, Destroy(t) PROVE Told'
  <2>1. Telling'
    BY <1>7, Who, LeaveTelling DEF Destroy, account
  <2>2. Down'
    <3>1. pc'["sip"] = "idle" /\ pc'[t] = "status"
      BY <1>7, ThreadsDiffer DEF Destroy, Leave, TypeOK, Thread
    <3> QED
      BY <3>1 DEF Down
  <2> QED
    BY <2>1, <2>2 DEF Told
<1>8. ASSUME NEW t \in Thread, RegistrationState(t) PROVE Told'
  <2>1. Telling'
    <3>1. /\ pc[t] = "status" /\ pc'[t] = "notify"
          /\ userStatus'[t] = IF success[t] THEN reqStatus ELSE "OFFLINE"
          /\ \A x \in Thread \ {t} : pc'[x] = pc[x] /\ userStatus'[x] = userStatus[x]
          /\ reqStatus' = reqStatus
      BY <1>8 DEF RegistrationState, Leave, TypeOK, account
    <3>2. t \in Admin \/ t = "sip"
      BY <3>1, Who
    <3> QED
      BY <3>1, <3>2, ThreadsDiffer DEF Told, Telling, Thread
  <2>2. Down'
    <3>1. /\ pc[t] = "status" /\ pc'[t] = "notify"
          /\ \A x \in Thread \ {t} : pc'[x] = pc[x] /\ UNCHANGED <<pjsua, abandoned>>
      BY <1>8 DEF RegistrationState, Leave, TypeOK, library
    <3> QED
      BY <1>8, <3>1 DEF Told, Down, Thread, RegistrationState, library
  <2> QED
    BY <2>1, <2>2 DEF Told
<1>9. ASSUME NEW t \in Thread, NotifyCallback(t) PROVE Told'
  <2>1. Telling'
    <3>1. /\ pc[t] = "notify" /\ pc'[t] = "idle"
          /\ \A x \in Thread \ {t} : pc'[x] = pc[x] /\ userStatus'[x] = userStatus[x]
          /\ reqStatus' = reqStatus
      BY <1>9 DEF NotifyCallback, Leave, TypeOK
    <3>2. t \in Admin \/ t = "sip"
      BY <3>1, Who
    <3> QED
      BY <3>1, <3>2, ThreadsDiffer DEF Told, Telling, Thread
  <2>2. Down'
    <3>1. /\ pc[t] = "notify" /\ \A x \in Thread \ {t} : pc'[x] = pc[x]
          /\ pjsua' = pjsua /\ abandoned' = abandoned /\ cb' = cb
          /\ notified' = IF cb THEN userStatus[t] ELSE notified
      BY <1>9 DEF NotifyCallback, Leave, TypeOK, library
    <3> SUFFICES ASSUME pjsua = "none", ~abandoned
                 PROVE  pc'["sip"] = "idle" /\ (cb' => notified' # "ONLINE")
      BY <3>1 DEF Down
    <3>2. pc["sip"] = "idle" /\ t # "sip"
      BY <3>1 DEF Told, Down
    <3>3. t \in Admin /\ userStatus[t] = "OFFLINE"
      BY <3>1, <3>2, Who DEF Told, Telling
    <3> QED
      BY <3>1, <3>2, <3>3 DEF Thread
  <2> QED
    BY <2>1, <2>2 DEF Told
<1>10. ASSUME NEW t \in Thread, RmPoolData(t) PROVE Told'
  <2>1. Telling'
    BY <1>10, Who, LeaveTelling DEF RmPoolData, locals
  <2>2. Down'
    <3>1. /\ pc[t] = "rmReg" /\ \A x \in Thread \ {t} : pc'[x] = pc[x]
          /\ pjsua' = pjsua /\ abandoned' = abandoned /\ cb' = FALSE
      BY <1>10 DEF RmPoolData, Leave, TypeOK, library
    <3> QED
      BY <3>1 DEF Told, Down, Thread
  <2> QED
    BY <2>1, <2>2 DEF Told
<1>11. ASSUME NEW t \in Thread, Subscribe(t) PROVE Told'
  <2>1. Telling'
    BY <1>11, Who, LeaveTelling DEF Subscribe, account
  <2>2. Down'
    BY <1>11, Who, LeaveDown, ThreadsDiffer DEF Subscribe, account
  <2> QED
    BY <2>1, <2>2 DEF Told
<1>12. ASSUME NEW t \in Thread, Unsubscribe(t) PROVE Told'
  <2>1. Telling'
    BY <1>12, Who, LeaveTelling DEF Unsubscribe, account
  <2>2. Down'
    BY <1>12, Who, LeaveDown, ThreadsDiffer DEF Unsubscribe, account
  <2> QED
    BY <2>1, <2>2 DEF Told
<1>13. ASSUME NEW t \in App, Login(t) PROVE Told'
  <2>1. Telling'
    <3>1. /\ t \in Admin /\ pc'[t] = "start" /\ userStatus' = userStatus
          /\ \A x \in Thread \ {t} : pc'[x] = pc[x]
      BY <1>13 DEF Login, Leave, TypeOK, Thread, locals
    <3>2. \A x \in Admin : x = t
      BY <3>1 DEF OneAdmin
    <3> QED
      BY <3>1, <3>2 DEF Told, Telling, Thread
  <2>2. Down'
    BY <1>13, LeaveDown, ThreadsDiffer DEF Login, Thread, library
  <2> QED
    BY <2>1, <2>2 DEF Told
<1>14. ASSUME NEW t \in App, Logout(t) PROVE Told'
  <2>1. Telling'
    <3>1. /\ t \in Admin /\ pc'[t] = "stop" /\ userStatus' = userStatus
          /\ \A x \in Thread \ {t} : pc'[x] = pc[x] /\ reqStatus' = "OFFLINE"
      BY <1>14 DEF Logout, Leave, TypeOK, Thread, locals
    <3> QED
      BY <1>14, <3>1, ThreadsDiffer DEF Told, Telling, Thread, Logout
  <2>2. Down'
    BY <1>14, LeaveDown, ThreadsDiffer DEF Logout, Thread, library
  <2> QED
    BY <2>1, <2>2 DEF Told
<1>15. ASSUME NEW t \in App, AddRegCallback(t) PROVE Told'
  <2>1. Telling'
    BY <1>15 DEF AddRegCallback, locals, Told, Telling
  <2>2. Down'
    BY <1>15 DEF AddRegCallback, library, Told, Down
  <2> QED
    BY <2>1, <2>2 DEF Told
<1>16. ASSUME NEW t \in App, RmRegCallback(t) PROVE Told'
  <2>1. Telling'
    BY <1>16, LeaveTelling DEF RmRegCallback, library, account, locals, Thread
  <2>2. Down'
    BY <1>16, LeaveDown, ThreadsDiffer DEF RmRegCallback, library, account, locals, Thread
  <2> QED
    BY <2>1, <2>2 DEF Told
<1>17. ASSUME NEW t \in App, NEW b \in Buddy, AddBuddy(t, b) PROVE Told'
  <2>1. Telling'
    BY <1>17, LeaveTelling DEF AddBuddy, library, account, Thread
  <2>2. Down'
    BY <1>17, LeaveDown, ThreadsDiffer DEF AddBuddy, library, account, Thread
  <2> QED
    BY <2>1, <2>2 DEF Told
<1>18. ASSUME NEW t \in App, NEW b \in Buddy, RmBuddy(t, b) PROVE Told'
  <2>1. Telling'
    BY <1>18, LeaveTelling DEF RmBuddy, library, account, Thread
  <2>2. Down'
    BY <1>18, LeaveDown, ThreadsDiffer DEF RmBuddy, library, account, Thread
  <2> QED
    BY <2>1, <2>2 DEF Told
<1>19. ASSUME NEW ok \in BOOLEAN, OnRegState(ok) PROVE Told'
  <2>1. Telling'
    BY <1>19, LeaveTelling DEF OnRegState, library, account, Thread
  <2>2. Down'
    BY <1>19, LeaveDown, ThreadsDiffer DEF OnRegState, library, account, Thread
  <2> QED
    BY <2>1, <2>2 DEF Told
<1>20. ASSUME NEW i \in Id, OnBuddyState(i) PROVE Told'
  <2>1. Telling'
    BY <1>20, LeaveTelling DEF OnBuddyState, library, account, Thread
  <2>2. Down'
    BY <1>20, LeaveDown, ThreadsDiffer DEF OnBuddyState, library, account, Thread
  <2> QED
    BY <2>1, <2>2 DEF Told
<1>21. ASSUME BuddyState PROVE Told'
  <2>1. Telling'
    BY <1>21, LeaveTelling DEF BuddyState, library, account, Thread
  <2>2. Down'
    BY <1>21, LeaveDown, ThreadsDiffer DEF BuddyState, library, account, Thread
  <2> QED
    BY <2>1, <2>2 DEF Told
<1>22. ASSUME OnPager PROVE Told'
  <2>1. Telling'
    BY <1>22, LeaveTelling DEF OnPager, library, account, locals, Thread
  <2>2. Down'
    BY <1>22, LeaveDown, ThreadsDiffer DEF OnPager, library, account, locals, Thread
  <2> QED
    BY <2>1, <2>2 DEF Told
<1>23. ASSUME IsSipStackStarted PROVE Told'
  <2>1. Telling'
    BY <1>23, LeaveTelling DEF IsSipStackStarted, library, account, locals, Thread
  <2>2. Down'
    BY <1>23, LeaveDown, ThreadsDiffer DEF IsSipStackStarted, library, account, locals, Thread
  <2> QED
    BY <2>1, <2>2 DEF Told
<1>24. CASE UNCHANGED vars
  BY <1>24 DEF vars, library, account, locals, Told, Telling, Down
<1> QED
  BY <1>1, <1>2, <1>3, <1>4, <1>5, <1>6, <1>7, <1>8, <1>9, <1>10, <1>11, <1>12,
     <1>13, <1>14, <1>15, <1>16, <1>17, <1>18, <1>19, <1>20, <1>21, <1>22,
     <1>23, <1>24 DEF Next, Run, Call, Worker

\* Once the application has stopped the stack, the last status a callback was
\* told is not ONLINE.
THEOREM SpecLogoutReported ==
  ASSUME OneAdmin
  PROVE  Spec => []LogoutReported
<1>1. Sound /\ Told /\ [Next]_vars => Told'
  BY NextTold DEF Sound
<1>2. Told => LogoutReported
  BY DEF Told, Down, LogoutReported
<1> QED
  BY SpecSound, InitTold, <1>1, <1>2, PTL DEF Spec
=============================================================================
