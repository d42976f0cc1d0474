------------------------------ MODULE Delivery ------------------------------
(***************************************************************************)
(* The engine of AutoResend with the network below it and the far ends:    *)
(* where a transfer of the slot's message is, and which messages arrived   *)
(* at each user.  It is the program's engine: nothing in it switches the   *)
(* resending of parked messages on or resends one by hand (the tests of    *)
(* the engine do; see Bound in AutoResend).                                *)
(*                                                                         *)
(* Assumed of pjsip and the network: a transfer arrives at most once (a    *)
(* server transaction absorbs retransmissions), a success is reported only *)
(* of one that arrived, and one whose failure was reported does not arrive *)
(* any more.                                                               *)
(***************************************************************************)
EXTENDS AutoResend

ASSUME NothingUnparked == Bound["toggle"] = 0 /\ Bound["resend"] = 0

VARIABLES
  transfer,  \* the last transfer of the slot's message: none, open, arrived
  offered,   \* history: user -> messages that were in its pool
  inbox      \* history: user -> messages that arrived there, in this order

deliveryVars == <<vars, transfer, offered, inbox>>

DeliveryInit ==
  /\ Init
  /\ transfer = "none"
  /\ offered = [u \in User |-> {}] /\ inbox = [u \in User |-> <<>>]

\* The user's on_pager hands the message of an open transfer on.
Arrive ==
  /\ transfer = "open" /\ transfer' = "arrived"
  /\ inbox' = [inbox EXCEPT ![slot.user] = Append(@, slot.id)]
  /\ UNCHANGED <<vars, offered>>

\* sendMessage of the transport: a transfer is open once pjsip has accepted it.
Transfers(t) ==
  /\ ScanSends(t)
  /\ transfer' = IF pending' > pending THEN "open" ELSE "none"

\* The status of a transfer; the same message may be transferred once more.
Reported(ok) ==
  /\ ok => transfer = "arrived"
  /\ OnSendMsgDone(ok)
  /\ transfer' = IF pending' = pending THEN "open" ELSE "none"

\* What neither begins nor ends a transfer.
Aside ==
  \/ \E t \in Thread :
       \/ StartEngine(t) \/ SortMessages(t)
       \/ ScanGivesUp(t) \/ ScanEnds(t) \/ Stop(t)
       \/ Erase(t)
       \/ \E u \in User, done \in BOOLEAN : SyncAdd(t, u, done)
  \/ \E t \in App : Call(t)
  \/ \E u \in User : AddMessage("sip", u) \/ BuddyOnline(u)
  \/ Callback
  \/ StopSIPStack \/ StartSIPStack

EngineStep ==
  \/ \E t \in Thread : Transfers(t)
  \/ \E ok \in BOOLEAN : Reported(ok)
  \/ Aside /\ UNCHANGED transfer

\* offered records what is in the pools.
DeliveryNext ==
  \/ Arrive
  \/ /\ EngineStep
     /\ offered' = [u \in User |->
                      offered[u] \cup {pool'[u].msgs[i].id : i \in DOMAIN pool'[u].msgs}]
     /\ UNCHANGED inbox

DeliverySpec == DeliveryInit /\ [][DeliveryNext]_deliveryVars

\* A transfer need not arrive; pjsip reports a failure if it does not.
FairDeliverySpec == DeliverySpec /\ Fairness

-----------------------------------------------------------------------------
(***************************************************************************)
(* Properties.                                                             *)
(***************************************************************************)
Arrived(m) == \E u \in User : \E i \in DOMAIN inbox[u] : inbox[u][i] = m

\* A status names no message (MpMsgTransport.cpp:37), and onSendMsgDone takes it
\* for that of the slot's message; still only messages that arrived are ever
\* reported to the application as sent, also when messages are removed, fail at
\* once or have the same uid.
SentHasArrived == \A m \in sent : Arrived(m)

\* With failures, removals, stops of the stack and pools that are given up and
\* tried again, the engine keeps a user's messages in order: a parked message
\* is never sent after a later one, and another transfer of a message that
\* arrived comes before the next.
C == INSTANCE Channel
ImplementsChannel == C!Spec
=============================================================================
