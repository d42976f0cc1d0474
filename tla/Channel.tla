------------------------------- MODULE Channel -------------------------------
(***************************************************************************)
(* What the handshake is promised of the messages below it                 *)
(* (src/smkex/src/Smkex.cpp, between sendKeyOrNonce and onMsgReceived): a  *)
(* user's messages arrive in the order they were offered.  Some never do,  *)
(* and one whose acknowledgement is lost arrives more than once, but never *)
(* after a later one.                                                      *)
(***************************************************************************)
EXTENDS Naturals, Sequences

CONSTANTS User,   \* whom messages are for
          MsgId   \* the messages, numbers in the order they are offered

VARIABLES
  offered,  \* user -> messages given away for it so far
  inbox     \* user -> messages that arrived there, in the order they did

channel == <<offered, inbox>>

Init ==
  /\ offered = [u \in User |-> {}]
  /\ inbox = [u \in User |-> <<>>]

Offer(u, m) ==
  /\ \A w \in User : \A k \in offered[w] : k < m
  /\ offered' = [offered EXCEPT ![u] = @ \cup {m}]
  /\ UNCHANGED inbox

\* A message that m has passed does not arrive any more.
Overtakes(m, box) == \A i \in DOMAIN box : box[i] <= m

Arrive(u, m) ==
  /\ m \in offered[u] /\ Overtakes(m, inbox[u])
  /\ inbox' = [inbox EXCEPT ![u] = Append(@, m)]
  /\ UNCHANGED offered

Next == \E u \in User, m \in MsgId : Offer(u, m) \/ Arrive(u, m)

Spec == Init /\ [][Next]_channel
=============================================================================
