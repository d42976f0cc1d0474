------------------------------ MODULE PhoneLine ------------------------------
(***************************************************************************)
(* What the call manager tells the application: one call at a time, from   *)
(* its start through its stages to its end.  A call that found the line    *)
(* busy is refused; the application may still hear of it, but only while   *)
(* no call is on the line.                                                 *)
(***************************************************************************)
EXTENDS Naturals

CONSTANTS Call, NoCall

Stage == {"calling", "incoming", "early", "connecting", "confirmed"}
Rank == [s \in Stage |-> CASE s \in {"calling", "incoming"} -> 0
                           [] s = "early" -> 1
                           [] s = "connecting" -> 2
                           [] s = "confirmed" -> 3]
Idle == [call |-> NoCall, stage |-> "none"]

VARIABLES
  line,     \* the call on the line and its stage, or Idle
  told,     \* the last thing told
  refused   \* calls that were refused and are not over yet

Init == line = Idle /\ told = Idle /\ refused = {}

Start(c) ==
  /\ line = Idle /\ c \notin refused
  /\ \E s \in {"calling", "incoming"} : line' = [call |-> c, stage |-> s]
  /\ told' = line'
  /\ UNCHANGED refused

Progress ==
  /\ line # Idle
  /\ \E s \in Stage :
       /\ Rank[s] > Rank[line.stage] \/ s = line.stage
       /\ line' = [line EXCEPT !.stage = s]
  /\ told' = line'
  /\ UNCHANGED refused

End ==
  /\ line # Idle
  /\ line' = Idle /\ told' = [line EXCEPT !.stage = "disconnected"]
  /\ UNCHANGED refused

Refuse(c) ==
  /\ line.call # c
  /\ refused' = refused \cup {c}
  /\ UNCHANGED <<line, told>>

\* Something about a refused call.
Stray(c) ==
  /\ line = Idle /\ c \in refused
  /\ \E s \in {"early", "connecting", "confirmed", "disconnected"} :
       told' = [call |-> c, stage |-> s]
  /\ UNCHANGED <<line, refused>>

Over(c) ==
  /\ refused' = refused \ {c}
  /\ UNCHANGED <<line, told>>

Next ==
  \/ \E c \in Call : Start(c) \/ Refuse(c) \/ Stray(c) \/ Over(c)
  \/ Progress \/ End

Spec == Init /\ [][Next]_<<line, told, refused>>
=============================================================================
