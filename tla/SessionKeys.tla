----------------------------- MODULE SessionKeys -----------------------------
(***************************************************************************)
(* What the SMKEX handshake promises its users, without its messages: each *)
(* process of a peer has one key pair, a session key is always derived     *)
(* from a key pair of the buddy, it is never exchanged under a connected   *)
(* session, and a session is only announced as connected with a key.       *)
(***************************************************************************)
EXTENDS Integers

CONSTANTS A, B

Peer == {A, B}
Other(p) == IF p = A THEN B ELSE A

VARIABLES
  gen,   \* peer -> number of its current process
  key,   \* peer -> its session key, {} for none
  up     \* peers whose session is connected

vars == <<gen, key, up>>

Init ==
  /\ gen = [p \in Peer |-> 1]
  /\ key = [p \in Peer |-> {}]
  /\ up = {}

Derive(p) ==
  /\ p \notin up
  /\ \E i \in 1 .. gen[Other(p)] :
       key' = [key EXCEPT ![p] = {<<p, gen[p]>>, <<Other(p), i>>}]
  /\ UNCHANGED <<gen, up>>

Connect(p) ==
  /\ key[p] # {}
  /\ up' = up \cup {p}
  /\ UNCHANGED <<gen, key>>

Disconnect(p) ==
  /\ up' = up \ {p}
  /\ UNCHANGED <<gen, key>>

Restart(p) ==
  /\ gen' = [gen EXCEPT ![p] = @ + 1]
  /\ key' = [key EXCEPT ![p] = {}]
  /\ up' = up \ {p}

Next == \E p \in Peer : Derive(p) \/ Connect(p) \/ Disconnect(p) \/ Restart(p)

Spec == Init /\ [][Next]_vars
=============================================================================
