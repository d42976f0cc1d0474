------------------------------- MODULE Outbox -------------------------------
(***************************************************************************)
(* What the auto resend engine promises, without threads, locks, weights   *)
(* and retries. Every user has a queue of messages, which are numbered in  *)
(* the order they were added. One message at a time is in flight, and      *)
(* never one that was transferred before. A message overtakes an older one *)
(* of its user only if that one is parked, and messages are parked only    *)
(* with a user who could not be reached, or were so when they were loaded. *)
(* What is queued leaves by being transferred or forgotten.                *)
(***************************************************************************)
EXTENDS Naturals

CONSTANTS
  User,
  MsgId  \* numbers

VARIABLES
  queue,        \* user -> messages waiting
  parked,       \* messages not tried again for the moment
  unreachable,  \* users whose last transfer failed
  flight,       \* the message being transferred: a set with at most one element
  added, sent   \* messages ever added, and transferred

outbox == <<queue, parked, unreachable, flight, added, sent>>

Init ==
  /\ queue = [u \in User |-> {}] /\ parked = {} /\ unreachable = {}
  /\ flight = {} /\ added = {} /\ sent = {}

\* A new message, and better times for those of its user.
Add(u, m) ==
  /\ \A n \in added : n < m
  /\ added' = added \cup {m}
  /\ queue' = [queue EXCEPT ![u] = @ \cup {m}]
  /\ \E S \in SUBSET queue[u], P \in SUBSET {m} : parked' = (parked \ S) \cup P
  /\ unreachable' = unreachable \ {u}
  /\ UNCHANGED <<flight, sent>>

\* The user came online, or the application asks for another try.
Retry(u) ==
  /\ \E S \in SUBSET queue[u] : parked' = parked \ S
  /\ unreachable' = unreachable \ {u}
  /\ UNCHANGED <<queue, flight, added, sent>>

Take(u) ==
  /\ flight = {} /\ u \notin unreachable
  /\ \E m \in queue[u] :
       /\ \A n \in queue[u] : n < m => n \in parked
       /\ flight' = {[user |-> u, id |-> m]}
  /\ UNCHANGED <<queue, parked, unreachable, added, sent>>

Deliver ==
  \E f \in flight :
    /\ flight' = {} /\ sent' = sent \cup {f.id}
    /\ queue' = [queue EXCEPT ![f.user] = @ \ {f.id}]
    /\ parked' = parked \ {f.id}
    /\ UNCHANGED <<unreachable, added>>

\* The message stays in the queue, unless it was forgotten meanwhile.
Fail ==
  \E f \in flight :
    /\ flight' = {}
    /\ parked' = parked \cup ({f.id} \cap queue[f.user])
    /\ unreachable' =
         IF queue[f.user] = {} THEN unreachable ELSE unreachable \cup {f.user}
    /\ UNCHANGED <<queue, added, sent>>

GiveUp(u) ==
  /\ u \in unreachable
  /\ parked' = parked \cup queue[u]
  /\ UNCHANGED <<queue, unreachable, flight, added, sent>>

\* The result of the transfer is of no interest any more.
Abandon ==
  /\ flight' = {}
  /\ UNCHANGED <<queue, parked, unreachable, added, sent>>

Forget(u) ==
  /\ queue' = [queue EXCEPT ![u] = {}]
  /\ parked' = parked \ queue[u]
  /\ unreachable' = unreachable \ {u}
  /\ UNCHANGED <<flight, added, sent>>

Next ==
  \/ \E u \in User, m \in MsgId : Add(u, m)
  \/ \E u \in User : Retry(u) \/ Take(u) \/ GiveUp(u) \/ Forget(u)
  \/ Deliver \/ Fail \/ Abandon

Spec == Init /\ [][Next]_outbox
=============================================================================
