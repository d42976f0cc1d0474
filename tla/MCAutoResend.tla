---------------------------- MODULE MCAutoResend ----------------------------
EXTENDS AutoResend, TLC
OneApp == {"app"}
UniqueUids == [m \in MsgId |-> m]
SmkexUids == [m \in MsgId |-> 1]      \* Smkex.cpp:90
NoInvitation == {}
FirstIsInvitation == {1}
Nothing == [b \in Budget |-> 0]
Removing == [Nothing EXCEPT !["remove"] = 1]
Disturbed == [b \in Budget |-> 1]
\* No action tells two users or two threads of the application apart.
Anyone == Permutations(User) \cup Permutations(App)
=============================================================================
