------------------------------ MODULE MCCalls ------------------------------
EXTENDS Calls
CONSTANTS mpCall, screen
MpCallAnswers == [cb \in {mpCall} |-> 200]    \* MpCall.cpp:23
\* Another application's; see the README.
MpCallDeclines == [cb \in {mpCall} |-> 486]
Busy == [dial |-> 2, incoming |-> 2, order |-> 2, pool |-> 2]
=============================================================================
