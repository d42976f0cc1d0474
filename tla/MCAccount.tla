----------------------------- MODULE MCAccount -----------------------------
EXTENDS Account
TwoApps == {"main", "app"}
MainOnly == {"main"}
LifeCycle == [login |-> 2, logout |-> 2, buddy |-> 3, callback |-> 2,
              report |-> 1, fail |-> 1, destroy |-> 1]
OneLogout == [login |-> 1, logout |-> 1, buddy |-> 1, callback |-> 0,
              report |-> 0, fail |-> 0, destroy |-> 0]
=============================================================================
