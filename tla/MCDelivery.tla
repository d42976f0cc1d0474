----------------------------- MODULE MCDelivery -----------------------------
EXTENDS Delivery
OneApp == {"app"}
UniqueUids == [m \in MsgId |-> m]
FirstIsInvitation == {1}
Everyday == [b \in Budget |-> IF b = "online" THEN 1 ELSE 0]
=============================================================================
