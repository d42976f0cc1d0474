------------------------------ MODULE MCSmkex ------------------------------
EXTENDS Smkex
NonceNames == 0..7
Both == {A, B}
OnlyA == {A}
Nobody == {}
=============================================================================
