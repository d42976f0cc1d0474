------------------------------ MODULE MCRecords ------------------------------
EXTENDS Records
\* Eight values of a byte: lengths from 8 on need their second byte.
SipSchema == <<1, 2, 3>>
ServerText == <<3, 1>>
Brackets == [open |-> 6, close |-> 7]
Serials == {<<1>>, <<1, 2, 3, 5>>, <<5, 3, 2, 1, 5, 7, 6>>}
Times == {<<0, 0, 2, 0, 0, 0, 1, 0>>, <<7, 1, 0, 5, 0, 0, 3, 0>>}
KeysAndNonces == {<<3, 0>>, <<0, 0, 5>>, <<4, 0, 1, 7, 2, 6, 0, 1, 2>>}
=============================================================================
