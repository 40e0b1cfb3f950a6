------------------------------ MODULE MCSimDisk ------------------------------
(* Two directories and a file in each; in the mixed instance a file may take *)
(* a directory's name.                                                       *)
EXTENDS SimDisk

CONSTANTS db

OneHandle == {db}
NoHandle == {}
TwoDirs == {<<>>, <<"a">>, <<"b">>, <<"a", "f">>, <<"b", "f">>}
Above == {<<>>, <<"a">>, <<"b">>}
Files == {<<"a", "f">>, <<"b", "f">>}
OneDir == {<<>>, <<"a">>, <<"a", "f">>}
AboveOne == {<<>>, <<"a">>}
Either == {<<"a">>, <<"a", "f">>}
OneByte == {1}
TwoBytes == {1, 2}
=============================================================================
