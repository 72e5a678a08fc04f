--------------------------- MODULE MCSerialLocking ---------------------------
(* Instances of SerialLocking for TLC: who sits behind which socket.        *)
EXTENDS SerialLocking

OneEach == {<<"s1", "ann">>, <<"s2", "bob">>}
OneEachOrNone == OneEach \cup {<<"s2", NoUser>>}
=============================================================================
