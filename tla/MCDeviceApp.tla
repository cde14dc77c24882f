----------------------------- MODULE MCDeviceApp ----------------------------
(***************************************************************************)
(* The web app of one phone for TLC: two messages, of two senders or of    *)
(* the one the phone was registered with.                                  *)
(***************************************************************************)
EXTENDS DeviceApp

CONSTANTS m1, m2, s1, s2

Messages == {m1, m2}
Senders == {s1, s2}
Origins == [m \in Messages |-> IF m = m1 THEN s1 ELSE s2]
OneSender == {s1}
OneOrigin == [m \in Messages |-> s1]
=============================================================================
