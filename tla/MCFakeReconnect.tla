-------------------------- MODULE MCFakeReconnect --------------------------
(* The model of FakeReconnect that TLC checks; its constants are in the    *)
(* configuration.                                                          *)
EXTENDS FakeReconnect
=============================================================================
