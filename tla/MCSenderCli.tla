----------------------------- MODULE MCSenderCli -----------------------------
(* Finite instances of SenderCli for TLC. *)
EXTENDS SenderCli
=============================================================================
