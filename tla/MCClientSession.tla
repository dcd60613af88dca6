-------------------------- MODULE MCClientSession --------------------------
(* The instance of ClientSession that TLC checks.                          *)
EXTENDS ClientSession
============================================================================
