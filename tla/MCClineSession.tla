--------------------------- MODULE MCClineSession ---------------------------
(* The instance of module ClineSession that TLC checks.                     *)
EXTENDS ClineSession
=============================================================================
