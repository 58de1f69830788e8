--------------------------- MODULE MCTerminalStream ---------------------------
(* The instance of module TerminalStream that TLC checks.                   *)
EXTENDS TerminalStream
CONSTANTS v1, v2
TwoViewers == {v1, v2}
==============================================================================
