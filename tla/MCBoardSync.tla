---------------------------- MODULE MCBoardSync ----------------------------
(* The board of one workspace, its pages and a command, on a small instance. *)
EXTENDS BoardSync
=============================================================================
