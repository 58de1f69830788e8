---------------------------- MODULE MCTaskWorktree ----------------------------
(* Calls in flight for module TaskWorktree.                                *)
EXTENDS TaskWorktree

CONSTANTS q1, q2
TwoCalls == {q1, q2}
===============================================================================
