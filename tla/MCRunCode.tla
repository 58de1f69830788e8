------------------------------ MODULE MCRunCode ------------------------------
(* Model values for module RunCode.                                        *)
EXTENDS RunCode, TLC

CONSTANTS a
OnePath == {a}
=============================================================================
