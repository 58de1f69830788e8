---------------------------- MODULE MCHeadlessRun ----------------------------
(* Model values for HeadlessRun. *)
EXTENDS HeadlessRun, TLC

CONSTANTS r1, r2, r3

ThreeInvocations == {r1, r2, r3}
TwoInvocations == {r1, r2}
Symmetry == Permutations(Invocations)
=============================================================================
