----------------------------- MODULE MCApplyGate -----------------------------
(* Model values for module ApplyGate.                                      *)
EXTENDS ApplyGate, TLC

CONSTANTS c1, c2, t, u

TwoCommands == {c1, c2}
Symmetric == Permutations(TwoCommands)
Repository == {t, u}

\* A tracked change and a new file, on paths that need an approval.
Risky == [tracked |-> {t}, untracked |-> {u}, lost |-> FALSE, findings |-> {"high"}]
SomePatches == {Risky}
==============================================================================
