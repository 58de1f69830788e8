----------------------------- MODULE MCTaskBoard -----------------------------
(***************************************************************************)
(* Two tasks of one board page, the second perhaps waiting for the first.  *)
(***************************************************************************)
EXTENDS TaskBoard

CONSTANTS a, b

MCTasks == {a, b}
MCLayouts == {[t \in MCTasks |-> IF t = a THEN c ELSE "backlog"] : c \in {"backlog", "review"}}
MCLinks == {{<<b, a>>}}
MCAutos == {{a}}
MCTerminals == {a}

=============================================================================
