-------------------------- MODULE MCTerminalSession --------------------------
(* The scenarios of module TerminalSession that TLC checks.                 *)
EXTENDS TerminalSession

Task(s, c, t, p) ==
    [kind |-> "task", starts |-> s, captures |-> c, time |-> t, prompts |-> p]

\* Restarts over time, prompts on the screen of two overlapping starts,
\* checkpoints over three turns, and a shell.
AllScenarios ==
    {Task(3, 0, 2, FALSE), Task(2, 0, 0, TRUE), Task(2, 3, 0, FALSE),
     [kind |-> "shell", starts |-> 3, captures |-> 0, time |-> 0, prompts |-> FALSE]}
==============================================================================
