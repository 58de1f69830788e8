------------------------------- MODULE RunOnce -------------------------------
(***************************************************************************)
(* What a run id promises to the commands that name it: one of them at a   *)
(* time works on the run, at most one result is ever committed, nothing    *)
(* changes it afterwards, and whoever gets an answer gets that result.     *)
(* This is the specification that HeadlessRun implements.                  *)
(***************************************************************************)
CONSTANTS
  Clients,      \* the commands that name the run id
  Results,      \* what a run may come to
  None          \* no result

VARIABLES
  status,       \* status[c] \in {"pending", "working", "answered", "stopped"}
  outcome,      \* the committed result, or None
  answer        \* answer[c]: the result given to c, or None

vars == <<status, outcome, answer>>

Init ==
  /\ status = [c \in Clients |-> "pending"]
  /\ outcome = None
  /\ answer = [c \in Clients |-> None]

Move(c, from, to) ==
  /\ status[c] = from
  /\ status' = [status EXCEPT ![c] = to]

Begin(c) ==
  /\ \A d \in Clients : status[d] # "working"
  /\ Move(c, "pending", "working")
  /\ UNCHANGED <<outcome, answer>>

Commit(c) ==
  /\ status[c] = "working"
  /\ outcome = None
  /\ outcome' \in Results
  /\ UNCHANGED <<status, answer>>

Answer(c) ==
  /\ outcome # None
  /\ Move(c, "working", "answered")
  /\ answer' = [answer EXCEPT ![c] = outcome]
  /\ UNCHANGED outcome

Stop(c) ==
  /\ Move(c, "pending", "stopped") \/ Move(c, "working", "stopped")
  /\ UNCHANGED <<outcome, answer>>

Next == \E c \in Clients : Begin(c) \/ Commit(c) \/ Answer(c) \/ Stop(c)

Spec == Init /\ [][Next]_vars
=============================================================================
