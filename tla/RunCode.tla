------------------------------- MODULE RunCode -------------------------------
(***************************************************************************)
(* One run-code (or run_code) action of the harness-native runtime: a      *)
(* program written by the model, which calls the harness's tools and, with *)
(* the DSH-compatible presentation, also writes to the worktree itself.    *)
(*                                                                         *)
(* Concurrent actors: the program in its worker, the scheduler of nested   *)
(* calls (programmatic-tool-runtime.ts, dsh-compatible-code-runtime.ts),   *)
(* the nested calls with their budget and their events                     *)
(* (executeNestedCall of harness-native-runtime.ts), and the deadline.     *)
(* The record they leave behind decides what the completion controller     *)
(* lets pass and whether the run can be resumed (runtime-record.ts).       *)
(***************************************************************************)
EXTENDS Integers, Sequences, FiniteSets

CONSTANTS
  Kinds,                 \* the kinds of nested calls the program makes
  Paths,                 \* the files of the worktree
  MaxToolCalls,          \* policy.maxToolCalls
  MaxRejectedToolCalls,  \* policy.maxRejectedToolCalls
  MaxParallel,           \* MAX_PARALLEL_DISPATCHES
  MaxCalls,              \* bound: nested calls of the program
  MaxDirectWrites,       \* bound: writes of the program itself
  None                   \* no checkpoint, no owner, nothing verified

AllKinds == {"retrieval", "mutation", "verification", "shell", "malformed"}

ASSUME BoundsAssumption ==
  /\ Kinds \subseteq AllKinds
  /\ MaxToolCalls \in Nat \ {0}
  /\ MaxRejectedToolCalls \in Nat \ {0}
  /\ MaxParallel \in Nat \ {0}
  /\ MaxCalls \in Nat
  /\ MaxDirectWrites \in Nat

\* The contents of a file: what it was before, what nested call n wrote, what
\* the program wrote.
Original == 0
Program  == MaxCalls + 1
Contents == 0 .. MaxCalls + 1
Trees    == [Paths -> Contents]
Untouched == [p \in Paths |-> Original]

ASSUME NoneAssumption == None \notin Contents /\ None \notin Trees

VARIABLES
  presentation,       \* policy.toolPresentation, of a composition
  stage,              \* how far the action is
  outcome,            \* how the program ended
  deadline,           \* options.signal is aborted
  calls,              \* the nested calls, in submission order
  toolCalls,          \* accepted tool calls
  rejectedToolCalls,  \* rejected tool calls
  terminal,           \* compositionTerminalReason
  tree,               \* the worktree
  owned,              \* nestedOwnedSurfaceHashes
  envelope,           \* the tool-result of the action itself, and its checkpoint
  lastMutation,       \* action of the record's last mutation result, 0: this one
  obligation,         \* deriveHarnessNativeCompletionCheckpoint of the record
  verified,           \* the worktree at the record's last verification
  directWrites,       \* writes of the program so far
  orphan              \* a subprocess of the program outlives its host

program  == <<directWrites, orphan>>
counters == <<toolCalls, rejectedToolCalls, terminal>>
facts    == <<lastMutation, obligation, verified>>
vars == <<presentation, stage, outcome, deadline, calls, counters, tree, owned,
          envelope, facts, program>>

\* The DSH-compatible one, with a scheduler; the other one is "code".
Dsh == presentation = "dsh-compatible"

------------------------------------------------------------------------------
(* The kinds of data.                                                      *)

Stages == {"running", "draining", "terminating", "collecting", "recording",
           "sealing", "over", "unconfirmed", "crashed"}
Outcomes == {"none", "returned", "threw", "wall", "aborted"}

\* A nested call is pending in the scheduler or queued behind a mutation, it
\* runs (a mutation past its last look at the signal is writing), its result is
\* counted, then logged, it is settled, and its reply is delivered.
Waiting  == {"pending", "queued"}
Active   == {"running", "writing", "counted", "logged"}
Finished == {"settled", "delivered"}

Statuses == {"none", "ok", "rejected", "error",  \* of its tool-result
             "refused",     \* rejected by the budget before it was dispatched
             "lost",        \* dispatched, and threw
             "abandoned",   \* the program was over before it was dispatched
             "invalid"}     \* its arguments have no canonical call

Call == [kind : Kinds, path : Paths \cup {None}, at : Waiting \cup Active \cup Finished,
         status : Statuses, wrote : BOOLEAN, seal : Trees \cup {None}]

Envelope == [status : {"none", "ok", "error"}, affected : SUBSET Paths,
             seal : Trees \cup {None}]

Terminals == {"none", "tool-limit", "rejected-tool-limit"}

Init ==
  /\ presentation \in {"code", "dsh-compatible"}
  /\ stage = "running"
  /\ outcome = "none"
  /\ deadline = FALSE
  /\ calls = <<>>
  /\ toolCalls = 0
  /\ rejectedToolCalls = 0
  /\ terminal = "none"
  /\ tree = Untouched
  /\ owned = [p \in Paths |-> None]
  /\ envelope = [status |-> "none", affected |-> {}, seal |-> None]
  /\ lastMutation = None
  /\ obligation = "none"
  /\ verified = None
  /\ directWrites = 0
  /\ orphan = FALSE

Ids == 1 .. Len(calls)

\* The signal a nested call looks at: the scheduler's own, which any end of the
\* program aborts, or the agent's together with the wall clock's.
Stopped == IF Dsh THEN outcome # "none" ELSE deadline \/ outcome = "wall"

------------------------------------------------------------------------------
(* The budget and the record.                                              *)

\* nestedReservations: held from admission to the end of the checkpoint.
Reserved == {n \in Ids : calls[n].at \in {"queued"} \cup Active}

\* Mutant: calls under way are not reserved.
BudgetLeft_Unreserved == toolCalls < MaxToolCalls

BudgetLeft == toolCalls + Cardinality(Reserved) < MaxToolCalls

\* A call settles; without a scheduler its reply is sent at once.
AtEnd == IF Dsh THEN "settled" ELSE "delivered"

\* The facts of a mutating tool's result say "mutation", rejected or not, unless
\* the path did not exist.
MutationFacts(n, status) == calls[n].kind = "mutation" /\ status # "error"

\* The result of a mutating action n in the record: a successful one makes the
\* completion controller's fold of the record ask for a verification.
LogMutation(n, status) ==
  /\ lastMutation' = n
  /\ obligation' = IF status = "ok" THEN "verification-due" ELSE obligation
  /\ UNCHANGED verified

Place(n, call) ==
  calls' = IF n \in Ids THEN [calls EXCEPT ![n] = call] ELSE Append(calls, call)

NewCall(kind, path, at, status) ==
  [kind |-> kind, path |-> path, at |-> at, status |-> status,
   wrote |-> FALSE, seal |-> None]

\* executeNestedCall up to its first await: the call is rejected by the budget,
\* and recorded with its facts but without a checkpoint, or it is dispatched.
Dispatch(n, kind, path) ==
  \/ /\ ~BudgetLeft
     /\ Place(n, NewCall(kind, path, AtEnd, "refused"))
     /\ rejectedToolCalls' = rejectedToolCalls + 1
     /\ terminal' = "tool-limit"
     /\ lastMutation' = IF kind = "mutation" THEN n ELSE lastMutation
     /\ UNCHANGED <<toolCalls, obligation, verified>>
  \/ /\ BudgetLeft
     /\ Place(n, NewCall(kind, path,
          IF ~Dsh /\ kind = "mutation" THEN "queued" ELSE "running", "none"))
     /\ UNCHANGED <<counters, facts>>

------------------------------------------------------------------------------
(* The program.                                                            *)

\* A call reaches the harness while the composition is not closing.  The
\* scheduler queues it; without one it is dispatched at once.  Arguments that
\* no canonical call corresponds to are an error reply of the latter.
SubmitCall(kind, path) ==
  /\ stage = "running"
  /\ Len(calls) < MaxCalls
  /\ IF Dsh
     THEN /\ Place(Len(calls) + 1, NewCall(kind, path, "pending", "none"))
          /\ UNCHANGED <<counters, facts>>
     ELSE IF kind = "malformed"
     THEN /\ Place(Len(calls) + 1, NewCall(kind, path, "delivered", "invalid"))
          /\ UNCHANGED <<counters, facts>>
     ELSE Dispatch(Len(calls) + 1, kind, path)
  /\ UNCHANGED <<stage, outcome, deadline, tree, owned, envelope, program>>

\* A run_code program has the file system of its host process until that process
\* is gone, and so has a subprocess it left behind.
WriteDirectly(p, c) ==
  /\ Dsh
  /\ stage \in {"running", "draining", "terminating", "unconfirmed"} \/ orphan
  /\ directWrites < MaxDirectWrites
  /\ c # tree[p]
  /\ tree' = [tree EXCEPT ![p] = c]
  /\ directWrites' = directWrites + 1
  /\ UNCHANGED <<stage, outcome, deadline, calls, counters, owned, envelope,
                 facts, orphan>>

\* The program returns, throws (or exceeds its output, or its host exits), or
\* exceeds its wall time.
EndProgram(how) ==
  /\ stage = "running"
  /\ outcome' = how
  /\ stage' = "draining"
  /\ UNCHANGED <<deadline, calls, counters, tree, owned, envelope, facts,
                 program>>

\* The agent's deadline, which ends the program if nothing else has.
Deadline ==
  /\ ~deadline
  /\ stage \notin {"over", "unconfirmed", "crashed"}
  /\ deadline' = TRUE
  /\ IF stage = "running"
     THEN outcome' = "aborted" /\ stage' = "draining"
     ELSE UNCHANGED <<outcome, stage>>
  /\ UNCHANGED <<calls, counters, tree, owned, envelope, facts, program>>

------------------------------------------------------------------------------
(* The DSH scheduler.                                                      *)

First(n) == calls[n].at = "pending" /\ \A m \in 1 .. n - 1 : calls[m].at # "pending"

Exclusive(n) == calls[n].kind # "retrieval"

InFlight == {n \in Ids : calls[n].at \in Active}
ExclusiveActive ==
  \E n \in Ids : Exclusive(n) /\ calls[n].at \in Active \cup {"settled"}

\* Mutant: an exclusive call does not wait for the parallel ones before it.
Capacity_Exclusive(n) ==
  /\ ~ExclusiveActive
  /\ Cardinality(InFlight) < MaxParallel

Capacity(n) ==
  /\ ~ExclusiveActive
  /\ IF Exclusive(n) THEN InFlight = {} ELSE Cardinality(InFlight) < MaxParallel

StartCall(n) ==
  /\ First(n)
  /\ ~Stopped
  /\ calls[n].kind # "malformed"
  /\ Capacity(n)
  /\ Dispatch(n, calls[n].kind, calls[n].path)
  /\ UNCHANGED <<stage, outcome, deadline, tree, owned, envelope, program>>

\* executionMode throws inside the scheduler's driver, whose promise nobody
\* handles: the process ends.
ClassifyMalformed(n) ==
  /\ First(n)
  /\ ~Stopped
  /\ calls[n].kind = "malformed"
  /\ stage' = "crashed"
  /\ UNCHANGED <<outcome, deadline, calls, counters, tree, owned, envelope,
                 facts, program>>

\* Mutant: the calls still pending at the end of the program are forgotten.
AbandonCall_Missing(n) == FALSE

\* A call that was pending when the program ended is not dispatched any more.
AbandonCall(n) ==
  /\ First(n)
  /\ Stopped
  /\ calls' = [calls EXCEPT ![n].at = "delivered", ![n].status = "abandoned"]
  /\ UNCHANGED <<stage, outcome, deadline, counters, tree, owned, envelope,
                 facts, program>>

\* Replies are committed in submission order.
DeliverReply(n) ==
  /\ calls[n].at = "settled"
  /\ \A m \in 1 .. n - 1 : calls[m].at = "delivered"
  /\ calls' = [calls EXCEPT ![n].at = "delivered"]
  /\ UNCHANGED <<stage, outcome, deadline, counters, tree, owned, envelope,
                 facts, program>>

------------------------------------------------------------------------------
(* A nested call.                                                          *)

\* mutationQueue, of the presentation without a scheduler.
FirstInQueue(n) ==
  \A m \in 1 .. n - 1 : calls[m].kind = "mutation" => calls[m].at = "delivered"

LeaveQueue(n) ==
  /\ calls[n].at = "queued"
  /\ FirstInQueue(n)
  /\ calls' = [calls EXCEPT ![n].at = "running"]
  /\ UNCHANGED <<stage, outcome, deadline, counters, tree, owned, envelope,
                 facts, program>>

\* A mutating tool looks at the signal for the last time, and writes.
BeginWrite(n) ==
  /\ calls[n].at = "running"
  /\ calls[n].kind = "mutation"
  /\ ~Stopped
  /\ calls' = [calls EXCEPT ![n].at = "writing"]
  /\ UNCHANGED <<stage, outcome, deadline, counters, tree, owned, envelope,
                 facts, program>>

\* Mutant: a rejected result is also charged to the tool budget.
CountResult_Both(status) ==
  /\ toolCalls' = toolCalls + 1
  /\ rejectedToolCalls' = IF status = "rejected" THEN rejectedToolCalls + 1
                          ELSE rejectedToolCalls

\* A rejected result does not reduce the tool budget, it has its own.
CountResult(status) ==
  IF status = "rejected"
  THEN rejectedToolCalls' = rejectedToolCalls + 1 /\ UNCHANGED toolCalls
  ELSE toolCalls' = toolCalls + 1 /\ UNCHANGED rejectedToolCalls

\* A mutating tool has returned: its result is logged at once, or after the
\* mutation surface is captured.
ReturnMutation(n, status) ==
  LET at == IF ~MutationFacts(n, status) THEN AtEnd
            ELSE IF Dsh THEN "counted" ELSE "logged"
  IN  /\ CountResult(status)
      /\ calls' = [calls EXCEPT ![n].at = at, ![n].status = status,
                                ![n].wrote = (status = "ok")]
      /\ IF at = "logged" THEN LogMutation(n, status) ELSE UNCHANGED facts
      /\ UNCHANGED terminal

WriteFile(n) ==
  /\ calls[n].at = "writing"
  /\ tree' = [tree EXCEPT ![calls[n].path] = n]
  /\ ReturnMutation(n, "ok")
  /\ UNCHANGED <<stage, outcome, deadline, owned, envelope, program>>

\* The workspace policy or the signal rejects a mutation, or its path is missing.
RejectMutation(n) ==
  /\ calls[n].at = "running"
  /\ calls[n].kind = "mutation"
  /\ \E status \in {"rejected", "error"} : ReturnMutation(n, status)
  /\ UNCHANGED <<stage, outcome, deadline, tree, owned, envelope, program>>

\* A path this call wrote is owned by the nested calls, with what is in it now.
CaptureSurface(n) ==
  /\ calls[n].at = "counted"
  /\ owned' = IF calls[n].wrote
              THEN [owned EXCEPT ![calls[n].path] = tree[calls[n].path]]
              ELSE owned
  /\ calls' = [calls EXCEPT ![n].at = "logged"]
  /\ LogMutation(n, calls[n].status)
  /\ UNCHANGED <<stage, outcome, deadline, counters, tree, envelope, program>>

\* The rejected calls end the attempt when there are too many of them.
TerminalAfter(status, rejected) ==
  IF status = "rejected" /\ rejected >= MaxRejectedToolCalls
  THEN "rejected-tool-limit" ELSE terminal

\* Mutant: no checkpoint is taken once the signal is aborted.
SealMutation_Aborted(n) ==
  /\ calls[n].at = "logged"
  /\ calls' = [calls EXCEPT ![n].at = AtEnd,
                            ![n].seal = IF Stopped THEN None ELSE tree]
  /\ terminal' = TerminalAfter(calls[n].status, rejectedToolCalls)
  /\ UNCHANGED <<stage, outcome, deadline, toolCalls, rejectedToolCalls, tree,
                 owned, envelope, facts, program>>

\* The worktree-checkpoint of a nested mutation, whatever the signal says.
SealMutation(n) ==
  /\ calls[n].at = "logged"
  /\ calls' = [calls EXCEPT ![n].at = AtEnd, ![n].seal = tree]
  /\ terminal' = TerminalAfter(calls[n].status, rejectedToolCalls)
  /\ UNCHANGED <<stage, outcome, deadline, toolCalls, rejectedToolCalls, tree,
                 owned, envelope, facts, program>>

\* A command (a shell, a verification) may write anywhere while it runs.
Command(n) == calls[n].kind \in {"verification", "shell"}

CommandWrites(n, p) ==
  /\ calls[n].at = "running"
  /\ Command(n)
  /\ ~calls[n].wrote
  /\ tree' = [tree EXCEPT ![p] = n]
  /\ calls' = [calls EXCEPT ![n].wrote = TRUE]
  /\ UNCHANGED <<stage, outcome, deadline, counters, owned, envelope, facts,
                 program>>

\* Any other tool returns: counted, logged and settled in one go.  Only a
\* verification that ran says something about the obligation.
ReturnOther(n, status) ==
  /\ calls[n].at = "running"
  /\ calls[n].kind # "mutation"
  /\ CountResult(status)
  /\ calls' = [calls EXCEPT ![n].at = AtEnd, ![n].status = status]
  /\ terminal' = TerminalAfter(status, rejectedToolCalls')
  /\ IF calls[n].kind = "verification" /\ status = "ok"
     THEN obligation' \in {"none", "repair-due"} /\ verified' = tree
     ELSE UNCHANGED <<obligation, verified>>
  /\ UNCHANGED <<stage, outcome, deadline, tree, owned, envelope, lastMutation,
                 program>>

\* An aborted command whose process tree cannot be confirmed dead throws: the
\* dispatch has no result, and the composition takes it for a failed call.
LoseCommand(n) ==
  /\ calls[n].at = "running"
  /\ Command(n)
  /\ Stopped
  /\ calls' = [calls EXCEPT ![n].at = AtEnd, ![n].status = "lost"]
  /\ UNCHANGED <<stage, outcome, deadline, counters, tree, owned, envelope,
                 facts, program>>

------------------------------------------------------------------------------
(* The end of the action.                                                  *)

Drained == \A n \in Ids : calls[n].at = "delivered"

\* drain, or allSettled of the flights.
Drain ==
  /\ stage = "draining"
  /\ Drained
  /\ stage' = IF Dsh THEN "terminating" ELSE "collecting"
  /\ UNCHANGED <<outcome, deadline, calls, counters, tree, owned, envelope,
                 facts, program>>

\* The host process is gone, or its end cannot be confirmed and the runtime
\* fails closed.  Only after an abort or at the wall clock are its subprocesses
\* terminated with it.
TerminateHost ==
  /\ stage = "terminating"
  /\ stage' \in {"collecting", "unconfirmed"}
  /\ orphan' \in IF outcome \in {"returned", "threw"}
                 THEN BOOLEAN ELSE {FALSE}
  /\ UNCHANGED <<outcome, deadline, calls, counters, tree, owned, envelope,
                 facts, directWrites>>

\* collectDirectAffectedPaths: the paths that changed, except those that are as
\* a nested mutation left them.
DirectlyAffected ==
  IF Dsh THEN {p \in Paths : tree[p] # Original /\ tree[p] # owned[p]} ELSE {}

\* A program that failed under the deadline is not looked at.
Collect ==
  /\ stage = "collecting"
  /\ envelope' = [envelope EXCEPT
       !.status = IF outcome = "returned" THEN "ok" ELSE "error",
       !.affected = IF outcome # "returned" /\ deadline THEN {}
                    ELSE DirectlyAffected]
  /\ stage' = "recording"
  /\ UNCHANGED <<outcome, deadline, calls, counters, tree, owned, facts,
                 program>>

\* The tool-result of the action.  A mutation is sealed, unless the signal is
\* aborted.
RecordResult ==
  /\ stage = "recording"
  /\ IF envelope.affected # {}
     THEN LogMutation(0, envelope.status)
     ELSE UNCHANGED facts
  /\ stage' = IF envelope.affected # {} /\ ~deadline THEN "sealing" ELSE "over"
  /\ UNCHANGED <<outcome, deadline, calls, counters, tree, owned, envelope,
                 program>>

SealResult ==
  /\ stage = "sealing"
  /\ envelope' = [envelope EXCEPT !.seal = tree]
  /\ stage' = "over"
  /\ UNCHANGED <<outcome, deadline, calls, counters, tree, owned, facts,
                 program>>

Results(statuses) == {n \in Ids : calls[n].status \in statuses}

\* deriveHarnessNativeResourceLedger, of the results in the record.  That of the
\* action says countsTowardToolBudget: false.
LedgerToolCalls == Cardinality(Results({"ok", "error"}))

LedgerRejectedToolCalls == Cardinality(Results({"rejected", "refused"}))

------------------------------------------------------------------------------

\* What the program and the clock may do.
Environment ==
  \/ \E kind \in Kinds \ {"mutation"} : SubmitCall(kind, None)
  \/ "mutation" \in Kinds /\ \E p \in Paths : SubmitCall("mutation", p)
  \/ \E p \in Paths : \E c \in {Original, Program, owned[p]} \ {None} :
       WriteDirectly(p, c)
  \/ \E how \in {"returned", "threw"} : EndProgram(how)
  \/ \E n \in Ids, p \in Paths : CommandWrites(n, p)
  \/ Deadline

\* The process is running (it has not died of an unhandled rejection), with the
\* presentation of its task.
Running == stage # "crashed" /\ UNCHANGED presentation

Nested(n) ==
  \/ StartCall(n) \/ ClassifyMalformed(n) \/ AbandonCall(n) \/ DeliverReply(n)
  \/ LeaveQueue(n) \/ BeginWrite(n) \/ RejectMutation(n) \/ CaptureSurface(n)
  \/ SealMutation(n) \/ LoseCommand(n)
  \/ WriteFile(n)
  \/ \E status \in {"ok", "rejected"} : ReturnOther(n, status)

Finish == Drain \/ TerminateHost \/ Collect \/ RecordResult \/ SealResult

Next ==
  /\ Running
  /\ \/ Environment
     \/ EndProgram("wall")
     \/ \E n \in Ids : Nested(n)
     \/ Finish

Spec == Init /\ [][Next]_vars

\* Tools and commands have time limits of their own, the program has its wall
\* clock, and the promises of the harness are run.
Fairness ==
  /\ WF_vars(Running /\ EndProgram("wall"))
  /\ \A n \in 1 .. MaxCalls : WF_vars(n \in Ids /\ Running /\ Nested(n))
  /\ WF_vars(Running /\ Finish)

FairSpec == Spec /\ Fairness
------------------------------------------------------------------------------
(* Properties.                                                             *)

\* Types.  No nested call is counted twice, whichever budget it is charged to.
TypeOK ==
  /\ presentation \in {"code", "dsh-compatible"}
  /\ stage \in Stages
  /\ outcome \in Outcomes
  /\ deadline \in BOOLEAN
  /\ calls \in Seq(Call)
  /\ Len(calls) <= MaxCalls
  /\ toolCalls \in Nat
  /\ rejectedToolCalls \in Nat
  /\ toolCalls + rejectedToolCalls <= MaxCalls
  /\ terminal \in Terminals
  /\ tree \in Trees
  /\ owned \in [Paths -> Contents \cup {None}]
  /\ envelope \in Envelope
  /\ lastMutation \in 0 .. MaxCalls \cup {None}
  /\ obligation \in {"none", "verification-due", "repair-due"}
  /\ verified \in Trees \cup {None}
  /\ directWrites \in 0 .. MaxDirectWrites
  /\ orphan \in BOOLEAN

\* However many nested calls are under way, the accepted ones stay within the
\* budget that each of them saw before it was dispatched.
BudgetHolds == toolCalls <= MaxToolCalls

\* A resumed attempt derives from the record of the composition the counters with
\* which the live attempt went on: no result is lost, or charged to a budget that
\* the runtime did not charge.
LedgerAgrees ==
  stage = "over" => /\ rejectedToolCalls = LedgerRejectedToolCalls
                    /\ toolCalls = LedgerToolCalls

\* Each nested call is charged once: before it runs, and in the record.
CallsAreAccounted == BudgetHolds /\ LedgerAgrees

\* Calls that exclude each other run one after the other, in the order in which
\* the program made them: with a scheduler every call that is not a retrieval
\* excludes all others, without one mutations exclude each other.
InSubmissionOrder ==
  \A m \in Ids : \A n \in 1 .. m - 1 :
    /\ calls[m].at \in Active
    /\ IF Dsh THEN Exclusive(n) \/ Exclusive(m)
       ELSE calls[n].kind = "mutation" /\ calls[m].kind = "mutation"
    => calls[n].at \in Finished

\* A program may put a file back to what the harness takes for its own work.
Restored(p) == Dsh /\ tree[p] \in {Original, owned[p]}

\* Without a surface to compare with, what a command writes is not noticed.
Unattributed == ~Dsh /\ \E n \in Ids : Command(n) /\ calls[n].wrote

\* What a resume compares the worktree with.
Checkpoint == CASE lastMutation = None -> Untouched
                [] lastMutation = 0    -> envelope.seal
                [] OTHER               -> calls[lastMutation].seal

\* The action leaves a record from which the run can be resumed: the last
\* mutation in it has a checkpoint, and that is the worktree.  The exceptions are
\* the deadline, a subprocess the program left behind, a mutation that the budget
\* refused, and what is not noticed.
Resumable ==
  /\ stage = "over"
  /\ ~deadline
  /\ ~orphan
  /\ ~ \E n \in Ids : calls[n].kind = "mutation" /\ calls[n].status = "refused"
  /\ ~Unattributed
  => /\ Checkpoint # None
     /\ \A p \in Paths : tree[p] = Checkpoint[p] \/ Restored(p)

\* When a successful action leaves no obligation to verify, the worktree is what
\* the last verification ended with: no write of the program, of a command or of
\* a nested mutation came after it unnoticed.
VerificationIsCurrent ==
  /\ stage = "over"
  /\ outcome = "returned"
  /\ ~orphan
  /\ ~Unattributed
  /\ obligation = "none"
  /\ verified # None
  => \A p \in Paths : tree[p] = verified[p] \/ Restored(p)

\* What the record says of the worktree, for a resume and of its verification,
\* is what the worktree is.
WorktreeIsKnown == Resumable /\ VerificationIsCurrent

\* The action comes to an end, whatever the program does: its result is recorded,
\* or the runtime fails closed, or the process is gone.
CompositionEnds == <>(stage \in {"over", "unconfirmed", "crashed"})
=============================================================================
