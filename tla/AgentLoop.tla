------------------------------ MODULE AgentLoop ------------------------------
(***************************************************************************)
(* One attempt of the harness-native runtime (runHarnessNativeRuntime): the *)
(* model is asked what to do, its tool calls are carried out one after the  *)
(* other, a planner may revise the plan, and a finish is accepted or put    *)
(* off.  Every step is written to the runtime record before the next one;   *)
(* a process that opens the record later goes on with the attempt.          *)
(*                                                                         *)
(* The code runs on one thread.  Between two awaits it appends a few events *)
(* to the record, each of them durable: `writing' holds the ones a stretch  *)
(* of code appends before the next await, and a crash keeps any prefix.     *)
(***************************************************************************)
EXTENDS Integers, Sequences, FiniteSets, SequencesExt

CONSTANTS
  MaxToolCalls,           \* policy.maxToolCalls
  MaxRejectedToolCalls,   \* policy.maxRejectedToolCalls
  MaxProtocolRecoveries,  \* policy.maxProtocolRecoveries
  MaxCompletionDeferrals, \* policy.maxCompletionDeferrals
  MaxPlanRevisions,       \* policy.maxPlanRevisions
  RepeatCount,            \* REPEATED_ACTION_OBSERVATION_COUNT and .._ERROR_COUNT
  AlternateCount,         \* ALTERNATING_ACTION_OBSERVATION_COUNT
  Setups,                 \* the configurations of an attempt
  MaxCrashes              \* bound: crashes of the process

ASSUME PolicyAssumption ==
  /\ MaxToolCalls \in Nat \ {0}
  /\ MaxRejectedToolCalls \in Nat \ {0}
  /\ MaxProtocolRecoveries \in Nat
  /\ MaxCompletionDeferrals \in Nat \ {0}
  /\ MaxPlanRevisions \in Nat \ {0}
  /\ RepeatCount \in Nat \ {0}
  /\ AlternateCount \in Nat \ (0 .. 2)

ASSUME CrashesAssumption == MaxCrashes \in Nat

VARIABLES
  setup,    \* the configuration of the attempt
  at,       \* where the process is
  aborted,  \* options.signal is aborted: the wall deadline of this process
  m,        \* what the process remembers
  writing,  \* events the present stretch of code appends
  events,   \* the attempt's part of the runtime record
  tree,     \* the worktree, as its fingerprint
  crashes   \* crashes so far

vars == <<setup, at, aborted, m, writing, events, tree, crashes>>

------------------------------------------------------------------------------
(* The kinds of data.                                                      *)

Kinds == {"retrieval", "mutation", "verification", "composition"}

\* A repair follows an attempt that is in the same record, if that is durable.
\* `answers' bounds the sequences of tool calls the model asks for.
ASSUME SetupsAssumption ==
  \A s \in Setups :
    /\ s.presentation \in {"native", "code"}
    /\ {s.planner, s.verification, s.durable, s.repair} \subseteq BOOLEAN
    /\ s.maxIterations \in Nat \ {0}
    /\ s.answers \subseteq Seq(Kinds) \ {<<>>}

\* Where the code awaits the provider, a tool, a fingerprint, the planner, the
\* end of cancelled work; where it does not; and where the process is gone.
Awaiting == {"start", "deciding", "executing", "checkpointing", "planning", "cancelling"}
Between  == {"iterate", "refusing", "tools", "settling"}
Gone     == {"over", "threw", "refused", "down"}

\* What a tool's result tells: `facts' is the kind of its facts.
Result(kind, status, outcome, facts) ==
  [kind |-> kind, status |-> status, outcome |-> outcome, facts |-> facts]

\* The results executeTool has for a call.
Results(kind) ==
  CASE kind = "retrieval" ->
         {Result(kind, s, "none", kind) : s \in {"ok", "error", "rejected"}}
    [] kind = "mutation" ->
         {Result(kind, s, "none", kind) : s \in {"ok", "rejected"}}
           \cup {Result(kind, "error", "none", "other")}
    [] kind = "verification" ->
         {Result(kind, "ok", o, kind) : o \in {"passed", "failed"}}
           \cup {Result(kind, "rejected", "not-run", kind)}
    [] OTHER -> {}

NoResult == Result("none", "none", "none", "none")

\* A plan is known by the kind of the step in progress; exactly one step is,
\* unless all are completed.
Steps == {"diagnosis", "implementation"}
Plans == Steps \cup {"completed"}

NoStep == [revision |-> 0]

Fresh ==
  [iterations |-> 0, toolCalls |-> 0, rejectedToolCalls |-> 0, protocolRecoveries |-> 0,
   completionDeferrals |-> 0, consecutive |-> 0, modelCalls |-> 0, recoveries |-> 0,
   requests |-> <<>>, index |-> 0, result |-> NoResult, terminal |-> "none",
   trigger |-> "none", revisions |-> <<>>, step |-> NoStep, seen |-> FALSE]

------------------------------------------------------------------------------
(* The events, with the fields something is derived from.                  *)

Started == [type |-> "attempt-started",
            phase |-> IF setup.durable /\ setup.repair THEN "attempt-continuation"
                      ELSE IF setup.repair THEN "public-verification-repair" ELSE "initial"]
CallStarted(call)            == [type |-> "model-call-started", call |-> call]
CallCompleted(call, outcome) == [type |-> "model-call-completed", call |-> call, outcome |-> outcome]
Recovery(call, disposition)  == [type |-> "protocol-recovery", iteration |-> call.iteration,
                                 owner |-> call.owner, disposition |-> disposition]
Evaluated(disposition)       == [type |-> "completion-evaluated", disposition |-> disposition]
Dispatched(action, kind)     == [type |-> "tool-dispatched", action |-> action, kind |-> kind]
ToolResult(action, r, observed, visible, counts) ==
  [type |-> "tool-result", action |-> action, r |-> r, observed |-> observed,
   visible |-> visible, counts |-> counts]
WorktreeCheckpoint(action, t) == [type |-> "worktree-checkpoint", action |-> action, tree |-> t]
PlanRevised(plan, trigger)    == [type |-> "plan-revised", plan |-> plan, trigger |-> trigger]
Ended(reason)                 == [type |-> "attempt-ended", reason |-> reason]

OfType(type) == {i \in DOMAIN events : events[i].type = type}

\* The identities of a model call, and of the tool call that is under way.
CallId(owner, iteration, ordinal) ==
  [owner |-> owner, iteration |-> iteration, ordinal |-> ordinal]
Action == [iteration |-> m.iterations, index |-> m.index, nested |-> 0]
NestedAction == [Action EXCEPT !.nested = 1]

------------------------------------------------------------------------------
(* What is derived from the record.                                        *)

\* deriveHarnessNativeResourceLedger.
ToolResults(rejected) ==
  {i \in OfType("tool-result") : events[i].counts /\ (events[i].r.status = "rejected") = rejected}

\* Mutant: calls the model does not see are not counted again.
BudgetedToolCalls_Visible ==
  Cardinality({i \in ToolResults(FALSE) : events[i].visible})

BudgetedToolCalls == Cardinality(ToolResults(FALSE))

\* Mutant: an iteration counts when the model has answered.
ExecutorIterations_Answered ==
  Cardinality({events[i].call.iteration : i \in
     {j \in OfType("model-call-completed") :
        events[j].call.owner = "executor" /\ events[j].outcome = "succeeded"}})

ExecutorIterations ==
  Cardinality({events[i].call.iteration : i \in
     {j \in OfType("model-call-started") : events[j].call.owner = "executor"}})

\* Mutant: a resumed attempt may put finishes off anew.
Consecutive_Forgotten == 0

\* Finishes put off since the last tool result.
Consecutive ==
  Cardinality({i \in OfType("completion-evaluated") :
     /\ events[i].disposition = "continue"
     /\ \A j \in OfType("tool-result") : j < i})

\* deriveHarnessNativeCompletionCheckpoint.
\* Mutant: any verification that ran settles it.
Obliged_Ran(obligation, e) ==
  CASE e.type = "attempt-started" /\ e.phase = "public-verification-repair" -> "repair-due"
    [] e.type = "tool-result" /\ e.r.status = "ok" /\ e.r.facts = "mutation" -> "verification-due"
    [] e.type = "tool-result" /\ e.r.status = "ok" /\ e.r.facts = "verification" -> "none"
    [] OTHER -> obligation

Obliged(obligation, e) ==
  CASE e.type = "attempt-started" /\ e.phase = "public-verification-repair" -> "repair-due"
    [] e.type = "tool-result" /\ e.r.status = "ok" /\ e.r.facts = "mutation" -> "verification-due"
    [] e.type = "tool-result" /\ e.r.status = "ok" /\ e.r.facts = "verification" ->
         IF e.r.outcome = "failed" THEN "repair-due" ELSE "none"
    [] OTHER -> obligation

CompletionCheckpoint ==
  IF setup.verification THEN FoldLeft(Obliged, "none", events) ELSE "none"

\* HarnessNativePlanExecutor.synchronize: the active step of the last revision;
\* an unchanged step keeps its checkpoint.
Synchronized(step, revisions) ==
  IF revisions = <<>> \/ Last(revisions).plan = "completed" THEN NoStep
  ELSE IF step.revision = Len(revisions) THEN step
  ELSE [revision |-> Len(revisions), plan |-> Last(revisions).plan,
        attempts |-> 0, outcome |-> "none",
        checkpoint |-> IF step # NoStep /\ step.plan = Last(revisions).plan
                       THEN step.checkpoint ELSE "none"]

\* HarnessNativePlanExecutor.record: what result r is for the active step, and
\* the replanning it asks for.  `seen': the evidence was looked up before.
StepOutcome(step, seen, r) ==
  CASE r.status # "ok" -> "blocked"
    [] r.status = "ok" /\ r.facts = "mutation" -> "progress"
    [] r.status = "ok" /\ r.facts = "verification" ->
         IF r.outcome = "passed" THEN "progress"
         ELSE IF step.plan = "implementation" THEN "evidence" ELSE "blocked"
    [] r.status = "ok" /\ r.facts = "retrieval" /\ seen -> "stalled"
    [] OTHER -> "evidence"

StepCheckpoint(step, r) ==
  CASE step.plan # "implementation" \/ r.status # "ok" -> step.checkpoint
    [] step.plan = "implementation" /\ r.status = "ok" /\ r.facts = "mutation" -> "verification-due"
    [] step.plan = "implementation" /\ r.status = "ok" /\ r.facts = "verification" ->
         IF r.outcome = "failed" THEN "repair-due" ELSE "none"
    [] OTHER -> step.checkpoint

Recorded(step, seen, r) ==
  IF step = NoStep THEN NoStep
  ELSE [step EXCEPT !.attempts = @ + 1, !.outcome = StepOutcome(step, seen, r),
                    !.checkpoint = StepCheckpoint(step, r)]

StepTrigger(step, seen, r) ==
  CASE step # NoStep /\ r.status # "ok" -> "execution-blocked"
    [] step # NoStep /\ r.status = "ok" /\ r.facts = "retrieval" /\ seen -> "execution-stalled"
    [] OTHER -> "none"

\* What the planner and the plan executor are restored from.
Replayed(s, e) ==
  CASE e.type = "plan-revised" ->
         LET revisions == Append(s.revisions, [plan |-> e.plan, trigger |-> e.trigger])
         IN  [s EXCEPT !.revisions = revisions, !.step = Synchronized(@, revisions)]
    [] e.type = "tool-result" ->
         [s EXCEPT !.step = Recorded(@, s.seen, e.r), !.seen = @ \/ e.r.facts = "retrieval"]
    [] OTHER -> s

\* What a process that opens the record goes on with.
Restored ==
  LET plan == FoldLeft(Replayed, Fresh, events)
  IN  [Fresh EXCEPT !.iterations = ExecutorIterations,
                    !.toolCalls = BudgetedToolCalls,
                    !.rejectedToolCalls = Cardinality(ToolResults(TRUE)),
                    !.protocolRecoveries =
                       Cardinality({i \in OfType("protocol-recovery") : events[i].disposition = "retrying"}),
                    !.completionDeferrals =
                       Cardinality({i \in OfType("completion-evaluated") : events[i].disposition = "continue"}),
                    !.consecutive = Consecutive,
                    !.modelCalls = Cardinality(OfType("model-call-started")),
                    !.revisions = plan.revisions, !.step = plan.step, !.seen = plan.seen]

\* assertHarnessNativeWorktreeResumeSafe: every dispatch has a result, every
\* mutation a checkpoint, and the worktree is as the last of them left it.
Mutations == {i \in OfType("tool-result") : events[i].r.facts = "mutation"}
CheckpointsOf(i) == {j \in OfType("worktree-checkpoint") : events[j].action = events[i].action}

ResumeSafe ==
  /\ \A i \in OfType("tool-dispatched") :
       \E j \in OfType("tool-result") : events[j].action = events[i].action
  /\ \A i \in Mutations : CheckpointsOf(i) # {}
  /\ \A i \in Mutations :
       (\A k \in Mutations : k <= i) => \E j \in CheckpointsOf(i) : events[j].tree = tree
  /\ Mutations = {} => tree = 0

\* A model call that was under way when the process died.
\* Mutant: one that did not succeed.
OpenCall_Failed(call) ==
  ~ \E j \in OfType("model-call-completed") :
      events[j].call = call /\ events[j].outcome = "succeeded"

OpenCall(call) == ~ \E j \in OfType("model-call-completed") : events[j].call = call

Interruptions ==
  LET open == {i \in OfType("model-call-started") : OpenCall(events[i].call)}
      nth(n) == CHOOSE i \in open : Cardinality({j \in open : j <= i}) = n
  IN  [n \in 1 .. Cardinality(open) |-> CallCompleted(events[nth(n)].call, "interrupted")]

\* detectHarnessNativeStuckPattern, of the results the model sees.
Stuck ==
  LET done == SelectSeq(events, LAMBDA e : e.type = "tool-result" /\ e.visible)
      ago(i) == done[Len(done) - i]
      same(i, j) == ago(i).r = ago(j).r /\ ago(i).observed = ago(j).observed
  IN  \/ /\ Len(done) >= RepeatCount
         /\ \A i \in 0 .. RepeatCount - 1 : same(i, 0)
      \/ /\ Len(done) >= RepeatCount
         /\ \A i \in 0 .. RepeatCount - 1 :
              ago(i).r.status = "error" /\ ago(i).r.kind = ago(0).r.kind
      \/ /\ Len(done) >= AlternateCount
         /\ ~ same(AlternateCount - 1, AlternateCount - 2)
         /\ \A i \in 0 .. AlternateCount - 3 : same(i, i + 2)

------------------------------------------------------------------------------
(* The loop.                                                               *)

Init ==
  /\ setup \in Setups
  /\ at = "start"
  /\ aborted = FALSE
  /\ m = Fresh
  /\ writing = <<>>
  /\ events = <<>>
  /\ tree = 0
  /\ crashes = 0

\* The present stretch of code appends `appended' and goes on at `next'.
Go(appended, next) ==
  /\ writing = <<>>
  /\ writing' = appended
  /\ at' = next

\* fail(): the attempt ends.
Fail(appended, reason) == Go(Append(appended, Ended(reason)), "over")

Unmoved == UNCHANGED <<setup, aborted, events, crashes>>

\* HarnessNativeRuntimeEventSpine.append: the events are made durable.
Write ==
  /\ writing # <<>>
  /\ events' = events \o writing
  /\ writing' = <<>>
  /\ UNCHANGED <<setup, at, aborted, m, tree, crashes>>

\* The attempt is started, or resumed from its events.
Begin ==
  /\ at = "start"
  /\ Go(IF events = <<>> THEN <<Started>> ELSE Interruptions, "iterate")
  /\ m' = Restored
  /\ Unmoved /\ UNCHANGED tree

\* The signal is looked at before an iteration and after a tool's result.
SeesAbort ==
  /\ aborted
  /\ at \in {"iterate", "settling"}
  /\ at = "iterate" => m.iterations < setup.maxIterations

StartIteration ==
  /\ at = "iterate" /\ ~SeesAbort
  /\ m.iterations < setup.maxIterations
  /\ m' = [m EXCEPT !.iterations = @ + 1, !.modelCalls = @ + 1, !.recoveries = 0,
                     !.step = Synchronized(@, m.revisions)]
  /\ Go(<<CallStarted(CallId("executor", m.iterations + 1, m.modelCalls + 1))>>, "deciding")
  /\ Unmoved /\ UNCHANGED tree

IterationLimit ==
  /\ at = "iterate"
  /\ m.iterations >= setup.maxIterations
  /\ Fail(<<>>, "iteration-limit")
  /\ Unmoved /\ UNCHANGED <<m, tree>>

TimeOut ==
  /\ SeesAbort
  /\ Go(<<>>, "cancelling")
  /\ Unmoved /\ UNCHANGED <<m, tree>>

\* timeout(): the attempt ends when what was cancelled has ended.
EndTimedOut ==
  /\ at = "cancelling"
  /\ Fail(<<>>, "timeout")
  /\ Unmoved /\ UNCHANGED <<m, tree>>

------------------------------------------------------------------------------
(* Calls of the provider, for a decision and for a plan.                   *)

Owner == IF at = "deciding" THEN "executor" ELSE "planner"

Completed(outcome) == CallCompleted(CallId(Owner, m.iterations, m.modelCalls), outcome)

\* A protocol failure is corrected within the budget of this decision.
CanRetry == m.recoveries < MaxProtocolRecoveries

Retry ==
  /\ at \in {"deciding", "planning"} /\ ~aborted
  /\ CanRetry
  /\ m' = [m EXCEPT !.recoveries = @ + 1, !.protocolRecoveries = @ + 1, !.modelCalls = @ + 1]
  /\ Go(<<Completed("failed"),
          Recovery(CallId(Owner, m.iterations, m.modelCalls), "retrying"),
          CallStarted(CallId(Owner, m.iterations, m.modelCalls + 1))>>, at)
  /\ Unmoved /\ UNCHANGED tree

GiveUp ==
  /\ at \in {"deciding", "planning"} /\ ~aborted
  /\ ~CanRetry
  /\ Fail(<<Completed("failed"),
            Recovery(CallId(Owner, m.iterations, m.modelCalls), "exhausted")>>, "model-failed")
  /\ Unmoved /\ UNCHANGED <<m, tree>>

\* Any other failure of the provider.
ProviderFails ==
  /\ at \in {"deciding", "planning"} /\ ~aborted
  /\ Fail(<<Completed("failed")>>, "model-failed")
  /\ Unmoved /\ UNCHANGED <<m, tree>>

\* The deadline interrupts the call.
\* Mutant: the planner's call is not given the signal.
Interrupted_Executor ==
  /\ at = "deciding" /\ aborted
  /\ Go(<<Completed("interrupted")>>, "cancelling")
  /\ Unmoved /\ UNCHANGED <<m, tree>>

Interrupted ==
  /\ at \in {"deciding", "planning"} /\ aborted
  /\ Go(<<Completed("interrupted")>>, "cancelling")
  /\ Unmoved /\ UNCHANGED <<m, tree>>

------------------------------------------------------------------------------
(* The decisions of the model.                                             *)

\* Why a finish is put off, "none": it is not.
IncompleteReason ==
  CASE CompletionCheckpoint # "none" -> CompletionCheckpoint
    [] CompletionCheckpoint = "none" /\ m.step # NoStep /\ m.step.checkpoint # "none" ->
         m.step.checkpoint
    [] OTHER -> IF m.revisions # <<>> /\ Last(m.revisions).plan # "completed"
                THEN "plan-incomplete" ELSE "none"

Disposition ==
  IF IncompleteReason = "none" THEN "accept"
  ELSE IF m.consecutive + 1 > MaxCompletionDeferrals THEN "terminal" ELSE "continue"

FinishAccepted ==
  /\ at = "deciding" /\ ~aborted
  /\ Disposition = "accept"
  /\ Fail(<<Completed("succeeded"), Evaluated("accept")>>, "finished")
  /\ Unmoved /\ UNCHANGED <<m, tree>>

FinishTerminal ==
  /\ at = "deciding" /\ ~aborted
  /\ Disposition = "terminal"
  /\ Fail(<<Completed("succeeded"), Evaluated("terminal")>>, "incomplete-finish")
  /\ Unmoved /\ UNCHANGED <<m, tree>>

FinishDeferred ==
  /\ at = "deciding" /\ ~aborted
  /\ Disposition = "continue"
  /\ m' = [m EXCEPT !.consecutive = @ + 1, !.completionDeferrals = @ + 1]
  /\ Go(<<Completed("succeeded"), Evaluated("continue")>>, "iterate")
  /\ Unmoved /\ UNCHANGED tree

\* The model gives up, or its answer holds no tool call.
DecideNothing(reason) ==
  /\ at = "deciding" /\ ~aborted
  /\ Fail(<<Completed("succeeded")>>, reason)
  /\ Unmoved /\ UNCHANGED <<m, tree>>

\* The result recordRejectedToolRequest writes.
Refused(kind) ==
  Result(kind, "rejected", IF kind = "verification" THEN "not-run" ELSE "none",
         IF kind = "composition" THEN "other" ELSE kind)

RefuseRequest(action, kind) ==
  <<Dispatched(action, kind), ToolResult(action, Refused(kind), 0, TRUE, TRUE)>>

\* Several calls that do not all fit into the budget are refused together.
BatchOverBudget(requests) ==
  Len(requests) > 1 /\ m.toolCalls + Len(requests) > MaxToolCalls

RefuseBatch(requests) ==
  /\ at = "deciding" /\ ~aborted
  /\ BatchOverBudget(requests)
  /\ m' = [m EXCEPT !.consecutive = 0, !.requests = requests, !.index = 1]
  /\ Go(<<Completed("succeeded")>>, "refusing")
  /\ Unmoved /\ UNCHANGED tree

RefuseNext ==
  /\ at = "refusing" /\ m.requests # <<>>
  /\ m' = [m EXCEPT !.requests = Tail(@), !.index = @ + 1, !.rejectedToolCalls = @ + 1]
  /\ Go(RefuseRequest(Action, Head(m.requests)), "refusing")
  /\ Unmoved /\ UNCHANGED tree

AllRefused ==
  /\ at = "refusing" /\ m.requests = <<>>
  /\ Fail(<<>>, "tool-limit")
  /\ Unmoved /\ UNCHANGED <<m, tree>>

DecideTools(requests) ==
  /\ at = "deciding" /\ ~aborted
  /\ ~BatchOverBudget(requests)
  /\ m' = [m EXCEPT !.consecutive = 0, !.requests = requests, !.index = 1, !.trigger = "none"]
  /\ Go(<<Completed("succeeded")>>, "tools")
  /\ Unmoved /\ UNCHANGED tree

------------------------------------------------------------------------------
(* The tool calls of one answer.                                           *)

Offered(kind) ==
  /\ (kind = "composition") = (setup.presentation = "code")
  /\ kind = "verification" => setup.verification

Composition(kind) == kind = "composition" /\ Offered(kind)

BudgetSpent == m.toolCalls >= MaxToolCalls

RefuseTool ==
  /\ at = "tools" /\ m.requests # <<>>
  /\ BudgetSpent
  /\ Fail(RefuseRequest(Action, Head(m.requests)), "tool-limit")
  /\ m' = [m EXCEPT !.rejectedToolCalls = @ + 1]
  /\ Unmoved /\ UNCHANGED tree

\* A result is counted: a rejected call, or one of the budget.
Counted(memory, r) ==
  IF r.status = "rejected" THEN [memory EXCEPT !.rejectedToolCalls = @ + 1]
  ELSE [memory EXCEPT !.toolCalls = @ + 1]

DispatchTool ==
  /\ at = "tools" /\ m.requests # <<>>
  /\ ~BudgetSpent
  /\ Offered(Head(m.requests))
  /\ Go(<<Dispatched(Action, Head(m.requests))>>, "executing")
  /\ Unmoved /\ UNCHANGED <<m, tree>>

\* A tool that is not part of the presentation.
DispatchUnavailable ==
  LET kind == Head(m.requests)
      r == Result(kind, "rejected", "none", "other")
  IN  /\ at = "tools" /\ m.requests # <<>>
      /\ ~BudgetSpent
      /\ ~Offered(kind)
      /\ m' = [Counted(m, r) EXCEPT !.result = r]
      /\ Go(<<Dispatched(Action, kind), ToolResult(Action, r, 0, TRUE, TRUE)>>, "settling")
      /\ Unmoved /\ UNCHANGED tree

\* What the worktree is after result r, and what the result shows of it.
After(r) == IF r.facts = "mutation" /\ r.status = "ok" THEN tree + 1 ELSE tree
Observed(r) == IF r.status = "ok" /\ r.facts \in {"retrieval", "verification"} THEN tree ELSE 0

ExecuteTool(r) ==
  /\ at = "executing"
  /\ r \in Results(Head(m.requests))
  /\ tree' = After(r)
  /\ m' = [Counted(m, r) EXCEPT !.result = r]
  /\ Go(<<ToolResult(Action, r, Observed(r), TRUE, TRUE)>>,
        IF setup.durable /\ r.facts = "mutation" /\ ~aborted THEN "checkpointing" ELSE "settling")
  /\ Unmoved

Checkpoint ==
  /\ at = "checkpointing"
  /\ Go(<<WorktreeCheckpoint(Action, tree)>>, "settling")
  /\ Unmoved /\ UNCHANGED <<m, tree>>

\* A verification cut short by the deadline, the cancelled work of the attempt,
\* or, with or without an abort, a composition cannot be shown to have ended:
\* the run throws, and the attempt has no end.
TerminationUnconfirmed ==
  /\ \/ aborted /\ at = "cancelling"
     \/ aborted /\ at = "executing" /\ Head(m.requests) = "verification"
     \/ at = "executing" /\ Composition(Head(m.requests))
  /\ Go(<<>>, "threw")
  /\ m' = Fresh
  /\ aborted' = FALSE
  /\ UNCHANGED <<setup, events, tree, crashes>>

\* HarnessNativePlanner.triggerFor.
TriggerFor(r) ==
  LET free == setup.planner /\ r.status = "ok" /\ Len(m.revisions) < MaxPlanRevisions
      planned == \E i \in DOMAIN m.revisions : m.revisions[i].trigger = "mutation-applied"
      implementing == m.revisions # <<>> /\ Last(m.revisions).plan = "implementation"
  IN  CASE free /\ m.revisions = <<>> /\ r.facts = "retrieval" -> "initial-observation"
        [] free /\ ~planned /\ r.facts = "mutation" -> "mutation-applied"
        [] free /\ r.facts = "verification" /\ ~(r.outcome = "failed" /\ implementing) ->
             "verification-feedback"
        [] OTHER -> "none"

\* The planner's trigger replaces the one at hand, the executor's does not.
Followed(memory, r) ==
  LET candidate == TriggerFor(r)
      replan == StepTrigger(memory.step, memory.seen, r)
  IN  [memory EXCEPT
         !.trigger = IF candidate # "none" THEN candidate ELSE IF @ = "none" THEN replan ELSE @,
         !.step = Recorded(@, memory.seen, r),
         !.seen = @ \/ r.facts = "retrieval"]

\* A composition without a nested call, or with one, which the budget that let
\* the composition begin has room for; module RunCode has the concurrent ones.
ComposeAlone(status) ==
  LET r == Result("composition", status, "none", "other")
  IN  /\ at = "executing" /\ Composition(Head(m.requests))
      /\ aborted => status = "error"
      /\ m' = [(IF status = "rejected" THEN Counted(m, r) ELSE m) EXCEPT !.result = r]
      /\ Go(<<ToolResult(Action, r, 0, TRUE, status = "rejected")>>, "settling")
      /\ Unmoved /\ UNCHANGED tree

Compose(n, status) ==
  LET r == Result("composition", status, "none", "other")
      spent == Counted(m, n).rejectedToolCalls >= MaxRejectedToolCalls
  IN  /\ at = "executing" /\ Composition(Head(m.requests)) /\ ~aborted
      /\ n.kind = "verification" => setup.verification
      /\ tree' = After(n)
      /\ m' = [Followed(Counted(m, n), n) EXCEPT
                 !.result = r,
                 !.terminal = IF n.status = "rejected" /\ spent THEN "rejected-tool-limit" ELSE "none"]
      /\ Go(<<Dispatched(NestedAction, n.kind), ToolResult(NestedAction, n, Observed(n), FALSE, TRUE)>>
              \o (IF setup.durable /\ n.facts = "mutation"
                  THEN <<WorktreeCheckpoint(NestedAction, After(n))>> ELSE <<>>)
              \o <<ToolResult(Action, r, 0, TRUE, FALSE)>>, "settling")
      /\ Unmoved

------------------------------------------------------------------------------
(* After a tool's result, and after the last of them.                      *)

NextRequest(memory) == [memory EXCEPT !.requests = Tail(@), !.index = @ + 1, !.result = NoResult]

Settle ==
  LET r == m.result
      follow == IF Composition(r.kind) THEN m ELSE Followed(m, r)
      limit == r.status = "rejected" /\ m.rejectedToolCalls >= MaxRejectedToolCalls
  IN  /\ at = "settling" /\ ~SeesAbort
      /\ m.terminal = "none" /\ ~limit
      /\ m' = NextRequest(follow)
      /\ Go(<<>>, "tools")
      /\ Unmoved /\ UNCHANGED tree

SettleLimit ==
  LET limit == m.result.status = "rejected" /\ m.rejectedToolCalls >= MaxRejectedToolCalls
  IN  /\ at = "settling" /\ ~SeesAbort
      /\ m.terminal # "none" \/ limit
      /\ Fail(<<>>, IF m.terminal # "none" THEN m.terminal ELSE "rejected-tool-limit")
      /\ Unmoved /\ UNCHANGED <<m, tree>>

AtRest(memory) == [memory EXCEPT !.trigger = "none", !.requests = <<>>, !.index = 0, !.recoveries = 0]

EndStuck ==
  /\ at = "tools" /\ m.requests = <<>>
  /\ Stuck
  /\ Fail(<<>>, "stuck")
  /\ Unmoved /\ UNCHANGED <<m, tree>>

BatchDone ==
  /\ at = "tools" /\ m.requests = <<>>
  /\ ~Stuck
  /\ m.trigger = "none"
  /\ m' = AtRest(m)
  /\ Go(<<>>, "iterate")
  /\ Unmoved /\ UNCHANGED tree

\* Without a revision left the planner answers at once, with no plan.
AskPlanner ==
  LET call == CallId("planner", m.iterations, m.modelCalls + 1)
  IN  /\ at = "tools" /\ m.requests = <<>>
      /\ ~Stuck
      /\ m.trigger # "none"
      /\ IF Len(m.revisions) < MaxPlanRevisions
         THEN /\ m' = [m EXCEPT !.modelCalls = @ + 1, !.recoveries = 0]
              /\ Go(<<CallStarted(call)>>, "planning")
         ELSE /\ m' = [AtRest(m) EXCEPT !.modelCalls = @ + 1]
              /\ Go(<<CallStarted(call), CallCompleted(call, "succeeded")>>, "iterate")
      /\ Unmoved /\ UNCHANGED tree

RevisePlan(plan) ==
  LET revisions == Append(m.revisions, [plan |-> plan, trigger |-> m.trigger])
  IN  /\ at = "planning" /\ ~aborted
      /\ m' = [AtRest(m) EXCEPT !.revisions = revisions, !.step = Synchronized(@, revisions)]
      /\ Go(<<Completed("succeeded"), PlanRevised(plan, m.trigger)>>, "iterate")
      /\ Unmoved /\ UNCHANGED tree

------------------------------------------------------------------------------
(* The deadline, crashes, and the process that comes after.                *)

Deadline ==
  /\ at \in Awaiting /\ writing = <<>>
  /\ ~aborted
  /\ aborted' = TRUE
  /\ UNCHANGED <<setup, at, m, writing, events, tree, crashes>>

Crash ==
  /\ crashes < MaxCrashes
  /\ at \notin Gone \/ writing # <<>>
  /\ at' = "down"
  /\ m' = Fresh
  /\ aborted' = FALSE
  /\ \E n \in 0 .. Len(writing) : events' = events \o SubSeq(writing, 1, n)
  /\ writing' = <<>>
  /\ crashes' = crashes + 1
  /\ UNCHANGED <<setup, tree>>

\* Without a durable record the attempt is lost with its process.
Open ==
  /\ at \in {"down", "threw"}
  /\ setup.durable
  /\ Go(<<>>, IF ~ResumeSafe THEN "refused"
              ELSE IF OfType("attempt-ended") # {} THEN "over" ELSE "start")
  /\ Unmoved /\ UNCHANGED <<m, tree>>

Decide ==
  /\ at = "deciding" /\ ~aborted
  /\ \/ FinishAccepted
     \/ FinishTerminal
     \/ FinishDeferred
     \/ \E reason \in {"model-failed", "invalid-decision"} : DecideNothing(reason)
     \/ \E requests \in setup.answers : RefuseBatch(requests) \/ DecideTools(requests)

Execute ==
  /\ at = "executing"
  /\ \/ \E kind \in Kinds : \E r \in Results(kind) : ExecuteTool(r)
     \/ \E status \in {"ok", "error", "rejected"} : ComposeAlone(status)
     \/ \E kind \in Kinds : \E n \in Results(kind), status \in {"ok", "error"} : Compose(n, status)

Running ==
  \/ Write
  \/ StartIteration \/ IterationLimit
  \/ TimeOut \/ EndTimedOut \/ TerminationUnconfirmed
  \/ Retry \/ GiveUp \/ ProviderFails \/ Interrupted
  \/ Decide
  \/ RefuseNext \/ AllRefused \/ RefuseTool \/ DispatchTool \/ DispatchUnavailable
  \/ Execute
  \/ Checkpoint
  \/ Settle \/ SettleLimit
  \/ EndStuck \/ BatchDone \/ AskPlanner
  \/ \E plan \in Plans : RevisePlan(plan)

Process == Begin \/ Running

Next == Process \/ Deadline \/ Crash \/ Open

Spec == Init /\ [][Next]_vars

\* The process goes on by itself, except where it waits for an answer of the
\* provider; the deadline comes without one.  (Begin is what leaves "start", and
\* nothing there can hold it up: it is named by that, which TLC tests cheaply.)
Fairness ==
  /\ WF_at(at = "start" /\ at' = "iterate")
  /\ WF_vars((at \in {"deciding", "planning"} => aborted \/ writing # <<>>) /\ Running)
  /\ WF_vars(Deadline)

FairSpec == Spec /\ Fairness

------------------------------------------------------------------------------
(* Properties.                                                             *)

\* What HarnessNativeRuntimeEventSpine accepts, which throws otherwise: one
\* identity per model call and tool call across all resumptions, each completed
\* once and after it began, checkpoints of completed mutations, and an attempt
\* that ends last, with no dispatch unresolved.
RecordIsValid ==
  LET before(type, i) == {j \in OfType(type) : j < i}
  IN  \A i \in DOMAIN events :
        CASE events[i].type = "attempt-started" -> i = 1
          [] events[i].type = "model-call-started" ->
               \A j \in before("model-call-started", i) : events[j].call # events[i].call
          [] events[i].type = "model-call-completed" ->
               /\ \E j \in before("model-call-started", i) : events[j].call = events[i].call
               /\ \A j \in before("model-call-completed", i) : events[j].call # events[i].call
          [] events[i].type = "tool-dispatched" ->
               \A j \in before("tool-dispatched", i) : events[j].action # events[i].action
          [] events[i].type = "tool-result" ->
               /\ \E j \in before("tool-dispatched", i) : events[j].action = events[i].action
               /\ \A j \in before("tool-result", i) : events[j].action # events[i].action
          [] events[i].type = "worktree-checkpoint" ->
               /\ \E j \in before("tool-result", i) : events[j].action = events[i].action
               /\ \A j \in before("worktree-checkpoint", i) : events[j].action # events[i].action
          [] events[i].type = "attempt-ended" ->
               /\ i = Len(events)
               /\ \A j \in OfType("tool-dispatched") :
                    \E k \in OfType("tool-result") : events[k].action = events[j].action
          [] OTHER -> TRUE

\* The kinds of data, the budgets of one decision, and the record.
TypeOK ==
  /\ RecordIsValid
  /\ setup \in Setups
  /\ at \in Awaiting \cup Between \cup Gone
  /\ aborted \in BOOLEAN
  /\ DOMAIN m = DOMAIN Fresh
  /\ m.recoveries \in 0 .. MaxProtocolRecoveries
  /\ m.iterations \in 0 .. setup.maxIterations
  /\ m.toolCalls \in 0 .. MaxToolCalls
  /\ m.requests \in Seq(Kinds)
  /\ m.terminal \in {"none", "rejected-tool-limit"}
  /\ tree \in 0 .. MaxToolCalls
  /\ crashes \in 0 .. MaxCrashes

\* A decision is corrected as often as the policy allows and no more, even when
\* the process dies between the corrections.
RecoveriesBounded ==
  \A i \in 1 .. setup.maxIterations, owner \in {"executor", "planner"} :
    Cardinality({j \in OfType("protocol-recovery") :
       /\ events[j].iteration = i /\ events[j].owner = owner
       /\ events[j].disposition = "retrying"}) <= MaxProtocolRecoveries

\* However often the process died and was resumed, the attempt as its record
\* tells it stays within the policy: corrections, iterations, accepted tool
\* calls, plan revisions, and finishes put off without a tool call in between.
BudgetsHold ==
  /\ RecoveriesBounded
  /\ Cardinality({events[i].call.iteration : i \in
        {j \in OfType("model-call-started") : events[j].call.owner = "executor"}}) <= setup.maxIterations
  /\ Cardinality({i \in OfType("tool-result") :
        events[i].r.status # "rejected" /\ events[i].r.kind # "composition"}) <= MaxToolCalls
  /\ Cardinality(OfType("plan-revised")) <= MaxPlanRevisions
  /\ \A i \in OfType("completion-evaluated") :
       Cardinality({k \in OfType("completion-evaluated") :
          /\ k <= i
          /\ events[k].disposition = "continue"
          /\ ~ \E j \in OfType("tool-result") : k < j /\ j < i}) <= MaxCompletionDeferrals

\* Between two iterations a process remembers nothing that one opening the
\* record would not know: counters, plan, active step. Only the active step that
\* a composition leaves is not derived from its record.
ResumeLosesNothing ==
  at = "iterate" /\ writing = <<>> =>
    [m EXCEPT !.step = NoStep, !.recoveries = 0] = [Restored EXCEPT !.step = NoStep]
    /\ (setup.presentation = "native" => m.step = Restored.step)

HasEnded(reason) == \E i \in OfType("attempt-ended") : events[i].reason = reason

\* Verifications that ran.
Verifications ==
  {i \in OfType("tool-result") : events[i].r.facts = "verification" /\ events[i].r.status = "ok"}

\* With a public verification, an attempt only finishes on a worktree that the
\* last verification passed, or that was neither touched nor found wanting.
FinishedIsVerified ==
  HasEnded("finished") /\ setup.verification =>
    \/ Verifications = {} /\ tree = 0
    \/ \E i \in Verifications :
         /\ \A j \in Verifications : j <= i
         /\ events[i].r.outcome = "passed"
         /\ events[i].observed = tree

\* A process that is up comes to an end, with or without the provider.
AttemptEnds == at = "start" ~> at \in Gone
==============================================================================
