----------------------------- MODULE HeadlessRun -----------------------------
(***************************************************************************)
(* One AgentPatchCheck task run with the durable harness-native runtime:   *)
(* agentpatchcheck/execute.ts around the attempt loop of                   *)
(* harness-native-runtime.ts, the adapter deadline of agent-adapter.ts and *)
(* the finalization record of task-finalization.ts.                        *)
(*                                                                         *)
(* Several CLI invocations name the same run id: at once, or one after     *)
(* another because an earlier one crashed.  They share the run's durable   *)
(* state (the worktree, the runtime record, the evidence, assessment and   *)
(* finalization files) and the finalization lock; everything else belongs  *)
(* to one process and is lost with it.                                     *)
(*                                                                         *)
(* The runtime record is seen here one attempt at a time: its              *)
(* attempt-started, attempt-ended and attempt-reviewed events.  What       *)
(* happens inside an attempt is module AgentLoop.                          *)
(***************************************************************************)
EXTENDS Integers, Sequences

CONSTANTS
  Invocations,        \* CLI processes started for this run id
  NoOne,              \* the holder of a free lock
  None,               \* a file that does not exist, a result not yet there
  MaxAttempts,        \* policy.nativeAgent.maxAttempts
  TimeoutMs,          \* policy.timeoutMs, in ticks
  MinContinuationMs,  \* policy.nativeAgent.minContinuationTimeMs, in ticks
  MaxFaults           \* bound: crashes and I/O errors taken together

ASSUME InvocationsAssumption == NoOne \notin Invocations
ASSUME PolicyAssumption ==
  /\ MaxAttempts \in Nat \ {0}
  /\ TimeoutMs \in Nat \ {0}
  /\ MinContinuationMs \in Nat
  /\ MaxFaults \in Nat

VARIABLES
  \* --- durable state of the run -----------------------------------------
  lock,           \* owner of <runId>.finalization.json.operation.lock
  worktree,       \* the managed worktree path is occupied
  recordExists,   \* the runtime record has a durable header
  attempts,       \* the attempts of the record, oldest first
  resumeSafe,     \* the worktree matches the record's last checkpoint
  activeMs,       \* agent time spent inside attempts
  evidence,       \* the EvidenceBundle file
  assessment,     \* the AssessmentReport file
  finalization,   \* the finalization record
  \* --- volatile state of each invocation ---------------------------------
  pc,             \* where executeAgentPatchCheck stands
  mem,            \* what the process holds in memory, see Memory
  result,         \* what the invocation returned
  \* --- bookkeeping of the model ------------------------------------------
  faults,         \* crashes and I/O errors so far
  repairs         \* repair executions that started an attempt

record  == <<recordExists, attempts, resumeSafe, activeMs>>
files   == <<evidence, assessment, finalization>>
history == <<faults, repairs>>
vars == <<lock, worktree, record, files, pc, mem, result, history>>

------------------------------------------------------------------------------
(* The kinds of data.                                                      *)

\* runtime.status and terminationReason, as far as a review, a repair
\* decision and an adapter result tell them apart.
Terminations == {"finished", "iteration-limit", "failed", "timeout"}
AgentResults == {"finished", "failed", "timeout"}

\* repairContext.phase of an adapter call.
Phases == {"initial", "repair"}

\* An attempt of the record.  call is the phase of the adapter call that
\* started it; the record itself keeps it for attempt 1 only.
Attempt == [call   : Phases,
            ended  : Terminations \cup {"open"},
            review : {"none", "continue", "stop"}]

\* commandVerification.status, and how many attempts the worktree had seen.
Verification == [status : {"not-run", "passed", "failed"}, seen : Nat]
NotRun == [status |-> "not-run", seen |-> 0]

Evidence     == [version : Nat, agent : AgentResults,
                 verification : Verification, attempts : Nat]
Assessment   == [version : Nat, of : Nat]
Finalization == [evidence : Nat, assessment : Nat]

\* What a run comes to: the finalization record with the files it refers to.
Outcome == [record : Finalization, evidence : Evidence, assessment : Assessment]

ASSUME NoneAssumption ==
  /\ None \notin Evidence
  /\ None \notin Assessment
  /\ None \notin Finalization
  /\ None \notin Outcome

Memory == [phase        : Phases,
           clock        : 0 .. TimeoutMs,  \* time since agentBudgetStartedAt
           activeAtOpen : Nat,             \* initialActiveRuntimeMs
           limit        : Nat,             \* phaseAttemptLimit
           agent        : AgentResults,    \* the AgentExecution
           verification : Verification]
Fresh == [phase |-> "initial", clock |-> 0, activeAtOpen |-> 0, limit |-> 0,
          agent |-> "failed", verification |-> NotRun]

\* executeAgentPatchCheck, from outside the lock (persistTaskDefinition, before
\* it, writes content-addressed bytes: nothing to tell apart) ...
Outside == {"locking", "returned", "refused", "threw", "crashed"}
\* ... through a call of the agent adapter ...
InAdapter == {"opening", "deciding", "attempting", "reviewing", "continuing",
              "returning"}
\* ... to the durable result.
Inside == {"reading", "workspace", "bootstrap", "verifying", "repairing",
           "oracle", "recording", "assessing", "finalizing", "rereading"}
            \cup InAdapter

Last == Len(attempts)

\* Mutant: the deadline is one tick late.
Expired_Late(i) == mem[i].clock > TimeoutMs

\* executeAgentAdapterUnderDeadline: the timer of the initial call has
\* policy.timeoutMs and the timer of the repair call what is left of it, so
\* both fire when the shared clock reaches TimeoutMs.
Expired(i) == mem[i].clock >= TimeoutMs

Init ==
  /\ lock = NoOne
  /\ worktree = FALSE
  /\ recordExists = FALSE
  /\ attempts = <<>>
  /\ resumeSafe = TRUE
  /\ activeMs = 0
  /\ evidence = None
  /\ assessment = None
  /\ finalization = None
  /\ pc = [i \in Invocations |-> "locking"]
  /\ mem = [i \in Invocations |-> Fresh]
  /\ result = [i \in Invocations |-> None]
  /\ faults = 0
  /\ repairs = 0

Goto(i, to) == pc' = [pc EXCEPT ![i] = to]

\* What a process holds in memory is gone when its operation is over.
Forget(i) == mem' = [mem EXCEPT ![i] = Fresh]

\* Leaving the locked operation, whatever the way, releases the lock.
Leave(i, to) == Goto(i, to) /\ lock' = NoOne /\ Forget(i)

------------------------------------------------------------------------------
(* Entering the run: the finalization lock and the durable result.         *)

\* Mutant: the lock of a live owner is taken over.
CanLock_Stolen == TRUE

\* proper-lockfile grants a free lock, or one whose dead owner let it go stale.
CanLock == lock # NoOne => pc[lock] = "crashed"

AcquireLock(i) ==
  /\ pc[i] = "locking"
  /\ CanLock
  /\ lock' = i
  /\ Goto(i, "reading")
  /\ UNCHANGED <<worktree, record, files, mem, result, history>>

\* The retries of the lock request last about five seconds, a run minutes:
\* a second invocation gives up while the first one works (ELOCKED), and so
\* does one that follows a crash before the lock is stale.
GiveUpLock(i) ==
  /\ pc[i] = "locking"
  /\ lock # NoOne
  /\ Goto(i, "refused")
  /\ UNCHANGED <<lock, worktree, record, files, mem, result, history>>

\* Mutant: a completed run is executed again.
Completed_Ignored == FALSE

\* readCompletedTaskFinalization: is there a finalization record ...
Completed == finalization # None

\* ... and does it match the files it refers to?
FinalizationIntact ==
  /\ evidence # None
  /\ assessment # None
  /\ evidence.version = finalization.evidence
  /\ assessment.version = finalization.assessment
  /\ assessment.of = evidence.version

\* The record's result is returned, or a mismatch throws.
ReturnFinalization(i) ==
  \/ /\ FinalizationIntact
     /\ result' = [result EXCEPT ![i] = finalization]
     /\ Leave(i, "returned")
  \/ /\ ~FinalizationIntact
     /\ Leave(i, "threw")
     /\ UNCHANGED result

ReadFinalization(i) ==
  /\ pc[i] = "reading"
  /\ \/ Completed /\ ReturnFinalization(i)
     \/ /\ ~Completed
        /\ Goto(i, "workspace")
        /\ UNCHANGED <<lock, mem, result>>
  /\ UNCHANGED <<worktree, record, files, history>>

------------------------------------------------------------------------------
(* The worktree.                                                           *)

\* A run with a runtime record resumes its worktree and skips the bootstrap;
\* any other run needs an unoccupied path.
OpenWorkspace(i) ==
  /\ pc[i] = "workspace"
  /\ \/ /\ recordExists
        /\ Goto(i, "opening")
        /\ UNCHANGED <<lock, worktree, mem>>
     \/ /\ ~recordExists
        /\ ~worktree
        /\ worktree' = TRUE
        /\ Goto(i, "bootstrap")
        /\ UNCHANGED <<lock, mem>>
     \/ /\ ~recordExists
        /\ worktree            \* IsolatedWorkspaceCollisionError
        /\ Leave(i, "threw")
        /\ UNCHANGED worktree
  /\ UNCHANGED <<record, files, result, history>>

\* A failed bootstrap goes straight to Evidence, with a failed Agent.
Bootstrap(i) ==
  /\ pc[i] = "bootstrap"
  /\ Goto(i, "opening") \/ Goto(i, "recording")
  /\ UNCHANGED <<lock, worktree, record, files, mem, result, history>>

------------------------------------------------------------------------------
(* One call of the harness-native adapter: the attempt loop.               *)

\* The call is over, its locals are gone, and its AgentExecution is known.
EndCall(i, agent) ==
  /\ mem' = [mem EXCEPT ![i].agent = agent, ![i].activeAtOpen = 0, ![i].limit = 0]
  /\ Goto(i, "returning")

\* How attempt-ended shows in an AgentExecution: exitCode and timedOut.
ResultOf(ended) == IF ended \in {"finished", "timeout"} THEN ended ELSE "failed"

\* deriveHarnessNativeResourceLedger: the active time the record shows.  After a
\* fault it misses what followed the last event of the attempt that was cut off,
\* or counts the downtime before its next event.
ActiveRuntime == IF faults = 0 THEN {activeMs} ELSE 0 .. TimeoutMs

\* HarnessNativeRuntimeRecord.open: a new record is given a durable header; an
\* existing one must match the worktree, or the call fails.
OpenRecord(i) ==
  /\ pc[i] = "opening"
  /\ \/ /\ recordExists => resumeSafe
        /\ recordExists' = TRUE
        /\ \E active \in ActiveRuntime :
             mem' = [mem EXCEPT ![i].activeAtOpen = active]
        /\ Goto(i, "deciding")
     \/ /\ recordExists
        /\ ~resumeSafe
        /\ EndCall(i, "failed")
        /\ UNCHANGED recordExists
  /\ UNCHANGED <<lock, worktree, attempts, resumeSafe, activeMs, files,
                 result, history>>

\* Mutant: one attempt too many.
Review_OneMore(ended, n, max, remaining) ==
  IF ended = "iteration-limit" /\ n <= max /\ remaining >= MinContinuationMs
  THEN "continue"
  ELSE "stop"

\* reviewHarnessNativeAttempt.
Review(ended, n, max, remaining) ==
  IF ended = "iteration-limit" /\ n < max /\ remaining >= MinContinuationMs
  THEN "continue"
  ELSE "stop"

\* Mutant: an attempt whose review was lost is not reviewed.
ReviewOrphan_Missing(i) == FALSE

\* The crash fell between attempt-ended and attempt-reviewed.
ReviewOrphan(i) ==
  /\ pc[i] = "deciding"
  /\ Last > 0
  /\ attempts[Last].ended # "open"
  /\ attempts[Last].review = "none"
  /\ LET max == IF Last > MaxAttempts THEN Last ELSE MaxAttempts
     IN  attempts' = [attempts EXCEPT ![Last].review =
                        Review(attempts[Last].ended, Last, max,
                               TimeoutMs - mem[i].activeAtOpen)]
  /\ UNCHANGED <<lock, worktree, recordExists, resumeSafe, activeMs, files, pc,
                 mem, result, history>>

\* attempt-started is appended, and attempts may follow up to number m.
BeginAttempt(i, m) ==
  /\ attempts' = Append(attempts,
                   [call |-> mem[i].phase, ended |-> "open", review |-> "none"])
  /\ mem' = [mem EXCEPT ![i].limit = m]
  /\ Goto(i, "attempting")
  /\ UNCHANGED <<lock, worktree, recordExists, resumeSafe, activeMs, files,
                 result, faults>>

StartFirstAttempt(i) ==
  /\ pc[i] = "deciding"
  /\ Last = 0
  /\ BeginAttempt(i, MaxAttempts)
  /\ UNCHANGED repairs

\* The attempt an open last attempt continues, if it is not the first one.
ContinuationOwner == Last > 1 => attempts[Last - 1].review = "continue"

\* The last attempt has no attempt-ended: it goes on where its events stop, or
\* fails because it has no valid continuation owner.
ResumeAttempt(i) ==
  /\ pc[i] = "deciding"
  /\ Last > 0
  /\ attempts[Last].ended = "open"
  /\ \/ /\ ContinuationOwner
        /\ mem' = [mem EXCEPT ![i].limit = Last + MaxAttempts - 1]
        /\ Goto(i, "attempting")
     \/ ~ContinuationOwner /\ EndCall(i, "failed")
  /\ UNCHANGED <<lock, worktree, record, files, result, history>>

\* The crash fell between a "continue" review and the next attempt-started.
ResumeContinuation(i) ==
  /\ pc[i] = "deciding"
  /\ Last > 0
  /\ attempts[Last].review = "continue"
  /\ LET m == Last + MaxAttempts - 1
     IN  BeginAttempt(i, IF m > Last + 1 THEN m ELSE Last + 1)
  /\ UNCHANGED repairs

StartRepairAttempt(i) ==
  /\ pc[i] = "deciding"
  /\ Last > 0
  /\ attempts[Last].review = "stop"
  /\ mem[i].phase = "repair"
  /\ BeginAttempt(i, (Last + 1) + MaxAttempts - 1)
  /\ repairs' = repairs + 1

\* The record is complete: its terminal attempt is replayed as the result.
ReplayTerminal(i) ==
  /\ pc[i] = "deciding"
  /\ Last > 0
  /\ attempts[Last].review = "stop"
  /\ mem[i].phase = "initial"
  /\ EndCall(i, ResultOf(attempts[Last].ended))
  /\ UNCHANGED <<lock, worktree, record, files, result, history>>

\* What a command or an attempt makes of the worktree.  An attempt leaves it as
\* the record says, or not: a shell command or a public verification wrote to
\* it, a dispatch has no result, a mutation no checkpoint; its next checkpoint
\* puts that right.  A command outside the attempts can only do damage.
ResumeSafeAfter(i) ==
  CASE pc[i] = "attempting"             -> BOOLEAN
    [] pc[i] \in {"verifying", "oracle"} -> {resumeSafe, FALSE}
    [] OTHER                            -> {resumeSafe}

\* The inner loop ends the attempt: as a timeout exactly if the signal was
\* aborted, which is looked at after everything the loop has waited for.
EndAttempt(i) ==
  /\ pc[i] = "attempting"
  /\ \E ended \in Terminations :
       /\ (ended = "timeout") <=> Expired(i)
       /\ attempts' = [attempts EXCEPT ![Last].ended = ended]
  /\ resumeSafe' \in ResumeSafeAfter(i)
  /\ Goto(i, "reviewing")
  /\ UNCHANGED <<lock, worktree, recordExists, activeMs, files, mem, result,
                 history>>

ReviewAttempt(i) ==
  /\ pc[i] = "reviewing"
  /\ LET ended  == attempts[Last].ended
         review == Review(ended, Last, mem[i].limit,
                          TimeoutMs - (mem[i].activeAtOpen + mem[i].clock))
     IN  /\ attempts' = [attempts EXCEPT ![Last].review = review]
         /\ \/ review = "continue" /\ Goto(i, "continuing") /\ UNCHANGED mem
            \/ review = "stop" /\ EndCall(i, ResultOf(ended))
  /\ UNCHANGED <<lock, worktree, recordExists, resumeSafe, activeMs, files,
                 result, history>>

ContinueAttempt(i) ==
  /\ pc[i] = "continuing"
  /\ BeginAttempt(i, mem[i].limit)
  /\ UNCHANGED repairs

\* The runtime throws: an append to the record failed, or a repository primitive.
\* runAgentSafely turns that into a failed execution, unless the deadline has
\* passed.
AdapterThrows(i) ==
  /\ pc[i] \in InAdapter \ {"returning"}
  /\ faults < MaxFaults
  /\ faults' = faults + 1
  /\ resumeSafe' \in ResumeSafeAfter(i)
  /\ EndCall(i, "failed")
  /\ UNCHANGED <<lock, worktree, recordExists, attempts, activeMs, files,
                 result, repairs>>

\* executeAgentAdapterUnderDeadline: after the deadline only a confirmed
\* timeout comes back, anything else is a ProcessTreeTerminationError.
Unconfirmed(i) == Expired(i) /\ mem[i].agent # "timeout"

\* Mutant: the repaired worktree is not verified again.
ReturnAgent_NoReverify(i) ==
  /\ pc[i] = "returning"
  /\ \/ Unconfirmed(i) /\ Leave(i, "threw")
     \/ /\ ~Unconfirmed(i)
        /\ Goto(i, IF mem[i].phase = "initial" /\ mem[i].agent # "timeout"
                   THEN "verifying" ELSE "recording")
        /\ UNCHANGED <<lock, mem>>
  /\ UNCHANGED <<worktree, record, files, result, history>>

\* A timeout of the initial execution skips everything up to the Evidence.
ReturnAgent(i) ==
  /\ pc[i] = "returning"
  /\ \/ Unconfirmed(i) /\ Leave(i, "threw")
     \/ /\ ~Unconfirmed(i)
        /\ Goto(i, IF mem[i].phase = "initial" /\ mem[i].agent = "timeout"
                   THEN "recording" ELSE "verifying")
        /\ UNCHANGED <<lock, mem>>
  /\ UNCHANGED <<worktree, record, files, result, history>>

------------------------------------------------------------------------------
(* After the Agent.                                                        *)

\* The public verification commands run in the worktree and may write to it.
Verify(i) ==
  /\ pc[i] = "verifying"
  /\ \E status \in {"not-run", "passed", "failed"} :
       mem' = [mem EXCEPT ![i].verification =
                 [status |-> status, seen |-> Last]]
  /\ resumeSafe' \in ResumeSafeAfter(i)
  /\ Goto(i, IF mem[i].phase = "initial" THEN "repairing" ELSE "oracle")
  /\ UNCHANGED <<lock, worktree, recordExists, attempts, activeMs, files,
                 result, history>>

\* selectPublicVerificationRepair.
RepairEligible(i) ==
  /\ mem[i].agent = "finished"
  /\ mem[i].verification.status = "failed"
  /\ TimeoutMs - mem[i].clock > 0

DecideRepair(i) ==
  /\ pc[i] = "repairing"
  /\ \/ /\ RepairEligible(i)
        /\ mem' = [mem EXCEPT ![i].phase = "repair"]
        /\ Goto(i, "opening")
     \/ /\ ~RepairEligible(i)
        /\ Goto(i, "oracle")
        /\ UNCHANGED mem
  /\ UNCHANGED <<lock, worktree, record, files, result, history>>

\* The patch is collected and the Hidden Oracle runs, in the worktree too.
RunOracle(i) ==
  /\ pc[i] = "oracle"
  /\ resumeSafe' \in ResumeSafeAfter(i)
  /\ Goto(i, "recording")
  /\ UNCHANGED <<lock, worktree, recordExists, attempts, activeMs, files, mem,
                 result, history>>

\* The files of a run are overwritten in place; a version stands for the
\* createdAt and the SHA-256 of what was written.
NextVersion(file) == IF file = None THEN 1 ELSE file.version + 1

WriteEvidence(i) ==
  /\ pc[i] = "recording"
  /\ evidence' = [version |-> NextVersion(evidence), agent |-> mem[i].agent,
                  verification |-> mem[i].verification, attempts |-> Last]
  /\ Goto(i, "assessing")
  /\ UNCHANGED <<lock, worktree, record, assessment, finalization, mem, result,
                 history>>

WriteAssessment(i) ==
  /\ pc[i] = "assessing"
  /\ assessment' = [version |-> NextVersion(assessment),
                    of |-> evidence.version]
  /\ Goto(i, "finalizing")
  /\ UNCHANGED <<lock, worktree, record, evidence, finalization, mem, result,
                 history>>

WriteFinalization(i) ==
  /\ pc[i] = "finalizing"
  /\ finalization' = [evidence |-> evidence.version,
                      assessment |-> assessment.version]
  /\ Goto(i, "rereading")
  /\ UNCHANGED <<lock, worktree, record, evidence, assessment, mem, result,
                 history>>

RereadFinalization(i) ==
  /\ pc[i] = "rereading"
  /\ \/ Completed /\ ReturnFinalization(i)
     \/ ~Completed /\ Leave(i, "threw") /\ UNCHANGED result
  /\ UNCHANGED <<worktree, record, files, history>>

------------------------------------------------------------------------------
(* Time, faults and the specification.                                     *)

\* The agent clock runs while the Agent and the verification work, and between
\* the terminal event of the record and the return of the adapter (the lock of
\* the runtime record is released in between).
Tick(i) ==
  /\ pc[i] \in {"attempting", "verifying", "returning"}
  /\ ~Expired(i)
  /\ mem' = [mem EXCEPT ![i].clock = @ + 1]
  /\ activeMs' = IF pc[i] = "attempting" THEN activeMs + 1 ELSE activeMs
  /\ UNCHANGED <<lock, worktree, recordExists, attempts, resumeSafe, files, pc,
                 result, history>>

\* The process dies.  Its lock stays behind.
Crash(i) ==
  /\ pc[i] \in Inside
  /\ faults < MaxFaults
  /\ faults' = faults + 1
  /\ Goto(i, "crashed")
  /\ Forget(i)
  /\ resumeSafe' \in ResumeSafeAfter(i)
  /\ UNCHANGED <<lock, worktree, recordExists, attempts, activeMs, files,
                 result, repairs>>

\* An I/O error outside the adapter throws through the lock's finally, and so
\* does, from inside it, a process tree that could not be confirmed dead.
Throw(i) ==
  /\ pc[i] \in Inside \ {"returning"}
  /\ faults < MaxFaults
  /\ faults' = faults + 1
  /\ resumeSafe' \in ResumeSafeAfter(i)
  /\ Leave(i, "threw")
  /\ UNCHANGED <<worktree, recordExists, attempts, activeMs, files, result,
                 repairs>>

RunAdapter(i) ==
  \/ OpenRecord(i) \/ ReviewOrphan(i) \/ StartFirstAttempt(i)
  \/ ResumeAttempt(i) \/ ResumeContinuation(i) \/ StartRepairAttempt(i)
  \/ ReplayTerminal(i) \/ EndAttempt(i) \/ ReviewAttempt(i)
  \/ ContinueAttempt(i) \/ ReturnAgent(i)

Advance(i) ==
  \/ AcquireLock(i) \/ GiveUpLock(i) \/ ReadFinalization(i)
  \/ OpenWorkspace(i) \/ Bootstrap(i) \/ RunAdapter(i)
  \/ Verify(i) \/ DecideRepair(i) \/ RunOracle(i)
  \/ WriteEvidence(i) \/ WriteAssessment(i) \/ WriteFinalization(i)
  \/ RereadFinalization(i)

Fault(i) == Crash(i) \/ Throw(i) \/ AdapterThrows(i)

Next == \E i \in Invocations :
          Advance(i) \/ Tick(i) \/ Fault(i)

Spec == Init /\ [][Next]_vars

\* A started process keeps running its asynchronous function.  The attempt
\* itself ends because its iterations are bounded (module AgentLoop).
Fairness == \A i \in Invocations : WF_vars(Advance(i))

FairSpec == Spec /\ Fairness

------------------------------------------------------------------------------
(* Properties.                                                             *)

TypeOK ==
  /\ lock \in Invocations \cup {NoOne}
  /\ worktree \in BOOLEAN
  /\ recordExists \in BOOLEAN
  /\ attempts \in Seq(Attempt)
  /\ resumeSafe \in BOOLEAN
  /\ activeMs \in Nat
  /\ evidence \in Evidence \cup {None}
  /\ assessment \in Assessment \cup {None}
  /\ finalization \in Finalization \cup {None}
  /\ pc \in [Invocations -> Outside \cup Inside]
  /\ mem \in [Invocations -> Memory]
  /\ result \in [Invocations -> Finalization \cup {None}]
  /\ faults \in 0 .. MaxFaults
  /\ repairs \in Nat

\* At most one invocation is between the read of the finalization record and
\* its return, even when a lock is taken over from a crashed owner.
OneInvocationInside ==
  \A i, j \in Invocations : pc[i] \in Inside /\ pc[j] \in Inside => i = j

\* A recorded finalization always matches the evidence and the assessment on
\* disk: no execution that was overtaken rewrites a file it refers to.
FinalizationMatchesFiles == finalization # None => FinalizationIntact

\* Whatever an invocation returns is the one durable result of the run.
ReturnsDurableResult ==
  \A i \in Invocations : pc[i] = "returned" => result[i] = finalization

\* The record never holds an attempt after one that timed out: a timeout is
\* terminal for the whole run, however often it is resumed.
TimeoutEndsTheRun ==
  \A n \in 1 .. Len(attempts) : attempts[n].ended = "timeout" => n = Len(attempts)

\* Every attempt after the first continues an exhausted one on its review, or
\* repairs an attempt that finished: no crash makes an attempt out of nothing.
AttemptsHaveAnOwner ==
  \A n \in 2 .. Len(attempts) :
    \/ attempts[n - 1].ended = "iteration-limit" /\ attempts[n - 1].review = "continue"
    \/ attempts[n - 1].ended = "finished" /\ attempts[n].call = "repair"

\* A finalized success is about the whole record: its last attempt finished, and
\* the public verification ran after it.
SuccessIsCurrent ==
  (finalization # None /\ evidence.agent = "finished") =>
    /\ attempts # <<>>
    /\ attempts[Last].ended = "finished"
    /\ evidence.attempts = Last
    /\ evidence.verification.seen = Last

\* The attempts that the initial execution of the run started.
InitialAttempts == {n \in 1 .. Len(attempts) : attempts[n].call = "initial"}

\* As long as a single invocation has worked on the run, its initial attempts,
\* its repairs and its wall time stay within the task's bounds.
UninterruptedWithinBounds ==
  (\A i, j \in Invocations :
     pc[i] \notin {"locking", "refused"} /\ pc[j] \notin {"locking", "refused"}
       => i = j)
  => /\ \A n \in InitialAttempts : n <= MaxAttempts
     /\ repairs <= 1
     /\ activeMs <= TimeoutMs

\* The attempts of a run are what the controller decided, within its policy.
AttemptRecordIsSound ==
  /\ AttemptsHaveAnOwner
  /\ TimeoutEndsTheRun
  /\ UninterruptedWithinBounds

\* What makes the first properties inductive: who is inside holds the lock ...
LockHeld == \A i \in Invocations : pc[i] \in Inside => lock = i

\* ... nobody past the first read works on a finalized run, and the files are
\* written in the order in which the finalization refers to them ...
FilesInOrder ==
  /\ FinalizationMatchesFiles
  /\ \A i \in Invocations :
       /\ pc[i] \in Inside \ {"reading", "rereading"} => finalization = None
       /\ pc[i] = "assessing" => evidence # None
       /\ pc[i] = "finalizing" =>
            /\ evidence # None
            /\ assessment # None
            /\ assessment.of = evidence.version

\* ... and there is no answer without a finalization.
AnswersHaveAResult ==
  \A i \in Invocations :
    /\ pc[i] = "returned" => result[i] # None
    /\ result[i] # None => result[i] = finalization

IInv == TypeOK /\ LockHeld /\ FilesInOrder /\ AnswersHaveAResult

\* What an invocation is to RunOnce, and what it was told.
StatusOf(p) == CASE p = "locking"  -> "pending"
                 [] p \in Inside   -> "working"
                 [] p = "returned" -> "answered"
                 [] OTHER          -> "stopped"
OutcomeOf(f) == IF f = None THEN None
                ELSE [record |-> f, evidence |-> evidence, assessment |-> assessment]

\* Every step of a run is a step of RunOnce: its committed outcome is the
\* finalization record with the evidence and the assessment as they are.
Once == INSTANCE RunOnce WITH
  Clients <- Invocations,
  Results <- Outcome,
  status  <- [i \in Invocations |-> StatusOf(pc[i])],
  outcome <- OutcomeOf(finalization),
  answer  <- [i \in Invocations |-> OutcomeOf(result[i])]
RunsOnce == Once!Spec

\* A durable result, and the files it refers to, are never rewritten.
FinalizationIsFinal == [][finalization # None => UNCHANGED files]_vars

\* Every invocation comes to an end: it returns, throws, is refused the lock, or
\* dies.  None waits for another one for ever.
InvocationsSettle ==
  \A i \in Invocations :
    <>(pc[i] \in {"returned", "threw", "refused", "crashed"})
=============================================================================
