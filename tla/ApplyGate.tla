------------------------------ MODULE ApplyGate ------------------------------
(***************************************************************************)
(* What happens to the evidence of one run id after, and between, its      *)
(* executions: the commands assess, approve, reject, apply, cleanup and    *)
(* evidence-retention of cli.ts, each a process of its own that reads and  *)
(* writes the files beside the evidence, the managed worktree and the      *)
(* user's repository one file at a time.                                   *)
(*                                                                         *)
(* Only approve and reject take a lock, that of the approval history. A    *)
(* run that died before its finalization may be executed again under the   *)
(* same id, which replaces the evidence while commands read it. Executions *)
(* exclude each other by the finalization lock (module HeadlessRun), so    *)
(* there is one here; the user edits and commits besides.                  *)
(***************************************************************************)
EXTENDS Integers, Sequences

CONSTANTS
  Commands,      \* processes of the command line
  Kinds,         \* the commands they may be
  Files,         \* files of the repository that patches may touch
  Patches,       \* the patches an agent may produce
  Facts,         \* what the run may record of their verification
  ChangesRequired, \* policy.patchExpectation is changes-required
  None,          \* no such file, nothing read
  MaxVersions,   \* bound: evidence bundles written
  MaxDecisions,  \* bound: decisions recorded
  MaxCommands,   \* bound: commands started
  MaxDisturbances \* bound: crashes, and edits and commits of the user

AllKinds == {"assess", "approve", "reject", "apply", "cleanup", "retention"}

\* tracked: files whose change is in trackedPatch; untracked: files with a
\* snapshot; lost: changed files in neither; findings: what the risk policy
\* finds in the files, "high" needs an approval and "critical" prohibits.
PatchShape == [tracked : SUBSET Files, untracked : SUBSET Files,
               lost : BOOLEAN, findings : SUBSET {"high", "critical"}]

\* What the run recorded beside the patch: everything passed, a step before
\* the oracle failed, only the oracle did not pass.
AllFacts == {"passed", "failed", "oracle-failed"}

\* The files' contents. Versions of the evidence are numbered from 1; shown is the
\* bundle a decision was planned on and final whether the run was finalized when
\* that bundle was read, neither of which the file holds.
EvidenceBundle == [createdAt : Nat \ {0}, patch : Patches, facts : Facts]
AssessmentReport == [of : Nat \ {0}, verdict : {"pass", "fail", "inconclusive"}]
RiskCodes == {"high", "critical", "assessment-not-pass", "hidden-oracle"}
ApprovalRecord == [of : Nat \ {0}, fingerprint : SUBSET RiskCodes,
                   decision : {"approved", "rejected"},
                   shown : Nat \ {0}, final : BOOLEAN]

ASSUME GateAssumption ==
  /\ Kinds \subseteq AllKinds
  /\ Patches \subseteq PatchShape
  /\ Facts \subseteq AllFacts
  /\ \A p \in Patches : p.tracked \cap p.untracked = {}
  /\ ChangesRequired \in BOOLEAN
  /\ MaxVersions \in Nat
  /\ MaxDecisions \in Nat
  /\ MaxCommands \in Nat
  /\ MaxDisturbances \in Nat

\* A file that is absent is none of the data, nor a number of one.
ASSUME NoneAssumption ==
  None \notin Nat \cup EvidenceBundle \cup AssessmentReport \cup ApprovalRecord

VARIABLES
  bundle,        \* the evidence bundle; its createdAt is its number
  assessment,    \* the assessment report
  history,       \* the approval history
  record,        \* the approval record
  finalization,  \* the evidence the finalization record names
  versions,      \* bundles written so far
  swept,         \* a retention has begun to remove the files
  lock,          \* who holds the lock of the approval history
  run,           \* the execution of this run id
  durable,       \* a runtime record of the run exists
  worktree,      \* what the managed worktree holds
  tree,          \* who wrote each file of the user's repository
  atBase,        \* its HEAD is the base commit
  cmd,           \* the commands
  started,       \* commands so far
  disturbances   \* crashes, and edits and commits of the user, so far

files     == <<bundle, assessment, finalization, versions>>
approvals == <<history, record, lock>>
execution == <<run, durable, worktree>>
repo      == <<tree, atBase>>
bounds    == <<started, disturbances>>
vars == <<files, approvals, swept, execution, repo, cmd, bounds>>

------------------------------------------------------------------------------
(* The kinds of data.                                                      *)

Changing == 0    \* a worktree no bundle describes

Sidecars == {"evidence", "assessment", "approval", "history"}
Base == 0        \* a file as it is at the base commit
User == -1       \* a file the user made or edited

\* since: the length of the history when the command began to read.
Idle == [kind |-> "assess", at |-> "idle", final |-> FALSE, since |-> 0,
         bundle |-> None, assessment |-> None, approval |-> None,
         reread |-> None, todo |-> {}]

Planning == {"approve", "reject", "apply"}

Init ==
  /\ bundle = None /\ assessment = None /\ finalization = None /\ versions = 0
  /\ history = <<>> /\ record = None /\ lock = None /\ swept = FALSE
  /\ run = [at |-> "idle", draft |-> None] /\ durable = FALSE /\ worktree = None
  /\ tree = [f \in Files |-> Base] /\ atBase = TRUE
  /\ cmd = [c \in Commands |-> Idle] /\ started = 0 /\ disturbances = 0

Disturbance ==
  /\ disturbances < MaxDisturbances
  /\ disturbances' = disturbances + 1

Goto(c, to)  == cmd' = [cmd EXCEPT ![c].at = to]
Forget(c) == cmd' = [cmd EXCEPT ![c] = Idle]

------------------------------------------------------------------------------
(* Pure functions of what was read.                                        *)

Last(s) == s[Len(s)]

\* verifyGitPatchBundle compares the worktree with the recorded snapshot.
GitVerified(b) == worktree = b.createdAt

ChangesNothing(p) == p.tracked \cup p.untracked = {} /\ ~p.lost

\* decidePatchVerdict, with the git verification it rests on.
Verdict(b) ==
  CASE ~GitVerified(b) \/ b.facts # "passed"         -> "fail"
    [] GitVerified(b) /\ b.facts = "passed"
         /\ ChangesRequired /\ ChangesNothing(b.patch) -> "inconclusive"
    [] OTHER                                          -> "pass"

Report(b) == [of |-> b.createdAt, verdict |-> Verdict(b)]

Findings(b, a) ==
  b.patch.findings
    \cup (IF a # None /\ a.verdict # "pass" THEN {"assessment-not-pass"} ELSE {})
    \cup (IF b.facts = "oracle-failed" THEN {"hidden-oracle"} ELSE {})

BlocksApply(b, a) == Findings(b, a) \cap {"critical", "assessment-not-pass", "hidden-oracle"} # {}
RequiresApproval(b, a) == ~BlocksApply(b, a) /\ "high" \in Findings(b, a)

\* Mutant: a decision on an earlier bundle with the same findings counts.
Approves_AnyBundle(r, b, a) ==
  r # None /\ r.fingerprint = Findings(b, a) /\ r.decision = "approved"

\* A record for another bundle or other findings is invalid, not a rejection;
\* both block.
Approves(r, b, a) ==
  /\ r # None
  /\ r.of = b.createdAt
  /\ r.fingerprint = Findings(b, a)
  /\ r.decision = "approved"

AssessmentMatches(a, b) == a # None /\ a.of = b.createdAt

PatchApplies(b) == \A f \in b.patch.tracked : tree[f] = Base

\* createApplyPlan, once everything is read: its status is "ready".
Ready(m) ==
  LET b == m.bundle  a == m.assessment IN
  /\ AssessmentMatches(a, b) /\ a.verdict = "pass"
  /\ atBase
  /\ ~b.patch.lost
  /\ PatchApplies(b)
  /\ ~BlocksApply(b, a)
  /\ RequiresApproval(b, a) => Approves(m.approval, b, a)
  /\ ~ChangesNothing(b.patch)

------------------------------------------------------------------------------
(* The execution of the run, reduced to what it does to the files here.    *)

\* readCompletedTaskFinalization returns null only where there is no record;
\* a record whose files changed or are gone makes it throw.
Unfinalized == finalization = None

\* A resumption needs the worktree, a new execution needs its path free. Only
\* the harness-native adapter leaves a runtime record.
StartRun ==
  /\ run.at = "idle" /\ Unfinalized /\ versions < MaxVersions
  /\ IF durable THEN worktree # None ELSE worktree = None
  /\ run' = [run EXCEPT !.at = "working"]
  /\ worktree' = Changing
  /\ durable' \in {durable, TRUE}
  /\ UNCHANGED <<files, approvals, swept, repo, cmd, bounds>>

\* The oracle runs after the snapshot is taken and may still write.
RunWritesEvidence(p, facts) ==
  /\ run.at = "working" /\ worktree # None
  /\ versions' = versions + 1
  /\ bundle' = [createdAt |-> versions', patch |-> p, facts |-> facts]
  /\ worktree' \in {versions', Changing}
  /\ run' = [run EXCEPT !.at = "verify"]
  /\ UNCHANGED <<assessment, finalization, approvals, swept, durable, repo, cmd, bounds>>

RunVerifies ==
  /\ run.at = "verify" /\ bundle # None
  /\ run' = [at |-> "assessing", draft |-> Report(bundle)]
  /\ UNCHANGED <<files, approvals, swept, durable, worktree, repo, cmd, bounds>>

RunWritesAssessment ==
  /\ run.at = "assessing"
  /\ assessment' = run.draft
  /\ run' = [at |-> "finalizing", draft |-> None]
  /\ UNCHANGED <<bundle, finalization, versions, approvals, swept, durable, worktree,
                 repo, cmd, bounds>>

\* It hashes the files as they are now, then reads them back: whether that
\* succeeds or throws, the record stays.
RunFinalizes ==
  /\ run.at = "finalizing" /\ bundle # None /\ assessment # None
  /\ finalization' = bundle.createdAt
  /\ run' = [run EXCEPT !.at = "idle"]
  /\ UNCHANGED <<bundle, assessment, versions, approvals, swept, durable, worktree, repo,
                 cmd, bounds>>

\* It throws without its worktree or its files.
RunThrows ==
  /\ \/ run.at = "working" /\ worktree = None
     \/ run.at = "verify" /\ bundle = None
     \/ run.at = "finalizing" /\ (bundle = None \/ assessment = None)
  /\ run' = [at |-> "idle", draft |-> None]
  /\ UNCHANGED <<files, approvals, swept, durable, worktree, repo, cmd, bounds>>

RunCrashes ==
  /\ run.at # "idle" /\ Disturbance
  /\ run' = [at |-> "idle", draft |-> None]
  /\ UNCHANGED <<files, approvals, swept, durable, worktree, repo, cmd, started>>

Run == \/ StartRun
       \/ \E p \in Patches, facts \in Facts : RunWritesEvidence(p, facts)
       \/ RunVerifies
       \/ RunWritesAssessment
       \/ RunFinalizes
       \/ RunThrows

------------------------------------------------------------------------------
(* Every command first reads the bundle; without one it fails at once.     *)

ReadBundle(c, kind) ==
  /\ cmd[c].at = "idle" /\ started < MaxCommands
  /\ bundle # None
  /\ started' = started + 1
  /\ cmd' = [cmd EXCEPT ![c] =
               [Idle EXCEPT !.kind = kind, !.bundle = bundle, !.final = finalization # None,
                            !.since = Len(history),
                            !.at = IF kind = "assess" THEN "verify" ELSE "assessment"]]
  /\ UNCHANGED <<files, approvals, swept, execution, repo, disturbances>>

------------------------------------------------------------------------------
(* assess: verify the recorded patch against the worktree, replace the     *)
(* report.                                                                 *)

VerifyGitPatch(c) ==
  /\ cmd[c].at = "verify"
  /\ cmd' = [cmd EXCEPT ![c].assessment = Report(cmd[c].bundle), ![c].at = "write"]
  /\ UNCHANGED <<files, approvals, swept, execution, repo, bounds>>

WriteReport(c) ==
  /\ cmd[c].at = "write"
  /\ assessment' = cmd[c].assessment
  /\ Forget(c)
  /\ UNCHANGED <<bundle, finalization, versions, approvals, swept, execution, repo, bounds>>

------------------------------------------------------------------------------
(* createApplyPlan, for approve, reject and apply.                         *)

ReadAssessment(c) ==
  /\ cmd[c].at = "assessment" /\ cmd[c].kind \in Planning
  /\ cmd' = [cmd EXCEPT ![c].assessment = assessment, ![c].at = "history"]
  /\ UNCHANGED <<files, approvals, swept, execution, repo, bounds>>

\* Mutant: the record decides, as before there was a history.
ReadHistory_RecordFirst(c) ==
  /\ cmd[c].at = "history"
  /\ IF record = None /\ history # <<>>
     THEN cmd' = [cmd EXCEPT ![c].approval = Last(history), ![c].at = "repository"]
     ELSE Goto(c, "record")
  /\ UNCHANGED <<files, approvals, swept, execution, repo, bounds>>

\* readApprovalRecord: the history decides, the record only without one.
ReadHistory(c) ==
  /\ cmd[c].at = "history"
  /\ IF history # <<>>
     THEN cmd' = [cmd EXCEPT ![c].approval = Last(history), ![c].at = "repository"]
     ELSE Goto(c, "record")
  /\ UNCHANGED <<files, approvals, swept, execution, repo, bounds>>

ReadRecord(c) ==
  /\ cmd[c].at = "record"
  /\ cmd' = [cmd EXCEPT ![c].approval = record, ![c].at = "repository"]
  /\ UNCHANGED <<files, approvals, swept, execution, repo, bounds>>

\* approve is refused where the risk prohibits; apply goes on only if the plan
\* is ready and --apply was given. Without it, and without the right
\* repository, nothing happens.
Proceeds(m) ==
  CASE m.kind = "approve" -> ~BlocksApply(m.bundle, m.assessment)
    [] m.kind = "reject"  -> TRUE
    [] m.kind = "apply"   -> Ready(m)

CompletePlan(c) ==
  /\ cmd[c].at = "repository"
  /\ IF Proceeds(cmd[c]) THEN Goto(c, "reread") ELSE Forget(c)
  /\ UNCHANGED <<files, approvals, swept, execution, repo, bounds>>

\* approve and reject take createdAt from this reading, apply the patch.
RereadBundle(c) ==
  /\ cmd[c].at = "reread"
  /\ IF bundle = None THEN Forget(c)
     ELSE cmd' = [cmd EXCEPT ![c].reread = bundle,
                             ![c].at = IF cmd[c].kind = "apply" THEN "tracked" ELSE "decide"]
  /\ UNCHANGED <<files, approvals, swept, execution, repo, bounds>>

------------------------------------------------------------------------------
(* approve and reject: under the lock of the history, first the history,   *)
(* then the record. The lock of a dead process is taken over.              *)

DecisionOf(m) ==
  [of |-> m.reread.createdAt, fingerprint |-> Findings(m.bundle, m.assessment),
   decision |-> IF m.kind = "approve" THEN "approved" ELSE "rejected",
   shown |-> m.bundle.createdAt, final |-> m.final]

CanLock == lock = None

AppendDecision(c) ==
  /\ cmd[c].at = "decide" /\ CanLock /\ Len(history) < MaxDecisions
  /\ lock' = c
  /\ history' = Append(history, DecisionOf(cmd[c]))
  /\ Goto(c, "noting")
  /\ UNCHANGED <<files, record, swept, execution, repo, bounds>>

WriteRecord(c) ==
  /\ cmd[c].at = "noting"
  /\ record' = DecisionOf(cmd[c])
  /\ lock' = None
  /\ Forget(c)
  /\ UNCHANGED <<files, history, swept, execution, repo, bounds>>

------------------------------------------------------------------------------
(* apply: git apply takes the tracked patch whole or not at all, then every*)
(* untracked file must be absent, then each is created exclusively. A      *)
(* failure leaves what was done.                                           *)

ApplyPatch(c) ==
  /\ cmd[c].at = "tracked"
  /\ LET b == cmd[c].reread IN
     IF PatchApplies(b)
     THEN /\ tree' = [f \in Files |-> IF f \in b.patch.tracked THEN b.createdAt ELSE tree[f]]
          /\ Goto(c, "untracked")
     ELSE Forget(c) /\ UNCHANGED tree
  /\ UNCHANGED <<files, approvals, swept, execution, atBase, bounds>>

CheckTargets(c) ==
  /\ cmd[c].at = "untracked"
  /\ LET targets == cmd[c].reread.patch.untracked IN
     IF \A f \in targets : tree[f] = Base
     THEN cmd' = [cmd EXCEPT ![c].todo = targets, ![c].at = "writing"]
     ELSE Forget(c)
  /\ UNCHANGED <<files, approvals, swept, execution, repo, bounds>>

\* Mutant: the file is opened with flag w.
CreateFile_Overwriting(f, version) == tree' = [tree EXCEPT ![f] = version]

\* Flag wx.
CreateFile(f, version) ==
  /\ tree[f] = Base
  /\ tree' = [tree EXCEPT ![f] = version]

WriteUntracked(c, f) ==
  /\ cmd[c].at = "writing" /\ f \in cmd[c].todo
  /\ CreateFile(f, cmd[c].reread.createdAt)
  /\ cmd' = [cmd EXCEPT ![c].todo = @ \ {f}]
  /\ UNCHANGED <<files, approvals, swept, execution, atBase, bounds>>

TargetAppeared(c, f) ==
  /\ cmd[c].at = "writing" /\ f \in cmd[c].todo
  /\ tree[f] # Base
  /\ Forget(c)
  /\ UNCHANGED <<files, approvals, swept, execution, repo, bounds>>

ReturnApplied(c) ==
  /\ cmd[c].at = "writing" /\ cmd[c].todo = {}
  /\ Goto(c, "applied")
  /\ UNCHANGED <<files, approvals, swept, execution, repo, bounds>>

Exit(c) ==
  /\ cmd[c].at = "applied"
  /\ Forget(c)
  /\ UNCHANGED <<files, approvals, swept, execution, repo, bounds>>

------------------------------------------------------------------------------
(* cleanup: a completed assessment of the evidence, of any verdict, then   *)
(* the worktree goes, whoever uses it.                                     *)

CheckCleanup(c) ==
  /\ cmd[c].at = "assessment" /\ cmd[c].kind = "cleanup"
  /\ IF AssessmentMatches(assessment, cmd[c].bundle) /\ worktree # None
     THEN Goto(c, "remove") ELSE Forget(c)
  /\ UNCHANGED <<files, approvals, swept, execution, repo, bounds>>

\* Without --apply, or if git refuses, nothing happens.
RemoveWorktree(c) ==
  /\ cmd[c].at = "remove"
  /\ worktree' \in {worktree, None}
  /\ Forget(c)
  /\ UNCHANGED <<files, approvals, swept, run, durable, repo, bounds>>

------------------------------------------------------------------------------
(* evidence-retention: evidence that is old enough, validly assessed and   *)
(* without its worktree, and that no benchmark report names, loses its     *)
(* files, in any order. The finalization record is not among them.         *)

Audit(c) ==
  /\ cmd[c].at = "assessment" /\ cmd[c].kind = "retention"
  /\ IF AssessmentMatches(assessment, cmd[c].bundle) /\ worktree = None
     THEN Goto(c, "references") ELSE Forget(c)
  /\ UNCHANGED <<files, approvals, swept, execution, repo, bounds>>

\* Young, referenced, or without --apply: kept.
ScanReferences(c, removable) ==
  /\ cmd[c].at = "references"
  /\ IF removable
     THEN /\ cmd' = [cmd EXCEPT ![c].todo = Sidecars, ![c].at = "sweeping"]
          /\ swept' = TRUE
     ELSE Forget(c) /\ UNCHANGED swept
  /\ UNCHANGED <<files, approvals, execution, repo, bounds>>

RemoveFile(c, file) ==
  /\ cmd[c].at = "sweeping" /\ file \in cmd[c].todo
  /\ bundle' = IF file = "evidence" THEN None ELSE bundle
  /\ assessment' = IF file = "assessment" THEN None ELSE assessment
  /\ record' = IF file = "approval" THEN None ELSE record
  /\ history' = IF file = "history" THEN <<>> ELSE history
  /\ IF cmd[c].todo = {file} THEN Forget(c) ELSE cmd' = [cmd EXCEPT ![c].todo = @ \ {file}]
  /\ UNCHANGED <<finalization, versions, swept, lock, execution, repo, bounds>>

------------------------------------------------------------------------------

\* A command dies, or one of its writes fails, with some done and some not; a
\* death before the first write is no step. Its lock goes stale and is free.
Crash(c) ==
  /\ cmd[c].at \in {"noting", "untracked", "writing", "sweeping"} /\ Disturbance
  /\ Forget(c)
  /\ lock' = IF lock = c THEN None ELSE lock
  /\ UNCHANGED <<files, history, record, swept, execution, repo, started>>

UserEdits(f) ==
  /\ tree[f] # User
  /\ Disturbance
  /\ tree' = [tree EXCEPT ![f] = User]
  /\ UNCHANGED <<files, approvals, swept, execution, atBase, cmd, started>>

UserCommits ==
  /\ atBase
  /\ Disturbance
  /\ atBase' = FALSE
  /\ UNCHANGED <<files, approvals, swept, execution, tree, cmd, started>>

Step(c) ==
  \/ \E kind \in Kinds : ReadBundle(c, kind)
  \/ VerifyGitPatch(c)
  \/ WriteReport(c)
  \/ ReadAssessment(c)
  \/ ReadHistory(c)
  \/ ReadRecord(c)
  \/ CompletePlan(c)
  \/ RereadBundle(c)
  \/ AppendDecision(c)
  \/ WriteRecord(c)
  \/ ApplyPatch(c)
  \/ CheckTargets(c)
  \/ \E f \in Files : WriteUntracked(c, f) \/ TargetAppeared(c, f)
  \/ ReturnApplied(c)
  \/ Exit(c)
  \/ CheckCleanup(c)
  \/ RemoveWorktree(c)
  \/ Audit(c)
  \/ \E removable \in BOOLEAN : ScanReferences(c, removable)
  \/ \E file \in Sidecars : RemoveFile(c, file)
  \/ Crash(c)

Next ==
  \/ Run
  \/ RunCrashes
  \/ \E c \in Commands : Step(c)
  \/ \E f \in Files : UserEdits(f)
  \/ UserCommits

Spec == Init /\ [][Next]_vars

------------------------------------------------------------------------------
(* Properties.                                                             *)

\* The patch being written to a repository.
Writing(c) == cmd[c].at \in {"tracked", "untracked", "writing", "applied"}

\* An apply that reports success has written the whole of one bundle's patch:
\* no file of it is missing or from another bundle, however many applies ran
\* at once; only the user may have edited since.
AppliedIsWhole ==
  \A c \in Commands :
    cmd[c].at = "applied" =>
      LET b == cmd[c].reread IN
      \A f \in b.patch.tracked \cup b.patch.untracked : tree[f] \in {b.createdAt, User}

\* What an apply writes, if it began when the run was finalized, is what its
\* plan checked, and where the risk asks for an approval, the one it read is
\* for this patch and was given by somebody who was shown this patch, whatever
\* was executed, assessed, decided or removed in between. (createApplyPlan
\* then a second readEvidenceBundle in applyRecordedPatch and in approve.)
AppliedAsApproved ==
  \A c \in Commands :
    Writing(c) /\ cmd[c].final =>
      LET m == cmd[c] IN
      /\ m.reread = m.bundle
      /\ m.bundle.facts = "passed"
      /\ RequiresApproval(m.bundle, m.assessment) =>
           /\ m.approval.of = m.bundle.createdAt
           /\ m.approval.final => m.approval.shown = m.bundle.createdAt

\* Both, whatever the other commands of the run id do meanwhile.
AppliesAreSound == AppliedAsApproved /\ AppliedIsWhole

\* A patch that needs an approval goes past the plan only on a decision that
\* was the latest at some moment since the plan began: a rejection recorded
\* before blocks it, also if the process died before it replaced the record.
\* Files that a retention removes while the plan reads are left out.
LatestDecisionCounts ==
  \A c \in Commands :
    cmd[c].at \in {"reread", "tracked"} /\ cmd[c].kind = "apply" /\ ~swept
      /\ RequiresApproval(cmd[c].bundle, cmd[c].assessment) =>
      \E i \in DOMAIN history :
        /\ i >= cmd[c].since
        /\ Approves(history[i], cmd[c].bundle, cmd[c].assessment)

\* A file the user made or edited is never overwritten, also when it appears
\* between the plan, the check of the targets and the writes.
UserFilesSurvive ==
  [][\A f \in Files : tree[f] = User => tree'[f] = User]_vars
==============================================================================
