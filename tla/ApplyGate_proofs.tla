--------------------------- MODULE ApplyGate_proofs ---------------------------
(***************************************************************************)
(* Proofs about ApplyGate, for any number of commands, files, patches,     *)
(* executions, decisions and disturbances.                                 *)
(*                                                                         *)
(* A command decides on what it read, file by file, a while ago. The       *)
(* invariant says which of that still holds whatever the others did: the   *)
(* bundle of a finalized run, the entries of a history nothing sweeps, the *)
(* files a patch has been written to.                                      *)
(***************************************************************************)
EXTENDS ApplyGate, TLAPS

Planned == {"reread", "tracked", "untracked", "writing", "applied"}
Deciding == {"decide", "noting"}
Places == {"idle", "verify", "write", "assessment", "history", "record", "repository",
           "remove", "references", "sweeping"} \cup Planned \cup Deciding

Bundle == EvidenceBundle \cup {None}
Assessment == AssessmentReport \cup {None}
Approval == ApprovalRecord \cup {None}

Command ==
  [kind : AllKinds, at : Places, final : BOOLEAN, since : Nat,
   bundle : Bundle, assessment : Assessment, approval : Approval,
   reread : Bundle, todo : SUBSET (Files \cup Sidecars)]

TypeOK ==
  /\ bundle \in Bundle
  /\ assessment \in Assessment
  /\ history \in Seq(ApprovalRecord)
  /\ record \in Approval
  /\ finalization \in Nat \cup {None}
  /\ versions \in Nat
  /\ swept \in BOOLEAN
  /\ run \in [at : {"idle", "working", "verify", "assessing", "finalizing"},
              draft : Assessment]
  /\ tree \in [Files -> Nat \cup {User}]
  /\ cmd \in [Commands -> Command]

\* Which command is where, and what it has read by then.
Shape(c) ==
  LET m == cmd[c] IN
  /\ m.at # "idle" => m.bundle # None
  /\ m.at \in Deciding \cup {"tracked", "untracked", "writing", "applied"} => m.reread # None
  /\ m.at = "write" => m.assessment # None
  /\ m.at \in {"history", "record", "repository", "reread"} => m.kind \in Planning
  /\ m.at \in {"tracked", "untracked", "writing", "applied"} => m.kind = "apply"
  /\ m.at = "sweeping" => swept

\* The bundles and the reports that exist, in a file or in a memory.
Bundles ==
  ({bundle} \cup {cmd[c].bundle : c \in Commands} \cup {cmd[c].reread : c \in Commands})
    \ {None}
Reports ==
  ({assessment, run.draft} \cup {cmd[c].assessment : c \in Commands}) \ {None}
Decisions ==
  ({record} \cup {history[i] : i \in DOMAIN history} \cup {cmd[c].approval : c \in Commands})
    \ {None}

\* A number is one bundle, ...
Numbered ==
  /\ \A b \in Bundles : b.createdAt <= versions
  /\ \A b, b2 \in Bundles : b.createdAt = b2.createdAt => b = b2

\* ... a passing report is of a bundle whose verification passed, ...
Reported ==
  /\ \A a \in Reports : a.of <= versions
  /\ \A a \in Reports, b \in Bundles :
       a.of = b.createdAt /\ a.verdict = "pass" => b.facts = "passed"

\* ... and a decision on a finalized run is on the bundle that was shown.
Shown == \A d \in Decisions : d.final => d.shown = d.of

\* Nothing is executed once the run is finalized, so that what a command read
\* since then is still what there is, if anything is.
Finalized == finalization # None => run.at = "idle"

ReadFinal(c) ==
  LET m == cmd[c] IN
  m.at # "idle" /\ m.final =>
    /\ finalization # None
    /\ bundle \in {m.bundle, None}
    /\ m.reread \in {m.bundle, None}

\* What went past the plan is what the plan asks for.
PlanHeld(c) ==
  LET m == cmd[c] IN
  m.kind = "apply" /\ m.at \in Planned =>
    /\ m.assessment # None /\ m.assessment.of = m.bundle.createdAt
    /\ m.assessment.verdict = "pass"
    /\ ~BlocksApply(m.bundle, m.assessment)
    /\ RequiresApproval(m.bundle, m.assessment) =>
         Approves(m.approval, m.bundle, m.assessment)

\* The record follows the history, as long as nothing is swept, ...
InHistory(d, i) == i \in DOMAIN history /\ history[i] = d

RecordFollows ==
  ~swept =>
    /\ record # None => \E i \in Nat : InHistory(record, i)
    /\ \A c \in Commands :
         cmd[c].at = "noting" => \E i \in Nat : InHistory(DecisionOf(cmd[c]), i)

\* ... and the approval a command read was the latest decision since it began.
ReadLatest(c) ==
  LET m == cmd[c] IN
  ~swept =>
    /\ m.at # "idle" => m.since <= Len(history)
    /\ m.at = "record" => m.since = 0
    /\ m.at \in {"repository", "reread", "tracked"} /\ m.approval # None =>
         \E i \in Nat : i >= m.since /\ InHistory(m.approval, i)

\* What an apply has written is there, unless the user has edited it.
Wrote(c) ==
  LET m == cmd[c]
      There(f) == tree[f] \in {m.reread.createdAt, User}
  IN
  /\ m.at \in {"untracked", "writing", "applied"} =>
       \A f \in m.reread.patch.tracked : There(f)
  /\ m.at \in {"writing", "applied"} =>
       \A f \in m.reread.patch.untracked \ m.todo : There(f)
  /\ m.at = "applied" => m.todo = {}

CommandInv(c) == Shape(c) /\ ReadFinal(c) /\ PlanHeld(c) /\ ReadLatest(c) /\ Wrote(c)

IInv ==
  /\ TypeOK
  /\ Numbered /\ Reported /\ Shown
  /\ Finalized /\ RecordFollows
  /\ \A c \in Commands : CommandInv(c)
-----------------------------------------------------------------------------
(***************************************************************************)
(* Lemmas about the operators.                                             *)
(***************************************************************************)
LEMMA FindingsAreCodes ==
  ASSUME NEW b \in EvidenceBundle, NEW a
  PROVE  Findings(b, a) \in SUBSET RiskCodes
<1>1. b.patch.findings \subseteq {"high", "critical"}
  BY GateAssumption DEF EvidenceBundle, PatchShape
<1> QED
  BY <1>1 DEF Findings, RiskCodes

\* A report is about the bundle, and passes only if its verification did.
LEMMA ReportOfBundle ==
  ASSUME NEW b \in EvidenceBundle
  PROVE  /\ Report(b) \in AssessmentReport
         /\ Report(b).of = b.createdAt
         /\ Report(b).verdict = "pass" => b.facts = "passed"
<1>1. /\ Verdict(b) \in {"pass", "fail", "inconclusive"}
      /\ Verdict(b) = "pass" => b.facts = "passed"
  BY DEF Verdict
<1> HIDE DEF Verdict
<1> QED
  BY <1>1 DEF Report, AssessmentReport, EvidenceBundle

\* A decision is on the bundle that was read again.
LEMMA DecisionOfCommand ==
  ASSUME NEW m \in Command, m.bundle # None, m.reread # None
  PROVE  /\ DecisionOf(m) \in ApprovalRecord
         /\ DecisionOf(m).of = m.reread.createdAt
         /\ DecisionOf(m).shown = m.bundle.createdAt
         /\ DecisionOf(m).final = m.final
<1>1. m.bundle \in EvidenceBundle /\ m.reread \in EvidenceBundle /\ m.final \in BOOLEAN
  BY DEF Command, Bundle
<1>2. Findings(m.bundle, m.assessment) \in SUBSET RiskCodes
  BY <1>1, FindingsAreCodes
<1> HIDE DEF Findings
<1> QED
  BY <1>1, <1>2 DEF DecisionOf, ApprovalRecord, EvidenceBundle

LEMMA PatchOfBundle ==
  ASSUME NEW b \in EvidenceBundle
  PROVE  /\ b.patch.tracked \subseteq Files /\ b.patch.untracked \subseteq Files
         /\ b.createdAt \in Nat /\ b.createdAt # Base /\ b.createdAt # User
  BY GateAssumption DEF EvidenceBundle, PatchShape, Base, User

LEMMA IdleIsCommand == Idle \in Command
BY DEF Idle, Command, AllKinds, Places, Bundle, Assessment, Approval

\* One command moves.
LEMMA Moved ==
  ASSUME cmd \in [Commands -> Command], NEW c \in Commands, NEW m \in Command,
         cmd' = [cmd EXCEPT ![c] = m]
  PROVE  /\ cmd' \in [Commands -> Command] /\ cmd'[c] = m
         /\ \A d \in Commands \ {c} : cmd'[d] = cmd[d]
OBVIOUS

-----------------------------------------------------------------------------
(***************************************************************************)
(* What a step does to what the other commands rely on.                    *)
(***************************************************************************)
Evolves ==
  /\ history' \in Seq(ApprovalRecord)
  /\ finalization # None => finalization' # None /\ bundle' \in {bundle, None}
  /\ swept => swept'
  /\ ~swept' => /\ Len(history) <= Len(history')
                /\ \A i \in DOMAIN history :
                      i \in DOMAIN history' /\ history'[i] = history[i]
  /\ \A f \in Files : tree[f] # Base => tree'[f] \in {tree[f], User}

\* The command c moves; it may take what is in a file, or a report on the
\* bundle it has.
Moves(c) ==
  /\ cmd' \in [Commands -> Command]
  /\ \A d \in Commands \ {c} : cmd'[d] = cmd[d]
  /\ cmd'[c].bundle \in {cmd[c].bundle, bundle, None}
  /\ cmd'[c].reread \in {cmd[c].reread, bundle, None}
  /\ \/ cmd'[c].assessment \in {cmd[c].assessment, assessment, None}
     \/ cmd[c].bundle # None /\ cmd'[c].assessment = Report(cmd[c].bundle)
  /\ \/ cmd'[c].approval \in {cmd[c].approval, record, None}
     \/ \E i \in DOMAIN history : cmd'[c].approval = history[i]

\* It may write a report it has, decide, or remove files.
Writes(c) ==
  /\ bundle' \in {bundle, None}
  /\ assessment' \in {assessment, cmd[c].assessment, None}
  /\ \/ record' \in {record, None}
     \/ cmd[c].at = "noting" /\ record' = DecisionOf(cmd[c])
  /\ \/ history' = history
     \/ swept /\ history' = <<>>
     \/ cmd[c].at = "decide" /\ history' = Append(history, DecisionOf(cmd[c]))
  /\ swept' \in BOOLEAN /\ (swept => swept')
  /\ tree' \in [Files -> Nat \cup {User}]
  /\ \A f \in Files : tree[f] # Base => tree'[f] = tree[f]
  /\ UNCHANGED <<finalization, versions, run>>

\* The other commands keep what they rely on.
LEMMA OthersKeep ==
  ASSUME TypeOK, Evolves, NEW d \in Commands, CommandInv(d), cmd'[d] = cmd[d]
  PROVE  CommandInv(d)'
<1>1. Shape(d)'
  BY DEF CommandInv, Shape, Evolves
<1>2. ReadFinal(d)'
  BY DEF CommandInv, ReadFinal, Evolves
<1>3. PlanHeld(d)'
  BY DEF CommandInv, PlanHeld
<1>4. ReadLatest(d)'
  <2> SUFFICES ASSUME ~swept'  PROVE ReadLatest(d)'
    BY DEF ReadLatest
  <2>1. ~swept /\ Len(history) <= Len(history')
        /\ \A x : \A i \in Nat : InHistory(x, i) => InHistory(x, i)'
    BY DEF Evolves, InHistory
  <2>2. Len(history) \in Nat /\ Len(history') \in Nat /\ cmd[d].since \in Nat
    BY DEF TypeOK, Command, Evolves
  <2> DEFINE m == cmd[d]
  <2>3. /\ m.at # "idle" => m.since <= Len(history)
        /\ m.at = "record" => m.since = 0
        /\ m.at \in {"repository", "reread", "tracked"} /\ m.approval # None =>
             \E i \in Nat : i >= m.since /\ InHistory(m.approval, i)
    BY <2>1 DEF CommandInv, ReadLatest
  <2>4. m.at # "idle" => m.since <= Len(history')
    BY <2>1, <2>2, <2>3
  <2>5. m.at \in {"repository", "reread", "tracked"} /\ m.approval # None =>
          \E i \in Nat : i >= m.since /\ InHistory(m.approval, i)'
    BY <2>1, <2>3
  <2> QED
    BY <2>3, <2>4, <2>5 DEF ReadLatest
<1>5. Wrote(d)'
  <2> DEFINE m == cmd[d]
  <2> SUFFICES ASSUME m.at \in {"untracked", "writing", "applied"}  PROVE Wrote(d)'
    BY DEF Wrote
  <2>1. m.reread \in EvidenceBundle
    BY DEF TypeOK, Command, Bundle, CommandInv, Shape
  <2>2. \A f \in Files : tree[f] \in {m.reread.createdAt, User}
                          => tree'[f] \in {m.reread.createdAt, User}
    BY <2>1, PatchOfBundle DEF Evolves, Base, User
  <2>3. m.reread.patch.tracked \subseteq Files /\ m.reread.patch.untracked \subseteq Files
    BY <2>1, PatchOfBundle
  <2> QED
    BY <2>2, <2>3 DEF CommandInv, Wrote
<1> QED
  BY <1>1, <1>2, <1>3, <1>4, <1>5 DEF CommandInv
LEMMA CommandTypes ==
  ASSUME TypeOK, NEW c \in Commands, CommandInv(c), Moves(c), Writes(c)
  PROVE  TypeOK'
<1>1. cmd[c] \in Command /\ cmd[c].assessment \in Assessment
  BY DEF TypeOK, Command
<1>2. cmd[c].at \in Deciding => DecisionOf(cmd[c]) \in ApprovalRecord
  <2>1. cmd[c].at \in Deciding => cmd[c].bundle # None /\ cmd[c].reread # None
    BY DEF CommandInv, Shape, Deciding
  <2> QED
    BY <1>1, <2>1, DecisionOfCommand
<1> HIDE DEF DecisionOf
<1>3. history' \in Seq(ApprovalRecord)
  <2>1. history \in Seq(ApprovalRecord) /\ <<>> \in Seq(ApprovalRecord)
    BY DEF TypeOK
  <2>2. CASE cmd[c].at = "decide" /\ history' = Append(history, DecisionOf(cmd[c]))
    BY <1>2, <2>1, <2>2 DEF Deciding
  <2> QED
    BY <2>1, <2>2 DEF Writes
<1>4. record' \in Approval
  BY <1>2 DEF TypeOK, Writes, Deciding, Approval
<1>5. bundle' \in Bundle /\ assessment' \in Assessment
  BY <1>1 DEF TypeOK, Writes, Bundle, Assessment
<1> QED
  BY <1>3, <1>4, <1>5 DEF TypeOK, Writes, Moves

LEMMA CommandData ==
  ASSUME TypeOK, Numbered, Reported, Shown, NEW c \in Commands, CommandInv(c),
         \A d \in Commands : CommandInv(d),
         Moves(c), Writes(c)
  PROVE  Numbered' /\ Reported' /\ Shown'
<1> DEFINE m == cmd[c]
<1>1. m \in Command /\ m.bundle \in Bundle /\ m.reread \in Bundle
  BY DEF TypeOK, Command
<1>2. Bundles' \subseteq Bundles
  BY DEF Bundles, Moves, Writes
<1>3. \A a \in Reports' : a \in Reports \/ (m.bundle # None /\ a = Report(m.bundle))
  BY DEF Reports, Moves, Writes
<1>4. \A d \in Decisions' : d \in Decisions \/ (m.at \in Deciding /\ d = DecisionOf(m))
  <2>1. \A i \in DOMAIN history' :
           history'[i] \in {history[j] : j \in DOMAIN history}
           \/ (m.at \in Deciding /\ history'[i] = DecisionOf(m))
    <3>1. CASE history' = history
      BY <3>1
    <3>2. CASE history' = <<>>
      BY <3>2
    <3>3. CASE m.at = "decide" /\ history' = Append(history, DecisionOf(m))
      <4> HIDE DEF m
      <4>1. history \in Seq(ApprovalRecord)
        BY DEF TypeOK
      <4> QED
        BY <3>3, <4>1 DEF Deciding
    <3> QED
      BY <3>1, <3>2, <3>3 DEF Writes
  <2>2. record' # None => record' = record \/ (m.at \in Deciding /\ record' = DecisionOf(m))
    BY DEF Writes, Deciding
  <2>3. \A d \in Commands : cmd'[d].approval # None =>
           \/ cmd'[d].approval \in {cmd[d].approval, record}
           \/ \E i \in DOMAIN history : cmd'[d].approval = history[i]
    BY DEF Moves
  <2> HIDE DEF m
  <2> QED
    BY <2>1, <2>2, <2>3 DEF Decisions
<1>5. m.at \in Deciding => m.bundle # None /\ m.reread # None
  BY DEF CommandInv, Shape, Deciding
<1>6. m.at \in Deciding => (DecisionOf(m).final => DecisionOf(m).shown = DecisionOf(m).of)
  <2> SUFFICES ASSUME m.at \in Deciding, DecisionOf(m).final
               PROVE  DecisionOf(m).shown = DecisionOf(m).of
    OBVIOUS
  <2>1. /\ DecisionOf(m).of = m.reread.createdAt
        /\ DecisionOf(m).shown = m.bundle.createdAt
        /\ m.final
    BY <1>1, <1>5, DecisionOfCommand
  <2>2. m.reread = m.bundle
    BY <1>5, <2>1 DEF CommandInv, ReadFinal, Deciding
  <2> QED
    BY <2>1, <2>2
<1>7. m.bundle # None =>
        /\ m.bundle \in Bundles /\ m.bundle \in EvidenceBundle
        /\ Report(m.bundle).of = m.bundle.createdAt
        /\ Report(m.bundle).verdict = "pass" => m.bundle.facts = "passed"
  BY <1>1, ReportOfBundle DEF Bundles, Bundle
<1> HIDE DEF m, Report, DecisionOf
<1>8. versions' = versions
  BY DEF Writes
<1>9. Numbered'
  BY <1>2, <1>8 DEF Numbered
<1>10. Reported'
  <2>1. \A a \in Reports' : a.of <= versions'
    BY <1>3, <1>7, <1>8 DEF Reported, Numbered
  <2>2. \A a \in Reports', b \in Bundles' :
           a.of = b.createdAt /\ a.verdict = "pass" => b.facts = "passed"
    BY <1>2, <1>3, <1>7 DEF Reported, Numbered
  <2> QED
    BY <2>1, <2>2 DEF Reported
<1>11. Shown'
  BY <1>4, <1>6 DEF Shown
<1> QED
  BY <1>9, <1>10, <1>11

-----------------------------------------------------------------------------
(***************************************************************************)
(* The execution of the run.                                               *)
(***************************************************************************)

\* The commands, the decisions and the repository are left alone.
LEMMA RunLeaves ==
  ASSUME IInv, Run \/ RunCrashes
  PROVE  /\ UNCHANGED <<approvals, swept, repo, cmd>>
         /\ Evolves
<1>1. UNCHANGED <<approvals, swept, repo, cmd>>
  BY DEF Run, StartRun, RunWritesEvidence, RunVerifies, RunWritesAssessment, RunFinalizes,
         RunThrows, RunCrashes
<1>2. finalization # None => run.at = "idle"
  BY DEF IInv, Finalized
<1>3. finalization # None => finalization' # None /\ bundle' = bundle
  BY <1>2 DEF Run, StartRun, RunWritesEvidence, RunVerifies, RunWritesAssessment,
              RunFinalizes, RunThrows, RunCrashes, Unfinalized, files
<1>4. history' = history /\ swept' = swept /\ tree' = tree /\ history \in Seq(ApprovalRecord)
  BY <1>1 DEF approvals, repo, IInv, TypeOK
<1>5. Len(history) <= Len(history)
  BY <1>4
<1> QED
  BY <1>1, <1>3, <1>4, <1>5 DEF Evolves

LEMMA RunInvariant ==
  ASSUME IInv, Run \/ RunCrashes
  PROVE  IInv'
<1>1. TypeOK /\ UNCHANGED <<approvals, swept, repo, cmd>> /\ Evolves
  BY RunLeaves DEF IInv
<1>2. \A c \in Commands : CommandInv(c)'
  <2> SUFFICES ASSUME NEW c \in Commands  PROVE CommandInv(c)'
    OBVIOUS
  <2>1. CommandInv(c) /\ cmd'[c] = cmd[c]
    BY <1>1 DEF IInv
  <2> QED
    BY <1>1, <2>1, OthersKeep
<1>3. UNCHANGED <<record, history, swept, cmd, tree>>
  BY <1>1 DEF approvals, repo
<1>4. RecordFollows' /\ Shown'
  BY <1>3 DEF IInv, RecordFollows, Shown, Decisions, InHistory
<1>5. /\ bundle \in Bundle /\ assessment \in Assessment /\ versions \in Nat
      /\ run.draft \in Assessment /\ finalization \in Nat \cup {None}
      /\ run \in [at : {"idle", "working", "verify", "assessing", "finalizing"},
                  draft : Assessment]
  BY <1>1 DEF TypeOK
<1>6. /\ bundle # None => bundle \in EvidenceBundle /\ bundle \in Bundles
      /\ Finalized
  BY <1>5 DEF Bundle, Bundles, IInv
<1>7. ASSUME UNCHANGED <<bundle, versions>>, finalization' \in Nat \cup {None},
             \/ UNCHANGED <<run, assessment>>
             \/ /\ assessment' = assessment
                /\ run' \in [at : {"idle", "working", "verify", "assessing", "finalizing"},
                             draft : Assessment]
                /\ \/ run'.draft \in {run.draft, None}
                   \/ bundle # None /\ run'.draft = Report(bundle)
             \/ assessment' = run.draft /\ run' = [at |-> "finalizing", draft |-> None],
             Finalized'
      PROVE  IInv'
  <2>1. run' \in [at : {"idle", "working", "verify", "assessing", "finalizing"},
                  draft : Assessment]
        /\ assessment' \in Assessment
    BY <1>5, <1>7 DEF Assessment
  <2>2. TypeOK'
    BY <1>1, <1>3, <1>7, <2>1 DEF TypeOK
  <2>3. Bundles' = Bundles
    BY <1>3, <1>7 DEF Bundles
  <2>4. Numbered'
    BY <1>7, <2>3 DEF IInv, Numbered
  <2>5. \A a \in Reports' : a \in Reports \/ (bundle # None /\ a = Report(bundle))
    BY <1>3, <1>7 DEF Reports
  <2>6. bundle # None =>
          /\ Report(bundle).of = bundle.createdAt
          /\ Report(bundle).verdict = "pass" => bundle.facts = "passed"
    BY <1>6, ReportOfBundle
  <2> HIDE DEF Report
  <2>7. \A a \in Reports' : a.of <= versions'
    BY <1>6, <1>7, <2>5, <2>6 DEF IInv, Reported, Numbered
  <2>8. \A a \in Reports', b \in Bundles' :
           a.of = b.createdAt /\ a.verdict = "pass" => b.facts = "passed"
    BY <1>6, <2>3, <2>5, <2>6 DEF IInv, Reported, Numbered
  <2>9. Reported'
    BY <2>7, <2>8 DEF Reported
  <2> QED
    BY <1>2, <1>4, <1>7, <2>2, <2>4, <2>9 DEF IInv
<1>8. ASSUME NEW p \in Patches, NEW facts \in Facts, RunWritesEvidence(p, facts)
      PROVE  IInv'
  <2> DEFINE new == [createdAt |-> versions', patch |-> p, facts |-> facts]
  <2>1. /\ versions' = versions + 1 /\ bundle' = new
        /\ run' = [run EXCEPT !.at = "verify"] /\ run.at = "working"
        /\ assessment' = assessment /\ finalization' = finalization
    BY <1>8 DEF RunWritesEvidence
  <2>2. new \in EvidenceBundle /\ versions' \in Nat
    BY <1>5, <2>1 DEF EvidenceBundle
  <2>3. TypeOK'
    <3>1. run' \in [at : {"idle", "working", "verify", "assessing", "finalizing"},
                    draft : Assessment]
      BY <1>5, <2>1
    <3> HIDE DEF new
    <3> QED
      BY <1>1, <1>3, <2>1, <2>2, <3>1 DEF TypeOK, Bundle
  <2>4. Finalized'
    BY <1>6, <2>1 DEF Finalized
  <2>5. \A b \in Bundles' : b \in Bundles \/ b = new
    BY <1>3, <2>1 DEF Bundles
  <2>6. Reports' = Reports
    BY <1>3, <1>5, <2>1 DEF Reports
  <2>7. \A b \in Bundles : b.createdAt \in Nat
    BY <1>1 DEF Bundles, TypeOK, Command, Bundle, EvidenceBundle
  <2>8. \A a \in Reports : a.of \in Nat
    BY <1>1 DEF Reports, TypeOK, Command, Assessment, AssessmentReport
  <2>9. new.createdAt = versions + 1
    BY <2>1
  <2> HIDE DEF new
  <2>10. Numbered'
    BY <1>5, <2>1, <2>5, <2>7, <2>9 DEF IInv, Numbered
  <2>11. Reported'
    BY <1>5, <2>1, <2>5, <2>6, <2>8, <2>9 DEF IInv, Reported
  <2> QED
    BY <1>2, <1>4, <2>3, <2>4, <2>10, <2>11 DEF IInv
<1>9. CASE StartRun
  BY <1>5, <1>7, <1>9 DEF StartRun, Unfinalized, Finalized, files
<1>10. CASE RunVerifies
  <2>1. /\ UNCHANGED files /\ bundle # None /\ run.at = "verify"
        /\ run' = [at |-> "assessing", draft |-> Report(bundle)]
    BY <1>10 DEF RunVerifies
  <2>2. Report(bundle) \in Assessment
    BY <1>6, <2>1, ReportOfBundle DEF Assessment
  <2> HIDE DEF Report
  <2> QED
    BY <1>5, <1>6, <1>7, <2>1, <2>2 DEF Finalized, files
<1>11. CASE RunWritesAssessment
  BY <1>5, <1>6, <1>7, <1>11 DEF RunWritesAssessment, Finalized
<1>12. CASE RunFinalizes
  <2>1. /\ UNCHANGED <<bundle, versions, assessment>> /\ bundle # None
        /\ run' = [run EXCEPT !.at = "idle"] /\ finalization' = bundle.createdAt
    BY <1>12 DEF RunFinalizes
  <2>2. finalization' \in Nat
    BY <1>6, <2>1 DEF EvidenceBundle
  <2> QED
    BY <1>5, <1>7, <2>1, <2>2 DEF Finalized
<1>13. CASE RunThrows \/ RunCrashes
  <2>1. UNCHANGED files /\ run' = [at |-> "idle", draft |-> None]
    BY <1>13 DEF RunThrows, RunCrashes
  <2>2. run'.draft = None /\ run'.at = "idle" /\ None \in Assessment
    BY <2>1 DEF Assessment
  <2> QED
    BY <1>5, <1>7, <2>1, <2>2 DEF Finalized, files
<1> QED
  BY <1>8, <1>9, <1>10, <1>11, <1>12, <1>13 DEF Run
-----------------------------------------------------------------------------
(***************************************************************************)
(* The steps of a command.                                                 *)
(***************************************************************************)

\* What a command writes leaves what the others rely on.
LEMMA WritesEvolve ==
  ASSUME TypeOK, NEW c \in Commands, Writes(c), TypeOK'
  PROVE  Evolves
<1>1. history \in Seq(ApprovalRecord) /\ history' \in Seq(ApprovalRecord)
  BY DEF TypeOK
<1>2. ~swept' => history' = history \/ history' = Append(history, DecisionOf(cmd[c]))
  BY DEF Writes
<1>3. ~swept' => /\ Len(history) <= Len(history')
                 /\ \A i \in DOMAIN history :
                       i \in DOMAIN history' /\ history'[i] = history[i]
  <2>1. CASE history' = history
    BY <1>1, <2>1
  <2>2. CASE history' = Append(history, DecisionOf(cmd[c]))
    <3> HIDE DEF DecisionOf
    <3> QED
      BY <1>1, <2>2
  <2> QED
    BY <1>2, <2>1, <2>2
<1> QED
  BY <1>1, <1>3 DEF Evolves, Writes

\* The parts of the invariant that are about one command survive its move if
\* what they rely on does.
Keeps(c) ==
  /\ TypeOK /\ TypeOK' /\ Evolves /\ CommandInv(c)
  /\ cmd[c].at # "idle" /\ cmd'[c].at # "idle"
  /\ cmd'[c].kind = cmd[c].kind /\ cmd'[c].final = cmd[c].final
  /\ cmd'[c].since = cmd[c].since /\ cmd'[c].bundle = cmd[c].bundle

LEMMA KeepsFinal ==
  ASSUME NEW c \in Commands, Keeps(c),
         cmd'[c].reread \in {cmd[c].reread, cmd[c].bundle, bundle}
  PROVE  ReadFinal(c)'
BY DEF Keeps, CommandInv, ReadFinal, Evolves

LEMMA KeepsPlan ==
  ASSUME NEW c \in Commands, Keeps(c), cmd'[c].at \in Planned => cmd[c].at \in Planned,
         cmd'[c].assessment = cmd[c].assessment, cmd'[c].approval = cmd[c].approval
  PROVE  PlanHeld(c)'
BY DEF Keeps, CommandInv, PlanHeld

LEMMA KeepsHistory ==
  ASSUME NEW c \in Commands, Keeps(c)
  PROVE  ~swept' => /\ ~swept
                    /\ cmd'[c].since \in Nat
                    /\ cmd'[c].since <= Len(history')
                    /\ \A i \in DOMAIN history :
                          i \in DOMAIN history' /\ history'[i] = history[i]
<1> SUFFICES ASSUME ~swept'
             PROVE  /\ ~swept
                    /\ cmd'[c].since \in Nat
                    /\ cmd'[c].since <= Len(history')
                    /\ \A i \in DOMAIN history :
                          i \in DOMAIN history' /\ history'[i] = history[i]
  OBVIOUS
<1>1. ~swept /\ Len(history) <= Len(history')
      /\ \A i \in DOMAIN history :
         i \in DOMAIN history' /\ history'[i] = history[i]
  BY DEF Evolves, InHistory, Keeps
<1>2. Len(history) \in Nat /\ Len(history') \in Nat /\ cmd[c].since \in Nat
  BY DEF TypeOK, Command, Keeps
<1>3. cmd[c].since <= Len(history)
  BY <1>1 DEF Keeps, CommandInv, ReadLatest
<1> QED
  BY <1>1, <1>2, <1>3 DEF Keeps

\* An approval that was the latest stays one that was.
LEMMA KeepsLatest ==
  ASSUME NEW c \in Commands, Keeps(c), cmd'[c].approval = cmd[c].approval,
         cmd'[c].at # "record",
         cmd'[c].at \in {"repository", "reread", "tracked"} =>
           cmd[c].at \in {"repository", "reread", "tracked"}
  PROVE  ReadLatest(c)'
<1> SUFFICES ASSUME ~swept'  PROVE ReadLatest(c)'
  BY DEF ReadLatest
<1>1. /\ ~swept /\ cmd'[c].since <= Len(history')
      /\ \A i \in DOMAIN history :
         i \in DOMAIN history' /\ history'[i] = history[i]
  BY KeepsHistory
<1>2. cmd[c].at \in {"repository", "reread", "tracked"} /\ cmd[c].approval # None =>
        \E i \in Nat : i >= cmd[c].since /\ InHistory(cmd[c].approval, i)
  BY <1>1 DEF Keeps, CommandInv, ReadLatest
<1>3. cmd'[c].at \in {"repository", "reread", "tracked"} /\ cmd'[c].approval # None =>
        \E i \in Nat : /\ i >= cmd'[c].since
                       /\ i \in DOMAIN history' /\ history'[i] = cmd'[c].approval
  BY <1>1, <1>2 DEF Keeps, InHistory
<1> QED
  BY <1>1, <1>3 DEF ReadLatest, InHistory

\* A command that is over has nothing to keep.
LEMMA ForgetHolds ==
  ASSUME TypeOK, NEW c \in Commands, Forget(c)
  PROVE  Moves(c) /\ CommandInv(c)' /\ cmd'[c].at = "idle"
<1>1. /\ cmd' \in [Commands -> Command] /\ cmd'[c] = Idle
      /\ \A d \in Commands \ {c} : cmd'[d] = cmd[d]
  BY IdleIsCommand, Moved DEF Forget, TypeOK
<1>2. Moves(c)
  BY <1>1 DEF Moves, Idle
<1>3. CommandInv(c)'
  BY <1>1 DEF CommandInv, Shape, ReadFinal, PlanHeld, ReadLatest, Wrote, Idle, Planned,
              Deciding
<1> QED
  BY <1>1, <1>2, <1>3 DEF Idle

\* A command that only goes on to another place.
LEMMA GotoMoves ==
  ASSUME TypeOK, NEW c \in Commands, NEW to \in Places, Goto(c, to)
  PROVE  /\ Moves(c) /\ cmd'[c].at = to
         /\ cmd'[c].kind = cmd[c].kind /\ cmd'[c].final = cmd[c].final
         /\ cmd'[c].since = cmd[c].since /\ cmd'[c].bundle = cmd[c].bundle
         /\ cmd'[c].assessment = cmd[c].assessment /\ cmd'[c].approval = cmd[c].approval
         /\ cmd'[c].reread = cmd[c].reread /\ cmd'[c].todo = cmd[c].todo
<1>1. cmd[c] \in Command /\ cmd \in [Commands -> Command]
  BY DEF TypeOK
<1>2. [cmd[c] EXCEPT !.at = to] \in Command
  BY <1>1 DEF Command
<1>3. cmd' = [cmd EXCEPT ![c] = [cmd[c] EXCEPT !.at = to]]
  BY <1>1 DEF Goto
<1>4. /\ cmd' \in [Commands -> Command] /\ cmd'[c] = [cmd[c] EXCEPT !.at = to]
      /\ \A d \in Commands \ {c} : cmd'[d] = cmd[d]
  BY <1>1, <1>2, <1>3, Moved
<1> QED
  BY <1>1, <1>4 DEF Moves, Command

\* Nothing is written.
LEMMA NothingWritten ==
  ASSUME TypeOK, NEW c \in Commands, UNCHANGED <<files, approvals, swept, run, tree>>
  PROVE  Writes(c)
BY DEF TypeOK, Writes, files, approvals
-----------------------------------------------------------------------------
(***************************************************************************)
(* From the command that moves to the whole.                               *)
(***************************************************************************)
LEMMA StepInvariant ==
  ASSUME IInv, NEW c \in Commands, Moves(c), Writes(c), CommandInv(c)',
         record' \in {record, None}, cmd'[c].at # "noting"
  PROVE  IInv'
<1>1. TypeOK /\ Numbered /\ Reported /\ Shown /\ \A d \in Commands : CommandInv(d)
  BY DEF IInv
<1>2. TypeOK' /\ Numbered' /\ Reported' /\ Shown'
  BY <1>1, CommandTypes, CommandData
<1>3. Evolves
  BY <1>1, <1>2, WritesEvolve
<1>4. \A d \in Commands : CommandInv(d)'
  <2> SUFFICES ASSUME NEW d \in Commands, d # c  PROVE CommandInv(d)'
    OBVIOUS
  <2>1. cmd'[d] = cmd[d] /\ CommandInv(d)
    BY <1>1 DEF Moves
  <2> QED
    BY <1>1, <1>3, <2>1, OthersKeep
<1>5. RecordFollows'
  <2> SUFFICES ASSUME ~swept'  PROVE RecordFollows'
    BY DEF RecordFollows
  <2>1. ~swept /\ \A i \in DOMAIN history :
                     i \in DOMAIN history' /\ history'[i] = history[i]
    BY <1>3 DEF Evolves
  <2>2. \A d \in Commands : cmd'[d].at = "noting" => cmd'[d] = cmd[d]
    BY DEF Moves
  <2> QED
    BY <2>1, <2>2 DEF IInv, RecordFollows, InHistory
<1>6. Finalized'
  BY DEF IInv, Finalized, Writes
<1> QED
  BY <1>2, <1>4, <1>5, <1>6 DEF IInv

LEMMA ForgetInvariant ==
  ASSUME IInv, NEW c \in Commands, Forget(c), Writes(c), record' \in {record, None}
  PROVE  IInv'
BY ForgetHolds, StepInvariant DEF IInv

\* The step keeps what the moving command relies on as well.
LEMMA StepKeeps ==
  ASSUME IInv, NEW c \in Commands, Moves(c), Writes(c),
         cmd[c].at # "idle", cmd'[c].at # "idle",
         cmd'[c].kind = cmd[c].kind, cmd'[c].final = cmd[c].final,
         cmd'[c].since = cmd[c].since, cmd'[c].bundle = cmd[c].bundle
  PROVE  Keeps(c)
<1>1. TypeOK /\ CommandInv(c)
  BY DEF IInv
<1>2. TypeOK'
  BY <1>1, CommandTypes
<1>3. Evolves
  BY <1>1, <1>2, WritesEvolve
<1> QED
  BY <1>1, <1>2, <1>3 DEF Keeps

\* A command that goes on without changing what it has read.
LEMMA GotoInvariant ==
  ASSUME IInv, NEW c \in Commands, NEW to \in Places, Goto(c, to), Writes(c),
         record' \in {record, None}, cmd[c].at # "idle", to \notin {"idle", "record", "noting"},
         to \in {"repository", "reread", "tracked"} =>
           cmd[c].at \in {"repository", "reread", "tracked"},
         Shape(c)', PlanHeld(c)', Wrote(c)'
  PROVE  IInv'
<1>1. /\ Moves(c) /\ cmd'[c].at = to
      /\ cmd'[c].kind = cmd[c].kind /\ cmd'[c].final = cmd[c].final
      /\ cmd'[c].since = cmd[c].since /\ cmd'[c].bundle = cmd[c].bundle
      /\ cmd'[c].approval = cmd[c].approval /\ cmd'[c].reread = cmd[c].reread
  BY GotoMoves DEF IInv
<1>2. Keeps(c)
  BY <1>1, StepKeeps
<1>3. ReadFinal(c)' /\ ReadLatest(c)'
  BY <1>1, <1>2, KeepsFinal, KeepsLatest
<1> QED
  BY <1>1, <1>3, StepInvariant DEF CommandInv

-----------------------------------------------------------------------------
(***************************************************************************)
(* Reading, and the plan.                                                  *)
(***************************************************************************)
LEMMA ReadBundleInvariant ==
  ASSUME IInv, NEW c \in Commands, NEW kind \in Kinds, ReadBundle(c, kind)
  PROVE  IInv'
<1> DEFINE m == [Idle EXCEPT !.kind = kind, !.bundle = bundle,
                             !.final = finalization # None, !.since = Len(history),
                             !.at = IF kind = "assess" THEN "verify" ELSE "assessment"]
<1>1. TypeOK /\ bundle # None /\ UNCHANGED <<files, approvals, swept, run, tree>>
      /\ cmd' = [cmd EXCEPT ![c] = m]
  BY DEF IInv, ReadBundle, execution, repo
<1>2. kind \in AllKinds /\ bundle \in Bundle /\ Len(history) \in Nat
      /\ None \in Bundle \cap Assessment \cap Approval
  BY <1>1, GateAssumption DEF TypeOK, Bundle, Assessment, Approval
<1>3. m \in Command
  BY <1>2 DEF Idle, Command, Places
<1>4. /\ m.kind = kind /\ m.at \in {"verify", "assessment"} /\ m.since = Len(history)
      /\ m.bundle = bundle /\ m.assessment = None /\ m.approval = None /\ m.reread = None
      /\ m.final => finalization # None
  BY DEF Idle
<1> HIDE DEF m
<1>5. /\ cmd' \in [Commands -> Command] /\ cmd'[c] = m
      /\ \A d \in Commands \ {c} : cmd'[d] = cmd[d]
  BY <1>1, <1>3, Moved DEF TypeOK
<1>6. Moves(c)
  BY <1>4, <1>5 DEF Moves
<1>7. Writes(c)
  BY <1>1, NothingWritten
<1>8. Shape(c)' /\ PlanHeld(c)' /\ Wrote(c)'
  BY <1>1, <1>4, <1>5 DEF Shape, PlanHeld, Wrote, Planned, Deciding
<1>9. ReadFinal(c)' /\ ReadLatest(c)'
  BY <1>1, <1>2, <1>4, <1>5 DEF ReadFinal, ReadLatest, files, approvals
<1> QED
  BY <1>1, <1>4, <1>5, <1>6, <1>7, <1>8, <1>9, StepInvariant DEF CommandInv, approvals

LEMMA VerifyGitPatchInvariant ==
  ASSUME IInv, NEW c \in Commands, VerifyGitPatch(c)
  PROVE  IInv'
<1> DEFINE r == Report(cmd[c].bundle)
           m == [cmd[c] EXCEPT !.assessment = r, !.at = "write"]
<1>1. TypeOK /\ UNCHANGED <<files, approvals, swept, run, tree>>
      /\ cmd[c] \in Command /\ CommandInv(c) /\ cmd[c].at = "verify"
  BY DEF IInv, TypeOK, VerifyGitPatch, execution, repo
<1>2. cmd[c].bundle # None /\ r \in AssessmentReport
  <2>1. cmd[c].bundle # None /\ cmd[c].bundle \in EvidenceBundle
    BY <1>1 DEF CommandInv, Shape, Command, Bundle
  <2> QED
    BY <2>1, ReportOfBundle
<1>3. r # None
  BY <1>2, NoneAssumption
<1>4. cmd' = [cmd EXCEPT ![c] = m]
  BY <1>1 DEF VerifyGitPatch, TypeOK
<1> HIDE DEF r
<1>5. m \in Command
  BY <1>1, <1>2 DEF Command, Assessment, Places
<1>6. /\ m.at = "write" /\ m.assessment = r
      /\ m.kind = cmd[c].kind /\ m.final = cmd[c].final /\ m.since = cmd[c].since
      /\ m.bundle = cmd[c].bundle /\ m.approval = cmd[c].approval /\ m.reread = cmd[c].reread
  BY <1>1 DEF Command
<1> HIDE DEF m
<1>7. /\ cmd' \in [Commands -> Command] /\ cmd'[c] = m
      /\ \A d \in Commands \ {c} : cmd'[d] = cmd[d]
  BY <1>1, <1>4, <1>5, Moved DEF TypeOK
<1>8. Moves(c)
  BY <1>2, <1>6, <1>7 DEF Moves, r
<1>9. Writes(c)
  BY <1>1, NothingWritten
<1>10. Keeps(c)
  BY <1>1, <1>6, <1>7, <1>8, <1>9, StepKeeps
<1>11. Shape(c)' /\ PlanHeld(c)' /\ Wrote(c)'
  BY <1>1, <1>2, <1>3, <1>6, <1>7 DEF Shape, PlanHeld, Wrote, Planned, Deciding, CommandInv
<1>12. ReadFinal(c)' /\ ReadLatest(c)'
  BY <1>6, <1>7, <1>10, KeepsFinal, KeepsLatest
<1> QED
  BY <1>1, <1>6, <1>7, <1>8, <1>9, <1>11, <1>12, StepInvariant DEF CommandInv, approvals

LEMMA ReadAssessmentInvariant ==
  ASSUME IInv, NEW c \in Commands, ReadAssessment(c)
  PROVE  IInv'
<1> DEFINE m == [cmd[c] EXCEPT !.assessment = assessment, !.at = "history"]
<1>1. TypeOK /\ UNCHANGED <<files, approvals, swept, run, tree>> /\ assessment \in Assessment
      /\ cmd[c] \in Command /\ CommandInv(c) /\ cmd[c].at = "assessment"
      /\ cmd[c].kind \in Planning
  BY DEF IInv, TypeOK, ReadAssessment, execution, repo
<1>2. cmd' = [cmd EXCEPT ![c] = m]
  BY <1>1 DEF ReadAssessment, TypeOK
<1>3. m \in Command
  BY <1>1 DEF Command, Places
<1>4. /\ m.at = "history" /\ m.assessment = assessment
      /\ m.kind = cmd[c].kind /\ m.final = cmd[c].final /\ m.since = cmd[c].since
      /\ m.bundle = cmd[c].bundle /\ m.approval = cmd[c].approval /\ m.reread = cmd[c].reread
  BY <1>1 DEF Command
<1> HIDE DEF m
<1>5. /\ cmd' \in [Commands -> Command] /\ cmd'[c] = m
      /\ \A d \in Commands \ {c} : cmd'[d] = cmd[d]
  BY <1>1, <1>2, <1>3, Moved DEF TypeOK
<1>6. Moves(c)
  BY <1>4, <1>5 DEF Moves
<1>7. Writes(c)
  BY <1>1, NothingWritten
<1>8. Keeps(c)
  BY <1>1, <1>4, <1>5, <1>6, <1>7, StepKeeps
<1>9. Shape(c)' /\ PlanHeld(c)' /\ Wrote(c)'
  BY <1>1, <1>4, <1>5 DEF Shape, PlanHeld, Wrote, Planned, Deciding, CommandInv
<1>10. ReadFinal(c)' /\ ReadLatest(c)'
  BY <1>4, <1>5, <1>8, KeepsFinal, KeepsLatest
<1> QED
  BY <1>1, <1>4, <1>5, <1>6, <1>7, <1>9, <1>10, StepInvariant DEF CommandInv, approvals

\* The approval it takes is the last of the history, or the record where the
\* history was empty when it began and nothing is swept.
LEMMA ReadHistoryInvariant ==
  ASSUME IInv, NEW c \in Commands, ReadHistory(c)
  PROVE  IInv'
<1>1. TypeOK /\ UNCHANGED <<files, approvals, swept, run, tree>>
      /\ cmd[c] \in Command /\ CommandInv(c) /\ cmd[c].at = "history"
      /\ history \in Seq(ApprovalRecord)
  BY DEF IInv, TypeOK, ReadHistory, execution, repo
<1>2. Writes(c)
  BY <1>1, NothingWritten
<1>3. CASE history # <<>>
  <2> DEFINE d == Last(history)
             m == [cmd[c] EXCEPT !.approval = d, !.at = "repository"]
  <2>1. cmd' = [cmd EXCEPT ![c] = m]
    BY <1>1, <1>3 DEF ReadHistory, TypeOK
  <2>2. Len(history) \in DOMAIN history /\ d = history[Len(history)] /\ d \in ApprovalRecord
        /\ Len(history) \in Nat
    BY <1>1, <1>3 DEF Last
  <2> HIDE DEF d
  <2>3. m \in Command
    BY <1>1, <2>2 DEF Command, Approval, Places
  <2>4. /\ m.at = "repository" /\ m.approval = d /\ m.assessment = cmd[c].assessment
        /\ m.kind = cmd[c].kind /\ m.final = cmd[c].final /\ m.since = cmd[c].since
        /\ m.bundle = cmd[c].bundle /\ m.reread = cmd[c].reread
    BY <1>1 DEF Command
  <2> HIDE DEF m
  <2>5. /\ cmd' \in [Commands -> Command] /\ cmd'[c] = m
        /\ \A e \in Commands \ {c} : cmd'[e] = cmd[e]
    BY <1>1, <2>1, <2>3, Moved DEF TypeOK
  <2>6. Moves(c)
    BY <2>2, <2>4, <2>5 DEF Moves
  <2>7. Keeps(c)
    BY <1>1, <1>2, <2>4, <2>5, <2>6, StepKeeps
  <2>8. Shape(c)' /\ PlanHeld(c)' /\ Wrote(c)'
    BY <1>1, <2>4, <2>5 DEF Shape, PlanHeld, Wrote, Planned, Deciding, CommandInv
  <2>9. ReadFinal(c)'
    BY <2>4, <2>5, <2>7, KeepsFinal
  <2>10. ReadLatest(c)'
    <3> SUFFICES ASSUME ~swept'  PROVE ReadLatest(c)'
      BY DEF ReadLatest
    <3>1. cmd'[c].since <= Len(history') /\ history' = history /\ cmd'[c].since \in Nat
      BY <1>1, <2>7, KeepsHistory DEF approvals
    <3> QED
      BY <2>2, <2>4, <2>5, <3>1 DEF ReadLatest, InHistory
  <2> QED
    BY <1>1, <1>2, <2>4, <2>5, <2>6, <2>8, <2>9, <2>10, StepInvariant DEF CommandInv, approvals
<1>4. CASE history = <<>>
  <2>1. Goto(c, "record") /\ "record" \in Places
    BY <1>4 DEF ReadHistory, Places
  <2>2. /\ Moves(c) /\ cmd'[c].at = "record"
        /\ cmd'[c].kind = cmd[c].kind /\ cmd'[c].final = cmd[c].final
        /\ cmd'[c].since = cmd[c].since /\ cmd'[c].bundle = cmd[c].bundle
        /\ cmd'[c].reread = cmd[c].reread
    BY <1>1, <2>1, GotoMoves
  <2>3. Keeps(c)
    BY <1>1, <1>2, <2>2, StepKeeps
  <2>4. Shape(c)' /\ PlanHeld(c)' /\ Wrote(c)'
    BY <1>1, <2>2 DEF Shape, PlanHeld, Wrote, Planned, Deciding, CommandInv
  <2>5. ReadFinal(c)'
    BY <2>2, <2>3, KeepsFinal
  <2>6. ReadLatest(c)'
    <3> SUFFICES ASSUME ~swept'  PROVE ReadLatest(c)'
      BY DEF ReadLatest
    <3>1. cmd'[c].since <= Len(history') /\ history' = history /\ cmd'[c].since \in Nat
      BY <1>1, <2>3, KeepsHistory DEF approvals
    <3>2. cmd'[c].since = 0
      BY <1>4, <3>1
    <3> QED
      BY <2>2, <3>1, <3>2 DEF ReadLatest
  <2> QED
    BY <1>1, <1>2, <2>2, <2>4, <2>5, <2>6, StepInvariant DEF CommandInv, approvals
<1> QED
  BY <1>3, <1>4

LEMMA ReadRecordInvariant ==
  ASSUME IInv, NEW c \in Commands, ReadRecord(c)
  PROVE  IInv'
<1> DEFINE m == [cmd[c] EXCEPT !.approval = record, !.at = "repository"]
<1>1. TypeOK /\ UNCHANGED <<files, approvals, swept, run, tree>> /\ record \in Approval
      /\ cmd[c] \in Command /\ CommandInv(c) /\ cmd[c].at = "record"
  BY DEF IInv, TypeOK, ReadRecord, execution, repo
<1>2. cmd' = [cmd EXCEPT ![c] = m]
  BY <1>1 DEF ReadRecord, TypeOK
<1>3. m \in Command
  BY <1>1 DEF Command, Places
<1>4. /\ m.at = "repository" /\ m.approval = record /\ m.assessment = cmd[c].assessment
      /\ m.kind = cmd[c].kind /\ m.final = cmd[c].final /\ m.since = cmd[c].since
      /\ m.bundle = cmd[c].bundle /\ m.reread = cmd[c].reread
  BY <1>1 DEF Command
<1> HIDE DEF m
<1>5. /\ cmd' \in [Commands -> Command] /\ cmd'[c] = m
      /\ \A d \in Commands \ {c} : cmd'[d] = cmd[d]
  BY <1>1, <1>2, <1>3, Moved DEF TypeOK
<1>6. Moves(c)
  BY <1>4, <1>5 DEF Moves
<1>7. Writes(c)
  BY <1>1, NothingWritten
<1>8. Keeps(c)
  BY <1>1, <1>4, <1>5, <1>6, <1>7, StepKeeps
<1>9. Shape(c)' /\ PlanHeld(c)' /\ Wrote(c)'
  BY <1>1, <1>4, <1>5 DEF Shape, PlanHeld, Wrote, Planned, Deciding, CommandInv
<1>10. ReadFinal(c)'
  BY <1>4, <1>5, <1>8, KeepsFinal
<1>11. ReadLatest(c)'
  <2> SUFFICES ASSUME ~swept'  PROVE ReadLatest(c)'
    BY DEF ReadLatest
  <2>1. ~swept /\ cmd'[c].since <= Len(history') /\ history' = history
    BY <1>1, <1>8, KeepsHistory DEF approvals
  <2>2. cmd'[c].since = 0
    BY <1>1, <1>4, <1>5, <2>1 DEF CommandInv, ReadLatest
  <2>3. record # None => \E i \in Nat : i >= 0 /\ InHistory(record, i)
    BY <2>1 DEF IInv, RecordFollows
  <2> QED
    BY <1>4, <1>5, <2>1, <2>2, <2>3 DEF ReadLatest, InHistory
<1> QED
  BY <1>1, <1>4, <1>5, <1>6, <1>7, <1>9, <1>10, <1>11, StepInvariant DEF CommandInv, approvals
\* What proceeds past the plan is what the plan asks for.
LEMMA CompletePlanInvariant ==
  ASSUME IInv, NEW c \in Commands, CompletePlan(c)
  PROVE  IInv'
<1>1. TypeOK /\ UNCHANGED <<files, approvals, swept, run, tree>>
      /\ cmd[c] \in Command /\ CommandInv(c) /\ cmd[c].at = "repository"
  BY DEF IInv, TypeOK, CompletePlan, execution, repo
<1>2. Writes(c) /\ record' \in {record, None}
  BY <1>1, NothingWritten DEF approvals
<1>3. CASE Forget(c)
  BY <1>2, <1>3, ForgetInvariant
<1>4. CASE Proceeds(cmd[c]) /\ Goto(c, "reread")
  <2>1. "reread" \in Places
    BY DEF Places, Planned
  <2>2. /\ cmd'[c].at = "reread" /\ cmd'[c].kind = cmd[c].kind
        /\ cmd'[c].bundle = cmd[c].bundle /\ cmd'[c].assessment = cmd[c].assessment
        /\ cmd'[c].approval = cmd[c].approval
    BY <1>1, <1>4, <2>1, GotoMoves
  <2>3. Shape(c)' /\ Wrote(c)'
    BY <1>1, <2>2 DEF Shape, Wrote, CommandInv, Deciding
  <2>4. cmd[c].kind = "apply" => Ready(cmd[c])
    BY <1>4 DEF Proceeds
  <2> HIDE DEF BlocksApply, RequiresApproval, Approves
  <2>5. PlanHeld(c)'
    BY <2>2, <2>4 DEF PlanHeld, Ready, AssessmentMatches
  <2> QED
    BY <1>1, <1>2, <1>4, <2>1, <2>3, <2>5, GotoInvariant
<1> QED
  BY <1>3, <1>4 DEF CompletePlan

LEMMA RereadBundleInvariant ==
  ASSUME IInv, NEW c \in Commands, RereadBundle(c)
  PROVE  IInv'
<1> DEFINE to == IF cmd[c].kind = "apply" THEN "tracked" ELSE "decide"
           m == [cmd[c] EXCEPT !.reread = bundle, !.at = to]
<1>1. TypeOK /\ UNCHANGED <<files, approvals, swept, run, tree>>
      /\ cmd[c] \in Command /\ CommandInv(c) /\ cmd[c].at = "reread" /\ bundle \in Bundle
  BY DEF IInv, TypeOK, RereadBundle, execution, repo
<1>2. Writes(c) /\ record' \in {record, None}
  BY <1>1, NothingWritten DEF approvals
<1>3. CASE bundle = None
  BY <1>2, <1>3, ForgetInvariant DEF RereadBundle
<1>4. CASE bundle # None
  <2>1. cmd' = [cmd EXCEPT ![c] = m]
    BY <1>1, <1>4 DEF RereadBundle, TypeOK
  <2>2. to \in {"tracked", "decide"} /\ (to = "tracked" => cmd[c].kind = "apply")
    OBVIOUS
  <2> HIDE DEF to
  <2>3. m \in Command
    BY <1>1, <2>2 DEF Command, Places, Planned, Deciding
  <2>4. /\ m.at = to /\ m.reread = bundle /\ m.assessment = cmd[c].assessment
        /\ m.kind = cmd[c].kind /\ m.final = cmd[c].final /\ m.since = cmd[c].since
        /\ m.bundle = cmd[c].bundle /\ m.approval = cmd[c].approval
    BY <1>1 DEF Command
  <2> HIDE DEF m
  <2>5. /\ cmd' \in [Commands -> Command] /\ cmd'[c] = m
        /\ \A d \in Commands \ {c} : cmd'[d] = cmd[d]
    BY <1>1, <2>1, <2>3, Moved DEF TypeOK
  <2>6. Moves(c)
    BY <2>4, <2>5 DEF Moves
  <2>7. Keeps(c)
    BY <1>1, <1>2, <2>2, <2>4, <2>5, <2>6, StepKeeps
  <2>8. Shape(c)' /\ Wrote(c)'
    BY <1>1, <1>4, <2>2, <2>4, <2>5 DEF Shape, Wrote, Planned, Deciding, CommandInv
  <2>9. ReadFinal(c)' /\ PlanHeld(c)' /\ ReadLatest(c)'
    BY <1>1, <2>2, <2>4, <2>5, <2>7, KeepsFinal, KeepsPlan, KeepsLatest DEF Planned
  <2> QED
    BY <1>2, <2>2, <2>4, <2>5, <2>6, <2>8, <2>9, StepInvariant DEF CommandInv
<1> QED
  BY <1>3, <1>4

-----------------------------------------------------------------------------
(***************************************************************************)
(* Decisions: the history first, then the record.                          *)
(***************************************************************************)
LEMMA AppendDecisionInvariant ==
  ASSUME IInv, NEW c \in Commands, AppendDecision(c)
  PROVE  IInv'
<1> DEFINE new == DecisionOf(cmd[c])
<1>1. TypeOK /\ Numbered /\ Reported /\ Shown /\ (\A d \in Commands : CommandInv(d))
      /\ cmd[c] \in Command /\ CommandInv(c) /\ cmd[c].at = "decide"
      /\ history \in Seq(ApprovalRecord) /\ "noting" \in Places
  BY DEF IInv, TypeOK, AppendDecision, Places, Deciding
<1>2. /\ history' = Append(history, new) /\ Goto(c, "noting")
      /\ UNCHANGED <<files, record, swept, run, tree>>
  BY DEF AppendDecision, execution, repo
<1>3. Writes(c)
  BY <1>1, <1>2 DEF Writes, TypeOK, files
<1>4. /\ Moves(c) /\ cmd'[c].at = "noting"
      /\ cmd'[c].kind = cmd[c].kind /\ cmd'[c].final = cmd[c].final
      /\ cmd'[c].since = cmd[c].since /\ cmd'[c].bundle = cmd[c].bundle
      /\ cmd'[c].assessment = cmd[c].assessment /\ cmd'[c].approval = cmd[c].approval
      /\ cmd'[c].reread = cmd[c].reread
  BY <1>1, <1>2, GotoMoves
<1>5. TypeOK' /\ Numbered' /\ Reported' /\ Shown'
  BY <1>1, <1>3, <1>4, CommandTypes, CommandData
<1>6. Evolves
  BY <1>1, <1>3, <1>5, WritesEvolve
<1>7. Keeps(c)
  BY <1>1, <1>3, <1>4, StepKeeps
<1>8. Shape(c)' /\ PlanHeld(c)' /\ Wrote(c)'
  BY <1>1, <1>4 DEF Shape, PlanHeld, Wrote, Planned, Deciding, CommandInv
<1>9. ReadFinal(c)' /\ ReadLatest(c)'
  BY <1>4, <1>7, KeepsFinal, KeepsLatest
<1>10. \A d \in Commands : CommandInv(d)'
  <2> SUFFICES ASSUME NEW d \in Commands, d # c  PROVE CommandInv(d)'
    BY <1>8, <1>9 DEF CommandInv
  <2>1. cmd'[d] = cmd[d] /\ CommandInv(d)
    BY <1>1, <1>4 DEF Moves
  <2> QED
    BY <1>1, <1>6, <2>1, OthersKeep
<1>11. new \in ApprovalRecord
  BY <1>1, DecisionOfCommand DEF CommandInv, Shape, Deciding
<1>12. DecisionOf(cmd'[c]) = new
  BY <1>4 DEF DecisionOf
<1> HIDE DEF new
<1>13. RecordFollows'
  <2> SUFFICES ASSUME ~swept'  PROVE RecordFollows'
    BY DEF RecordFollows
  <2>1. ~swept /\ \A i \in DOMAIN history :
                     i \in DOMAIN history' /\ history'[i] = history[i]
    BY <1>6 DEF Evolves
  <2>2. Len(history) + 1 \in DOMAIN history' /\ history'[Len(history) + 1] = new
        /\ Len(history) + 1 \in Nat
    BY <1>1, <1>2, <1>11
  <2>3. \A d \in Commands \ {c} : cmd'[d] = cmd[d]
    BY <1>4 DEF Moves
  <2> HIDE DEF DecisionOf
  <2>4. record' = record
    BY <1>2
  <2>5. record' # None => \E i \in Nat : i \in DOMAIN history' /\ history'[i] = record'
    BY <2>1, <2>4 DEF IInv, RecordFollows, InHistory
  <2>6. \A d \in Commands : cmd'[d].at = "noting" =>
           \E i \in Nat : i \in DOMAIN history' /\ history'[i] = DecisionOf(cmd'[d])
    BY <1>12, <2>1, <2>2, <2>3 DEF IInv, RecordFollows, InHistory
  <2> QED
    BY <2>5, <2>6 DEF RecordFollows, InHistory
<1>14. Finalized'
  BY <1>2 DEF IInv, Finalized, files
<1> QED
  BY <1>5, <1>10, <1>13, <1>14 DEF IInv

LEMMA WriteRecordInvariant ==
  ASSUME IInv, NEW c \in Commands, WriteRecord(c)
  PROVE  IInv'
<1> DEFINE new == DecisionOf(cmd[c])
<1>1. TypeOK /\ Numbered /\ Reported /\ Shown /\ (\A d \in Commands : CommandInv(d))
      /\ CommandInv(c) /\ cmd[c].at = "noting"
  BY DEF IInv, WriteRecord
<1>2. /\ record' = new /\ Forget(c)
      /\ UNCHANGED <<files, history, swept, run, tree>>
  BY DEF WriteRecord, execution, repo
<1>3. Writes(c)
  BY <1>1, <1>2 DEF Writes, TypeOK, files
<1>4. Moves(c) /\ CommandInv(c)' /\ cmd'[c].at = "idle"
  BY <1>1, <1>2, ForgetHolds
<1>5. TypeOK' /\ Numbered' /\ Reported' /\ Shown'
  BY <1>1, <1>3, <1>4, CommandTypes, CommandData
<1>6. Evolves
  BY <1>1, <1>3, <1>5, WritesEvolve
<1>7. \A d \in Commands : CommandInv(d)'
  <2> SUFFICES ASSUME NEW d \in Commands, d # c  PROVE CommandInv(d)'
    BY <1>4
  <2>1. cmd'[d] = cmd[d] /\ CommandInv(d)
    BY <1>1, <1>4 DEF Moves
  <2> QED
    BY <1>1, <1>6, <2>1, OthersKeep
<1> HIDE DEF DecisionOf
<1>8. RecordFollows'
  <2> SUFFICES ASSUME ~swept'  PROVE RecordFollows'
    BY DEF RecordFollows
  <2>1. ~swept /\ history' = history
    BY <1>2
  <2>2. \E i \in Nat : InHistory(new, i)
    BY <1>1, <2>1 DEF IInv, RecordFollows
  <2>3. \A d \in Commands : cmd'[d].at = "noting" => cmd'[d] = cmd[d]
    BY <1>4 DEF Moves
  <2> QED
    BY <1>2, <2>1, <2>2, <2>3 DEF IInv, RecordFollows, InHistory
<1>9. Finalized'
  BY <1>2 DEF IInv, Finalized, files
<1> QED
  BY <1>5, <1>7, <1>8, <1>9 DEF IInv

-----------------------------------------------------------------------------
(***************************************************************************)
(* Applying.                                                               *)
(***************************************************************************)

\* What an apply at work has read.
LEMMA Applying ==
  ASSUME IInv, NEW c \in Commands, cmd[c].at \in {"tracked", "untracked", "writing", "applied"}
  PROVE  /\ TypeOK /\ CommandInv(c) /\ cmd[c] \in Command /\ cmd[c].kind = "apply"
         /\ cmd[c].reread \in EvidenceBundle /\ cmd[c].bundle # None
         /\ cmd[c].reread.patch.tracked \subseteq Files
         /\ cmd[c].reread.patch.untracked \subseteq Files
         /\ cmd[c].reread.createdAt \in Nat
         /\ cmd[c].reread.createdAt # Base /\ cmd[c].reread.createdAt # User
<1>1. TypeOK /\ CommandInv(c) /\ cmd[c] \in Command
  BY DEF IInv, TypeOK
<1>2. cmd[c].kind = "apply" /\ cmd[c].reread \in EvidenceBundle /\ cmd[c].bundle # None
  BY <1>1 DEF CommandInv, Shape, Command, Bundle
<1> QED
  BY <1>1, <1>2, PatchOfBundle

LEMMA ApplyPatchInvariant ==
  ASSUME IInv, NEW c \in Commands, ApplyPatch(c)
  PROVE  IInv'
<1> DEFINE b == cmd[c].reread
<1>1. cmd[c].at = "tracked" /\ UNCHANGED <<files, approvals, swept, run>>
  BY DEF ApplyPatch, execution
<1>2. TypeOK /\ CommandInv(c) /\ cmd[c].kind = "apply" /\ cmd[c].bundle # None /\ b # None
      /\ b.patch.tracked \subseteq Files /\ b.createdAt \in Nat
      /\ tree \in [Files -> Nat \cup {User}] /\ record' \in {record, None}
  BY <1>1, Applying, NoneAssumption DEF TypeOK, approvals
<1>3. CASE PatchApplies(b)
  <2>1. /\ tree' = [f \in Files |-> IF f \in b.patch.tracked THEN b.createdAt ELSE tree[f]]
        /\ Goto(c, "untracked") /\ "untracked" \in Places
    BY <1>3 DEF ApplyPatch, Places, Planned
  <2>2. \A f \in b.patch.tracked : tree'[f] = b.createdAt
    BY <1>2, <2>1
  <2>3. tree' \in [Files -> Nat \cup {User}]
        /\ \A f \in Files : tree[f] # Base => tree'[f] = tree[f]
    BY <1>2, <1>3, <2>1 DEF PatchApplies
  <2>4. Writes(c)
    BY <1>1, <1>2, <2>3 DEF Writes, TypeOK, files, approvals
  <2>5. /\ cmd'[c].at = "untracked" /\ cmd'[c].kind = "apply" /\ cmd'[c].reread = b
        /\ cmd'[c].bundle = cmd[c].bundle /\ cmd'[c].assessment = cmd[c].assessment
        /\ cmd'[c].approval = cmd[c].approval
    BY <1>2, <2>1, GotoMoves
  <2> HIDE DEF b
  <2>6. Shape(c)'
    BY <1>2, <2>5 DEF Shape, Deciding
  <2>7. Wrote(c)'
    <3>1. cmd'[c].reread = b /\ cmd'[c].at = "untracked"
      BY <2>5
    <3>2. \A f \in cmd'[c].reread.patch.tracked : tree'[f] = cmd'[c].reread.createdAt
      BY <2>2, <3>1
    <3> QED
      BY <3>1, <3>2 DEF Wrote
  <2>8. PlanHeld(c)'
    BY <1>1, <1>2, <2>5 DEF PlanHeld, CommandInv, Planned
  <2> QED
    BY <1>1, <1>2, <2>1, <2>4, <2>6, <2>7, <2>8, GotoInvariant
<1>4. CASE ~PatchApplies(b)
  <2>1. Forget(c) /\ tree' = tree
    BY <1>4 DEF ApplyPatch
  <2> QED
    BY <1>1, <1>2, <2>1, NothingWritten, ForgetInvariant
<1> QED
  BY <1>3, <1>4

LEMMA CheckTargetsInvariant ==
  ASSUME IInv, NEW c \in Commands, CheckTargets(c)
  PROVE  IInv'
<1> DEFINE targets == cmd[c].reread.patch.untracked
           m == [cmd[c] EXCEPT !.todo = targets, !.at = "writing"]
<1>1. cmd[c].at = "untracked" /\ UNCHANGED <<files, approvals, swept, run, tree>>
  BY DEF CheckTargets, execution, repo
<1>2. TypeOK /\ CommandInv(c) /\ cmd[c] \in Command /\ cmd[c].kind = "apply"
      /\ cmd[c].bundle # None /\ cmd[c].reread # None /\ targets \subseteq Files
  BY <1>1, Applying, NoneAssumption
<1>3. Writes(c) /\ record' \in {record, None}
  BY <1>1, <1>2, NothingWritten DEF approvals
<1>4. CASE Forget(c)
  BY <1>3, <1>4, ForgetInvariant
<1>5. CASE cmd' = [cmd EXCEPT ![c].todo = targets, ![c].at = "writing"]
  <2>1. cmd' = [cmd EXCEPT ![c] = m]
    BY <1>2, <1>5 DEF TypeOK
  <2>2. m \in Command
    BY <1>2 DEF Command, Places, Planned
  <2>3. /\ m.at = "writing" /\ m.todo = targets /\ m.assessment = cmd[c].assessment
        /\ m.kind = cmd[c].kind /\ m.final = cmd[c].final /\ m.since = cmd[c].since
        /\ m.bundle = cmd[c].bundle /\ m.approval = cmd[c].approval
        /\ m.reread = cmd[c].reread
    BY <1>2 DEF Command
  <2> HIDE DEF m
  <2>4. /\ cmd' \in [Commands -> Command] /\ cmd'[c] = m
        /\ \A d \in Commands \ {c} : cmd'[d] = cmd[d]
    BY <1>2, <2>1, <2>2, Moved DEF TypeOK
  <2>5. Moves(c)
    BY <2>3, <2>4 DEF Moves
  <2>6. Keeps(c)
    BY <1>1, <1>3, <2>3, <2>4, <2>5, StepKeeps
  <2>7. Shape(c)'
    BY <1>1, <1>2, <2>3, <2>4 DEF Shape, Planned, Deciding
  <2>8. Wrote(c)'
    <3>1. \A f \in cmd[c].reread.patch.tracked : tree[f] \in {cmd[c].reread.createdAt, User}
      BY <1>1, <1>2 DEF CommandInv, Wrote
    <3>2. tree' = tree /\ cmd'[c].at = "writing" /\ cmd'[c].reread = cmd[c].reread
          /\ cmd'[c].reread.patch.untracked \ cmd'[c].todo = {}
      BY <1>1, <2>3, <2>4
    <3> QED
      BY <3>1, <3>2 DEF Wrote
  <2>9. ReadFinal(c)' /\ PlanHeld(c)' /\ ReadLatest(c)'
    BY <1>1, <2>3, <2>4, <2>6, KeepsFinal, KeepsPlan, KeepsLatest DEF Planned
  <2> QED
    BY <1>3, <2>3, <2>4, <2>5, <2>7, <2>8, <2>9, StepInvariant DEF CommandInv
<1> QED
  BY <1>4, <1>5 DEF CheckTargets

LEMMA WriteUntrackedInvariant ==
  ASSUME IInv, NEW c \in Commands, NEW f \in Files, WriteUntracked(c, f)
  PROVE  IInv'
<1> DEFINE b == cmd[c].reread
           m == [cmd[c] EXCEPT !.todo = cmd[c].todo \ {f}]
<1>1. cmd[c].at = "writing" /\ UNCHANGED <<files, approvals, swept, run>>
      /\ tree[f] = Base /\ tree' = [tree EXCEPT ![f] = b.createdAt]
  BY DEF WriteUntracked, CreateFile, execution
<1>2. TypeOK /\ CommandInv(c) /\ cmd[c] \in Command /\ cmd[c].kind = "apply"
      /\ cmd[c].bundle # None /\ b # None /\ b.createdAt \in Nat
      /\ b.patch.tracked \subseteq Files /\ b.patch.untracked \subseteq Files
      /\ tree \in [Files -> Nat \cup {User}] /\ record' \in {record, None}
  BY <1>1, Applying, NoneAssumption DEF TypeOK, approvals
<1>3. /\ tree' \in [Files -> Nat \cup {User}] /\ tree'[f] = b.createdAt
      /\ \A g \in Files : tree[g] # Base => tree'[g] = tree[g]
      /\ \A g \in Files : g # f => tree'[g] = tree[g]
  BY <1>1, <1>2
<1>4. Writes(c)
  BY <1>1, <1>2, <1>3 DEF Writes, TypeOK, files, approvals
<1>5. cmd' = [cmd EXCEPT ![c] = m]
  BY <1>2 DEF WriteUntracked, TypeOK
<1>6. m \in Command
  BY <1>2 DEF Command
<1>7. /\ m.at = cmd[c].at /\ m.todo = cmd[c].todo \ {f} /\ m.assessment = cmd[c].assessment
      /\ m.kind = cmd[c].kind /\ m.final = cmd[c].final /\ m.since = cmd[c].since
      /\ m.bundle = cmd[c].bundle /\ m.approval = cmd[c].approval
      /\ m.reread = b
  BY <1>2 DEF Command
<1> HIDE DEF m, b
<1>8. /\ cmd' \in [Commands -> Command] /\ cmd'[c] = m
      /\ \A d \in Commands \ {c} : cmd'[d] = cmd[d]
  BY <1>2, <1>5, <1>6, Moved DEF TypeOK
<1>9. Moves(c)
  BY <1>7, <1>8 DEF Moves, b
<1>10. Keeps(c)
  BY <1>1, <1>4, <1>7, <1>8, <1>9, StepKeeps
<1>11. Shape(c)'
  BY <1>1, <1>2, <1>7, <1>8 DEF Shape, Planned, Deciding
<1>12. Wrote(c)'
  <2>1. /\ \A g \in b.patch.tracked : tree[g] \in {b.createdAt, User}
        /\ \A g \in b.patch.untracked \ cmd[c].todo : tree[g] \in {b.createdAt, User}
    BY <1>1, <1>2 DEF CommandInv, Wrote, b
  <2>2. b.createdAt # Base /\ User # Base
    BY <1>1, Applying DEF b, Base, User
  <2>3. \A g \in Files : tree[g] \in {b.createdAt, User} => tree'[g] = tree[g]
    BY <1>3, <2>2
  <2>4. \A g \in b.patch.tracked : tree'[g] \in {b.createdAt, User}
    BY <1>2, <2>1, <2>3
  <2>5. \A g \in b.patch.untracked \ (cmd[c].todo \ {f}) : tree'[g] \in {b.createdAt, User}
    BY <1>2, <1>3, <2>1, <2>3
  <2> QED
    BY <1>1, <1>7, <1>8, <2>4, <2>5 DEF Wrote
<1>13. ReadFinal(c)' /\ PlanHeld(c)' /\ ReadLatest(c)'
  BY <1>1, <1>7, <1>8, <1>10, KeepsFinal, KeepsPlan, KeepsLatest DEF b
<1> QED
  BY <1>1, <1>2, <1>4, <1>7, <1>8, <1>9, <1>11, <1>12, <1>13, StepInvariant DEF CommandInv

LEMMA ReturnAppliedInvariant ==
  ASSUME IInv, NEW c \in Commands, ReturnApplied(c)
  PROVE  IInv'
<1>1. cmd[c].at = "writing" /\ cmd[c].todo = {} /\ Goto(c, "applied") /\ "applied" \in Places
      /\ UNCHANGED <<files, approvals, swept, run, tree>>
  BY DEF ReturnApplied, execution, repo, Places, Planned
<1>2. TypeOK /\ CommandInv(c) /\ cmd[c].kind = "apply"
      /\ cmd[c].bundle # None /\ cmd[c].reread # None
  BY <1>1, Applying, NoneAssumption
<1>3. /\ cmd'[c].at = "applied" /\ cmd'[c].kind = "apply" /\ cmd'[c].reread = cmd[c].reread
      /\ cmd'[c].bundle = cmd[c].bundle /\ cmd'[c].assessment = cmd[c].assessment
      /\ cmd'[c].approval = cmd[c].approval /\ cmd'[c].todo = cmd[c].todo
  BY <1>1, <1>2, GotoMoves
<1>4. Shape(c)' /\ PlanHeld(c)' /\ Wrote(c)'
  BY <1>1, <1>2, <1>3 DEF Shape, PlanHeld, Wrote, CommandInv, Planned, Deciding
<1>5. Writes(c) /\ record' \in {record, None}
  BY <1>1, <1>2, NothingWritten DEF approvals
<1> QED
  BY <1>1, <1>4, <1>5, GotoInvariant
\* A command that fails, or is done, without having written.
LEMMA ForgetsInvariant ==
  ASSUME IInv, NEW c \in Commands, Forget(c),
         UNCHANGED <<files, approvals, swept, run, tree>>
  PROVE  IInv'
<1>1. TypeOK /\ record' = record
  BY DEF IInv, approvals
<1> QED
  BY <1>1, NothingWritten, ForgetInvariant

-----------------------------------------------------------------------------
(***************************************************************************)
(* assess, cleanup, retention, and the death of a command.                 *)
(***************************************************************************)
LEMMA WriteReportInvariant ==
  ASSUME IInv, NEW c \in Commands, WriteReport(c)
  PROVE  IInv'
<1>1. TypeOK /\ Forget(c) /\ assessment' = cmd[c].assessment
      /\ UNCHANGED <<bundle, finalization, versions, history, record, swept, run, tree>>
  BY DEF IInv, WriteReport, approvals, execution, repo
<1>2. Writes(c)
  BY <1>1 DEF Writes, TypeOK
<1> QED
  BY <1>1, <1>2, ForgetInvariant

LEMMA RemoveWorktreeInvariant ==
  ASSUME IInv, NEW c \in Commands, RemoveWorktree(c)
  PROVE  IInv'
<1>1. Forget(c) /\ UNCHANGED <<files, approvals, swept, run, tree>>
  BY DEF RemoveWorktree, repo
<1> QED
  BY <1>1, ForgetsInvariant

\* A cleanup or a retention that goes on.
LEMMA GoesOnInvariant ==
  ASSUME IInv, NEW c \in Commands, NEW to \in {"remove", "references"}, Goto(c, to),
         cmd[c].at = "assessment", UNCHANGED <<files, approvals, swept, run, tree>>
  PROVE  IInv'
<1>1. TypeOK /\ CommandInv(c) /\ record' = record /\ to \in Places
  BY DEF IInv, approvals, Places
<1>2. /\ cmd'[c].at = to /\ cmd'[c].bundle = cmd[c].bundle
  BY <1>1, GotoMoves
<1>3. Shape(c)'
  BY <1>1, <1>2 DEF Shape, CommandInv, Deciding
<1>4. PlanHeld(c)'
  BY <1>2 DEF PlanHeld, Planned
<1>5. Wrote(c)'
  BY <1>2 DEF Wrote
<1>6. Writes(c)
  BY <1>1, NothingWritten
<1>7. to \notin {"idle", "record", "noting", "repository", "reread", "tracked"}
  OBVIOUS
<1> QED
  BY <1>1, <1>3, <1>4, <1>5, <1>6, <1>7, GotoInvariant

LEMMA CheckCleanupInvariant ==
  ASSUME IInv, NEW c \in Commands, CheckCleanup(c)
  PROVE  IInv'
<1>1. cmd[c].at = "assessment" /\ UNCHANGED <<files, approvals, swept, run, tree>>
      /\ (Goto(c, "remove") \/ Forget(c))
  BY DEF CheckCleanup, execution, repo
<1> QED
  BY <1>1, GoesOnInvariant, ForgetsInvariant

LEMMA AuditInvariant ==
  ASSUME IInv, NEW c \in Commands, Audit(c)
  PROVE  IInv'
<1>1. cmd[c].at = "assessment" /\ UNCHANGED <<files, approvals, swept, run, tree>>
      /\ (Goto(c, "references") \/ Forget(c))
  BY DEF Audit, execution, repo
<1> QED
  BY <1>1, GoesOnInvariant, ForgetsInvariant

LEMMA ScanReferencesInvariant ==
  ASSUME IInv, NEW c \in Commands, NEW removable \in BOOLEAN, ScanReferences(c, removable)
  PROVE  IInv'
<1> DEFINE m == [cmd[c] EXCEPT !.todo = Sidecars, !.at = "sweeping"]
<1>1. TypeOK /\ CommandInv(c) /\ cmd[c] \in Command /\ cmd[c].at = "references"
      /\ UNCHANGED <<files, approvals, run, tree>>
  BY DEF IInv, TypeOK, ScanReferences, execution, repo
<1>2. CASE ~removable
  BY <1>1, <1>2, ForgetsInvariant DEF ScanReferences
<1>3. CASE removable
  <2>1. cmd' = [cmd EXCEPT ![c] = m] /\ swept' = TRUE
    BY <1>1, <1>3 DEF ScanReferences, TypeOK
  <2>2. m \in Command
    BY <1>1 DEF Command, Places, Sidecars
  <2>3. /\ m.at = "sweeping" /\ m.assessment = cmd[c].assessment
        /\ m.kind = cmd[c].kind /\ m.final = cmd[c].final /\ m.since = cmd[c].since
        /\ m.bundle = cmd[c].bundle /\ m.approval = cmd[c].approval
        /\ m.reread = cmd[c].reread
    BY <1>1 DEF Command
  <2> HIDE DEF m
  <2>4. /\ cmd' \in [Commands -> Command] /\ cmd'[c] = m
        /\ \A d \in Commands \ {c} : cmd'[d] = cmd[d]
    BY <1>1, <2>1, <2>2, Moved DEF TypeOK
  <2>5. Moves(c)
    BY <2>3, <2>4 DEF Moves
  <2>6. Writes(c) /\ record' \in {record, None}
    BY <1>1, <2>1 DEF Writes, TypeOK, files, approvals
  <2>7. Keeps(c)
    BY <1>1, <2>3, <2>4, <2>5, <2>6, StepKeeps
  <2>8. Shape(c)'
    BY <1>1, <2>1, <2>3, <2>4 DEF Shape, CommandInv, Deciding
  <2>9. PlanHeld(c)' /\ Wrote(c)'
    BY <2>3, <2>4 DEF PlanHeld, Wrote, Planned
  <2>10. ReadFinal(c)' /\ ReadLatest(c)'
    BY <2>3, <2>4, <2>7, KeepsFinal, KeepsLatest
  <2> QED
    BY <2>3, <2>4, <2>5, <2>6, <2>8, <2>9, <2>10, StepInvariant DEF CommandInv
<1> QED
  BY <1>2, <1>3

LEMMA RemoveFileInvariant ==
  ASSUME IInv, NEW c \in Commands, NEW file \in Sidecars, RemoveFile(c, file)
  PROVE  IInv'
<1> DEFINE m == [cmd[c] EXCEPT !.todo = cmd[c].todo \ {file}]
<1>1. TypeOK /\ CommandInv(c) /\ cmd[c] \in Command /\ cmd[c].at = "sweeping" /\ swept
  BY DEF IInv, TypeOK, RemoveFile, CommandInv, Shape
<1>2. /\ bundle' \in {bundle, None} /\ assessment' \in {assessment, None}
      /\ record' \in {record, None} /\ history' \in {history, <<>>}
      /\ UNCHANGED <<finalization, versions, swept, run, tree>>
  BY DEF RemoveFile, execution, repo
<1>3. Writes(c)
  BY <1>1, <1>2 DEF Writes, TypeOK
<1>4. CASE Forget(c)
  BY <1>2, <1>3, <1>4, ForgetInvariant
<1>5. CASE cmd' = [cmd EXCEPT ![c].todo = @ \ {file}]
  <2>1. cmd' = [cmd EXCEPT ![c] = m]
    BY <1>1, <1>5 DEF TypeOK
  <2>2. m \in Command
    BY <1>1 DEF Command
  <2>3. /\ m.at = "sweeping" /\ m.assessment = cmd[c].assessment
        /\ m.kind = cmd[c].kind /\ m.final = cmd[c].final /\ m.since = cmd[c].since
        /\ m.bundle = cmd[c].bundle /\ m.approval = cmd[c].approval
        /\ m.reread = cmd[c].reread
    BY <1>1 DEF Command
  <2> HIDE DEF m
  <2>4. /\ cmd' \in [Commands -> Command] /\ cmd'[c] = m
        /\ \A d \in Commands \ {c} : cmd'[d] = cmd[d]
    BY <1>1, <2>1, <2>2, Moved DEF TypeOK
  <2>5. Moves(c)
    BY <2>3, <2>4 DEF Moves
  <2>6. Keeps(c)
    BY <1>1, <1>3, <2>3, <2>4, <2>5, StepKeeps
  <2>7. Shape(c)'
    BY <1>1, <1>2, <2>3, <2>4 DEF Shape, CommandInv, Deciding
  <2>8. PlanHeld(c)' /\ Wrote(c)'
    BY <2>3, <2>4 DEF PlanHeld, Wrote, Planned
  <2>9. ReadFinal(c)' /\ ReadLatest(c)'
    BY <1>1, <2>3, <2>4, <2>6, KeepsFinal, KeepsLatest
  <2> QED
    BY <1>2, <1>3, <2>3, <2>4, <2>5, <2>7, <2>8, <2>9, StepInvariant DEF CommandInv
<1> QED
  BY <1>4, <1>5 DEF RemoveFile

LEMMA CrashInvariant ==
  ASSUME IInv, NEW c \in Commands, Crash(c)
  PROVE  IInv'
<1>1. TypeOK /\ Forget(c) /\ UNCHANGED <<files, history, record, swept, run, tree>>
  BY DEF IInv, Crash, execution, repo
<1>2. Writes(c)
  BY <1>1 DEF Writes, TypeOK, files
<1> QED
  BY <1>1, <1>2, ForgetInvariant
-----------------------------------------------------------------------------
(***************************************************************************)
(* The user, and the whole.                                                *)
(***************************************************************************)
LEMMA UserInvariant ==
  ASSUME IInv, (\E f \in Files : UserEdits(f)) \/ UserCommits \/ UNCHANGED vars
  PROVE  IInv'
<1>1. TypeOK /\ history \in Seq(ApprovalRecord) /\ tree \in [Files -> Nat \cup {User}]
  BY DEF IInv, TypeOK
<1>2. UNCHANGED <<files, approvals, swept, run, cmd>>
  BY DEF UserEdits, UserCommits, vars, execution
<1>3. tree' \in [Files -> Nat \cup {User}] /\ \A f \in Files : tree'[f] \in {tree[f], User}
  <2>1. CASE \E f \in Files : UserEdits(f)
    BY <1>1, <2>1 DEF UserEdits
  <2>2. CASE tree' = tree
    BY <1>1, <2>2
  <2> QED
    BY <2>1, <2>2 DEF UserCommits, vars, repo
<1>4. UNCHANGED <<bundle, assessment, finalization, versions, history, record>>
  BY <1>2 DEF files, approvals
<1>5. TypeOK'
  BY <1>1, <1>2, <1>3, <1>4 DEF TypeOK
<1>6. Evolves
  BY <1>1, <1>2, <1>3, <1>4 DEF Evolves
<1>7. \A c \in Commands : CommandInv(c)'
  <2> SUFFICES ASSUME NEW c \in Commands  PROVE CommandInv(c)'
    OBVIOUS
  <2>1. CommandInv(c) /\ cmd'[c] = cmd[c]
    BY <1>2 DEF IInv
  <2> QED
    BY <1>1, <1>6, <2>1, OthersKeep
<1>8. Bundles' = Bundles /\ Reports' = Reports /\ Decisions' = Decisions
  BY <1>2, <1>4 DEF Bundles, Reports, Decisions
<1>9. Numbered' /\ Reported' /\ Shown'
  BY <1>4, <1>8 DEF IInv, Numbered, Reported, Shown
<1>10. Finalized' /\ RecordFollows'
  BY <1>2, <1>4 DEF IInv, Finalized, RecordFollows, InHistory
<1> QED
  BY <1>5, <1>7, <1>9, <1>10 DEF IInv

LEMMA InitInvariant == Init => IInv
<1> SUFFICES ASSUME Init  PROVE IInv
  OBVIOUS
<1>1. /\ bundle = None /\ assessment = None /\ finalization = None /\ versions = 0
      /\ history = <<>> /\ record = None /\ swept = FALSE /\ run.draft = None
      /\ run = [at |-> "idle", draft |-> None]
      /\ tree = [f \in Files |-> Base] /\ cmd = [c \in Commands |-> Idle]
  BY DEF Init
<1>2. /\ Idle \in Command /\ Idle.bundle = None /\ Idle.reread = None /\ Idle.at = "idle"
      /\ Idle.assessment = None /\ Idle.approval = None
  BY IdleIsCommand DEF Idle
<1>3. \A c \in Commands : cmd[c] = Idle
  BY <1>1
<1>4. TypeOK
  <2>1. cmd \in [Commands -> Command] /\ tree \in [Files -> Nat \cup {User}]
    BY <1>1, <1>2 DEF Base
  <2>2. /\ bundle \in Bundle /\ assessment \in Assessment /\ record \in Approval
        /\ finalization \in Nat \cup {None} /\ versions \in Nat
        /\ history \in Seq(ApprovalRecord)
    BY <1>1 DEF Bundle, Assessment, Approval
  <2>3. run \in [at : {"idle", "working", "verify", "assessing", "finalizing"},
                draft : Assessment]
    BY <1>1 DEF Assessment
  <2>4. swept \in BOOLEAN
    BY <1>1, Zenon
  <2> QED
    BY <2>1, <2>2, <2>3, <2>4 DEF TypeOK
<1>5. Bundles = {} /\ Reports = {}
  BY <1>1, <1>2, <1>3 DEF Bundles, Reports
<1>6. Decisions = {}
  BY <1>1, <1>2, <1>3 DEF Decisions
<1>7. Numbered /\ Reported /\ Shown
  BY <1>5, <1>6 DEF Numbered, Reported, Shown
<1>8. Finalized /\ RecordFollows
  BY <1>1, <1>2, <1>3 DEF Finalized, RecordFollows
<1>9. \A c \in Commands : CommandInv(c)
  BY <1>2, <1>3 DEF CommandInv, Shape, ReadFinal, PlanHeld, ReadLatest, Wrote, Planned, Deciding
<1> QED
  BY <1>4, <1>7, <1>8, <1>9 DEF IInv

LEMMA TargetAppearedInvariant ==
  ASSUME IInv, NEW c \in Commands, NEW f \in Files, TargetAppeared(c, f)
  PROVE  IInv'
<1>1. Forget(c) /\ UNCHANGED <<files, approvals, swept, run, tree>>
  BY DEF TargetAppeared, execution, repo
<1> QED
  BY <1>1, ForgetsInvariant

LEMMA ExitInvariant ==
  ASSUME IInv, NEW c \in Commands, Exit(c)
  PROVE  IInv'
<1>1. Forget(c) /\ UNCHANGED <<files, approvals, swept, run, tree>>
  BY DEF Exit, execution, repo
<1> QED
  BY <1>1, ForgetsInvariant

LEMMA CommandInvariant ==
  ASSUME IInv, NEW c \in Commands, Step(c)
  PROVE  IInv'
<1>1. CASE \E kind \in Kinds : ReadBundle(c, kind)
  BY <1>1, ReadBundleInvariant
<1>2. CASE VerifyGitPatch(c) \/ WriteReport(c)
  BY <1>2, VerifyGitPatchInvariant, WriteReportInvariant
<1>3. CASE ReadAssessment(c) \/ ReadHistory(c) \/ ReadRecord(c)
  BY <1>3, ReadAssessmentInvariant, ReadHistoryInvariant, ReadRecordInvariant
<1>4. CASE CompletePlan(c) \/ RereadBundle(c)
  BY <1>4, CompletePlanInvariant, RereadBundleInvariant
<1>5. CASE AppendDecision(c) \/ WriteRecord(c)
  BY <1>5, AppendDecisionInvariant, WriteRecordInvariant
<1>6. CASE ApplyPatch(c) \/ CheckTargets(c)
  BY <1>6, ApplyPatchInvariant, CheckTargetsInvariant
<1>7. CASE \E f \in Files : WriteUntracked(c, f) \/ TargetAppeared(c, f)
  BY <1>7, WriteUntrackedInvariant, TargetAppearedInvariant
<1>8. CASE ReturnApplied(c) \/ Exit(c)
  BY <1>8, ReturnAppliedInvariant, ExitInvariant
<1>9. CASE CheckCleanup(c) \/ RemoveWorktree(c) \/ Audit(c)
  BY <1>9, CheckCleanupInvariant, RemoveWorktreeInvariant, AuditInvariant
<1>10. CASE \E removable \in BOOLEAN : ScanReferences(c, removable)
  BY <1>10, ScanReferencesInvariant
<1>11. CASE \E file \in Sidecars : RemoveFile(c, file)
  BY <1>11, RemoveFileInvariant
<1>12. CASE Crash(c)
  BY <1>12, CrashInvariant
<1> QED
  BY <1>1, <1>2, <1>3, <1>4, <1>5, <1>6, <1>7, <1>8, <1>9, <1>10, <1>11, <1>12 DEF Step

\* Whatever is read, written, removed and interrupted in whatever order, what
\* the commands rely on holds (all of cli.ts's commands, file by file).
THEOREM Invariance == Spec => []IInv
<1>1. Init => IInv
  BY InitInvariant
<1>2. IInv /\ [Next]_vars => IInv'
  <2> SUFFICES ASSUME IInv, [Next]_vars  PROVE IInv'
    OBVIOUS
  <2>1. CASE Run \/ RunCrashes
    BY <2>1, RunInvariant
  <2>2. CASE \E c \in Commands : Step(c)
    BY <2>2, CommandInvariant
  <2>3. CASE (\E f \in Files : UserEdits(f)) \/ UserCommits \/ UNCHANGED vars
    BY <2>3, UserInvariant
  <2> QED
    BY <2>1, <2>2, <2>3 DEF Next
<1> QED
  BY <1>1, <1>2, PTL DEF Spec

\* What an apply writes is the bundle its plan checked and its approval is
\* about, whole (createApplyPlan, then applyRecordedPatch, which reads the
\* evidence again).
THEOREM AppliesSound == Spec => []AppliesAreSound
<1>1. IInv => AppliesAreSound
  <2> SUFFICES ASSUME IInv, NEW c \in Commands
               PROVE  /\ Writing(c) /\ cmd[c].final =>
                           LET m == cmd[c] IN
                           /\ m.reread = m.bundle
                           /\ m.bundle.facts = "passed"
                           /\ RequiresApproval(m.bundle, m.assessment) =>
                                /\ m.approval.of = m.bundle.createdAt
                                /\ m.approval.final => m.approval.shown = m.bundle.createdAt
                      /\ cmd[c].at = "applied" =>
                           LET b == cmd[c].reread IN
                           \A f \in b.patch.tracked \cup b.patch.untracked :
                              tree[f] \in {b.createdAt, User}
    BY DEF AppliesAreSound, AppliedAsApproved, AppliedIsWhole
  <2> DEFINE m == cmd[c]
  <2>1. CASE Writing(c) /\ m.final
    <3>1. m.at \in {"tracked", "untracked", "writing", "applied"} /\ CommandInv(c)
      BY <2>1 DEF Writing, IInv
    <3>2. m.reread # None /\ m.bundle # None /\ m.kind = "apply"
      BY <3>1 DEF CommandInv, Shape
    <3>3. m.reread = m.bundle
      BY <2>1, <3>1, <3>2 DEF CommandInv, ReadFinal
    <3>4. /\ m.assessment # None /\ m.assessment.of = m.bundle.createdAt
          /\ m.assessment.verdict = "pass"
          /\ RequiresApproval(m.bundle, m.assessment) =>
               m.approval # None /\ m.approval.of = m.bundle.createdAt
      BY <3>1, <3>2 DEF CommandInv, PlanHeld, Planned, Approves
    <3>5. m.bundle \in Bundles /\ m.assessment \in Reports
      BY <3>2, <3>4 DEF Bundles, Reports
    <3>6. m.bundle.facts = "passed"
      BY <3>4, <3>5 DEF IInv, Reported
    <3>7. m.approval # None /\ m.approval.final => m.approval.shown = m.approval.of
      BY DEF IInv, Shown, Decisions
    <3> QED
      BY <2>1, <3>1, <3>3, <3>4, <3>6, <3>7 DEF IInv, CommandInv, Wrote
  <2>2. CASE ~(Writing(c) /\ m.final)
    BY <2>2 DEF IInv, CommandInv, Wrote
  <2> QED
    BY <2>1, <2>2
<1> QED
  BY <1>1, Invariance, PTL

\* An approval is acted on only if it was the latest decision at some moment
\* since the plan began (readApprovalRecord reads the history first).
THEOREM LatestCounts == Spec => []LatestDecisionCounts
<1>1. IInv => LatestDecisionCounts
  <2> SUFFICES ASSUME IInv, NEW c \in Commands, ~swept,
                      cmd[c].at \in {"reread", "tracked"}, cmd[c].kind = "apply",
                      RequiresApproval(cmd[c].bundle, cmd[c].assessment)
               PROVE  \E i \in DOMAIN history :
                        /\ i >= cmd[c].since
                        /\ Approves(history[i], cmd[c].bundle, cmd[c].assessment)
    BY DEF LatestDecisionCounts
  <2> DEFINE m == cmd[c]
  <2>1. Approves(m.approval, m.bundle, m.assessment)
    BY DEF IInv, CommandInv, PlanHeld, Planned
  <2>2. m.approval # None
    BY <2>1 DEF Approves
  <2>3. \E i \in Nat : i >= m.since /\ i \in DOMAIN history /\ history[i] = m.approval
    BY <2>2 DEF IInv, CommandInv, ReadLatest, InHistory
  <2> QED
    BY <2>1, <2>3
<1> QED
  BY <1>1, Invariance, PTL

\* No command overwrites a file the user made or edited, at whatever moment it
\* appeared (git apply takes the patch whole or not at all, untracked files are
\* created with flag wx).
THEOREM FilesSurvive == Spec => UserFilesSurvive
<1>1. IInv /\ [Next]_vars => [\A f \in Files : tree[f] = User => tree'[f] = User]_vars
  <2> SUFFICES ASSUME IInv, Next, NEW f \in Files, tree[f] = User  PROVE tree'[f] = User
    BY DEF vars
  <2>1. tree \in [Files -> Nat \cup {User}] /\ User # Base
    BY DEF IInv, TypeOK, User, Base
  <2>2. CASE tree' = tree
    BY <2>2
  <2>3. ASSUME NEW c \in Commands, ApplyPatch(c)  PROVE tree'[f] = User
    <3>1. CASE PatchApplies(cmd[c].reread)
      BY <2>1, <2>3, <3>1 DEF ApplyPatch, PatchApplies
    <3>2. CASE ~PatchApplies(cmd[c].reread)
      BY <2>3, <3>2 DEF ApplyPatch
    <3> QED
      BY <3>1, <3>2
  <2>4. ASSUME NEW c \in Commands, NEW g \in Files, WriteUntracked(c, g)
        PROVE  tree'[f] = User
    BY <2>1, <2>4 DEF WriteUntracked, CreateFile
  <2>5. ASSUME NEW g \in Files, UserEdits(g)  PROVE tree'[f] = User
    BY <2>1, <2>5 DEF UserEdits
  <2>6. CASE Run \/ RunCrashes
    <3>1. tree' = tree
      BY <2>6, RunLeaves DEF repo
    <3> QED
      BY <3>1
  <2>7. ASSUME NEW c \in Commands, Step(c), ~ApplyPatch(c),
               \A g \in Files : ~WriteUntracked(c, g)
        PROVE  tree' = tree
    BY <2>7 DEF Step, ReadBundle, VerifyGitPatch, WriteReport, ReadAssessment, ReadHistory,
                ReadRecord, CompletePlan, RereadBundle, AppendDecision, WriteRecord,
                CheckTargets, TargetAppeared, ReturnApplied, Exit, CheckCleanup,
                RemoveWorktree, Audit, ScanReferences, RemoveFile, Crash, repo
  <2>8. CASE UserCommits
    BY <2>8 DEF UserCommits
  <2> QED
    BY <2>2, <2>3, <2>4, <2>5, <2>6, <2>7, <2>8 DEF Next
<1> QED
  BY <1>1, Invariance, PTL DEF Spec, UserFilesSurvive
==============================================================================
