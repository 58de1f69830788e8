------------------------- MODULE HeadlessRun_proofs -------------------------
(***************************************************************************)
(* Proofs about HeadlessRun, for any number of invocations, any attempt    *)
(* limit, timeout and number of faults.                                    *)
(***************************************************************************)
EXTENDS HeadlessRun, TLAPS

\* Changing one attempt of a record leaves a record of as many attempts.
LEMMA UpdateAttempt ==
  ASSUME NEW s \in Seq(Attempt), NEW n \in 1 .. Len(s), NEW a \in Attempt
  PROVE  /\ [s EXCEPT ![n] = a] \in Seq(Attempt)
         /\ Len([s EXCEPT ![n] = a]) = Len(s)
  OBVIOUS

\* What a process holds in memory stays well-typed when it is forgotten, and
\* Fresh is what a process holds before it starts.
LEMMA FreshType == Fresh \in Memory
  BY PolicyAssumption DEF Fresh, Memory, Phases, AgentResults, Verification, NotRun

\* The initial state is well-typed.
LEMMA InitType == Init => TypeOK
<1> SUFFICES ASSUME Init PROVE TypeOK
  OBVIOUS
<1>1. pc \in [Invocations -> Outside \cup Inside]
  BY DEF Init, Outside
<1>2. mem \in [Invocations -> Memory]
  BY FreshType DEF Init
<1>3. attempts \in Seq(Attempt)
  BY DEF Init
<1>4. worktree \in BOOLEAN /\ recordExists \in BOOLEAN /\ resumeSafe \in BOOLEAN
  BY DEF Init
<1>5. result \in [Invocations -> Finalization \cup {None}]
  BY DEF Init
<1>6. activeMs \in Nat /\ faults \in 0 .. MaxFaults /\ repairs \in Nat
  BY PolicyAssumption DEF Init
<1>7. /\ lock \in Invocations \cup {NoOne}
      /\ evidence \in Evidence \cup {None}
      /\ assessment \in Assessment \cup {None}
      /\ finalization \in Finalization \cup {None}
  BY DEF Init
<1> QED
  BY <1>1, <1>2, <1>3, <1>4, <1>5, <1>6, <1>7 DEF TypeOK

\* The states a step leads to are states of an invocation.
LEMMA GotoType ==
  ASSUME TypeOK, NEW i \in Invocations, NEW to \in Outside \cup Inside, Goto(i, to)
  PROVE  pc' \in [Invocations -> Outside \cup Inside]
  BY DEF TypeOK, Goto

LEMMA ForgetType ==
  ASSUME TypeOK, NEW i \in Invocations, Forget(i)
  PROVE  mem' \in [Invocations -> Memory]
  BY FreshType DEF TypeOK, Forget

LEMMA LeaveType ==
  ASSUME TypeOK, NEW i \in Invocations, NEW to \in Outside, Leave(i, to)
  PROVE  /\ pc' \in [Invocations -> Outside \cup Inside]
         /\ mem' \in [Invocations -> Memory]
         /\ lock' \in Invocations \cup {NoOne}
  BY GotoType, ForgetType DEF Leave

\* Replacing one part of what a process holds in memory.
LEMMA MemoryUpdate ==
  ASSUME TypeOK, NEW i \in Invocations
  PROVE  /\ \A p \in Phases : [mem EXCEPT ![i].phase = p] \in [Invocations -> Memory]
         /\ \A t \in 0 .. TimeoutMs :
              [mem EXCEPT ![i].clock = t] \in [Invocations -> Memory]
         /\ \A n \in Nat :
              /\ [mem EXCEPT ![i].activeAtOpen = n] \in [Invocations -> Memory]
              /\ [mem EXCEPT ![i].limit = n] \in [Invocations -> Memory]
         /\ \A a \in AgentResults :
              [mem EXCEPT ![i].agent = a] \in [Invocations -> Memory]
         /\ \A v \in Verification :
              [mem EXCEPT ![i].verification = v] \in [Invocations -> Memory]
  BY DEF TypeOK, Memory

LEMMA EndCallType ==
  ASSUME TypeOK, NEW i \in Invocations, NEW agent \in AgentResults,
         EndCall(i, agent)
  PROVE  /\ pc' \in [Invocations -> Outside \cup Inside]
         /\ mem' \in [Invocations -> Memory]
<1>1. "returning" \in Outside \cup Inside
  BY DEF Inside, InAdapter
<1>2. mem' \in [Invocations -> Memory]
  BY DEF EndCall, TypeOK, Memory
<1> QED
  BY <1>1, <1>2, GotoType DEF EndCall

LEMMA BeginAttemptType ==
  ASSUME TypeOK, NEW i \in Invocations, NEW m \in Nat, BeginAttempt(i, m)
  PROVE  /\ attempts' \in Seq(Attempt)
         /\ pc' \in [Invocations -> Outside \cup Inside]
         /\ mem' \in [Invocations -> Memory]
<1>1. [call |-> mem[i].phase, ended |-> "open", review |-> "none"] \in Attempt
  BY DEF TypeOK, Memory, Attempt
<1>2. mem' \in [Invocations -> Memory]
  BY DEF BeginAttempt, TypeOK, Memory
<1>3. "attempting" \in Outside \cup Inside
  BY DEF Inside, InAdapter
<1> QED
  BY <1>1, <1>2, <1>3, GotoType DEF BeginAttempt, TypeOK

\* The result of a review is a review, and the result of an attempt a result.
LEMMA ReviewType ==
  ASSUME NEW ended, NEW n, NEW max, NEW remaining
  PROVE  /\ Review(ended, n, max, remaining) \in {"continue", "stop"}
         /\ ResultOf(ended) \in AgentResults
  BY DEF Review, ResultOf, AgentResults

\* The last attempt is an attempt, if there is one.
LEMMA LastType ==
  ASSUME TypeOK
  PROVE  /\ Last \in Nat
         /\ Last > 0 => Last \in 1 .. Len(attempts) /\ attempts[Last] \in Attempt
  BY DEF TypeOK, Last

\* Ending or reviewing an attempt leaves a record.
LEMMA AttemptUpdateType ==
  ASSUME TypeOK
  PROVE  /\ \A ended \in Terminations :
              [attempts EXCEPT ![Last].ended = ended] \in Seq(Attempt)
         /\ \A review \in {"continue", "stop"} :
              [attempts EXCEPT ![Last].review = review] \in Seq(Attempt)
<1>1. CASE Last > 0
  BY <1>1, LastType DEF TypeOK, Attempt
<1>2. CASE Last = 0
  <2>1. \A x : /\ [attempts EXCEPT ![Last].ended = x] = attempts
               /\ [attempts EXCEPT ![Last].review = x] = attempts
    BY <1>2 DEF TypeOK, Last
  <2> QED
    BY <2>1 DEF TypeOK
<1> QED
  BY <1>1, <1>2, LastType
\* What the writers put on disk is a file, not the absence of one.
LEMMA WrittenFiles ==
  ASSUME TypeOK, FilesInOrder, NEW i \in Invocations
  PROVE  /\ WriteEvidence(i) => evidence' \in Evidence
         /\ WriteAssessment(i) => assessment' \in Assessment
         /\ WriteFinalization(i) => finalization' \in Finalization
<1>1. ASSUME WriteEvidence(i) PROVE evidence' \in Evidence
  <2>1. NextVersion(evidence) \in Nat
    BY DEF NextVersion, TypeOK, Evidence
  <2>2. mem[i] \in Memory
    BY DEF TypeOK
  <2> QED
    BY <1>1, <2>1, <2>2, LastType DEF WriteEvidence, Evidence, Memory
<1>2. ASSUME WriteAssessment(i) PROVE assessment' \in Assessment
  <2>1. NextVersion(assessment) \in Nat
    BY DEF NextVersion, TypeOK, Assessment
  <2>2. evidence.version \in Nat
    BY <1>2 DEF WriteAssessment, FilesInOrder, TypeOK, Evidence
  <2> QED
    BY <1>2, <2>1, <2>2 DEF WriteAssessment, Assessment
<1>3. ASSUME WriteFinalization(i) PROVE finalization' \in Finalization
  <2>1. evidence.version \in Nat /\ assessment.version \in Nat
    BY <1>3 DEF WriteFinalization, FilesInOrder, TypeOK, Evidence, Assessment
  <2> QED
    BY <1>3, <2>1 DEF WriteFinalization, Finalization
<1> QED
  BY <1>1, <1>2, <1>3

\* Every step keeps the state well-typed.  FilesInOrder is needed where a file
\* is written about another one.
LEMMA StepType ==
  ASSUME TypeOK, FilesInOrder, [Next]_vars
  PROVE  TypeOK'
<1> USE InvocationsAssumption, PolicyAssumption
<1> DEFINE PcOK  == pc' \in [Invocations -> Outside \cup Inside]
           MemOK == mem' \in [Invocations -> Memory]
<1>0. CASE UNCHANGED vars
  BY <1>0 DEF vars, record, files, history, TypeOK
<1> SUFFICES ASSUME NEW i \in Invocations, Advance(i) \/ Tick(i) \/ Fault(i)
             PROVE  TypeOK'
  BY <1>0 DEF Next
<1>p. \A s \in {"locking", "returned", "refused", "threw", "crashed"} : s \in Outside
  BY DEF Outside
<1>q. \A s \in {"reading", "workspace", "bootstrap", "opening", "deciding",
                "attempting", "reviewing", "continuing", "returning", "verifying",
                "repairing", "oracle", "recording", "assessing", "finalizing",
                "rereading"} : s \in Outside \cup Inside
  BY DEF Inside, InAdapter
<1>m. mem[i] \in Memory
  BY DEF TypeOK
<1>s. ResumeSafeAfter(i) \subseteq BOOLEAN
  BY DEF ResumeSafeAfter, TypeOK
<1>1. CASE AcquireLock(i)
  <2>1. PcOK
    BY <1>1, <1>q, GotoType DEF AcquireLock
  <2> QED
    BY <1>1, <2>1 DEF AcquireLock, TypeOK, record, files, history
<1>2. CASE GiveUpLock(i)
  <2>1. PcOK
    BY <1>2, <1>p, GotoType DEF GiveUpLock
  <2> QED
    BY <1>2, <2>1 DEF GiveUpLock, TypeOK, record, files, history
<1>r. ASSUME ReturnFinalization(i)
      PROVE  /\ PcOK /\ MemOK
             /\ lock' \in Invocations \cup {NoOne}
             /\ Completed => result' \in [Invocations -> Finalization \cup {None}]
  BY <1>r, <1>p, LeaveType DEF ReturnFinalization, TypeOK, Completed
<1>3. CASE ReadFinalization(i)
  <2>1. CASE Completed /\ ReturnFinalization(i)
    BY <1>3, <2>1, <1>r DEF ReadFinalization, TypeOK, record, files, history
  <2>2. CASE ~Completed
    <3>1. PcOK /\ UNCHANGED <<lock, mem, result>>
      BY <1>3, <2>2, <1>q, GotoType DEF ReadFinalization
    <3> QED
      BY <1>3, <3>1 DEF ReadFinalization, TypeOK, record, files, history
  <2> QED
    BY <1>3, <2>1, <2>2 DEF ReadFinalization
<1>4. CASE OpenWorkspace(i)
  <2>1. PcOK /\ MemOK /\ lock' \in Invocations \cup {NoOne} /\ worktree' \in BOOLEAN
    BY <1>4, <1>p, <1>q, GotoType, LeaveType DEF OpenWorkspace, TypeOK
  <2> QED
    BY <1>4, <2>1 DEF OpenWorkspace, TypeOK, record, files, history
<1>5. CASE Bootstrap(i)
  <2>1. PcOK
    BY <1>5, <1>q, GotoType DEF Bootstrap
  <2> QED
    BY <1>5, <2>1 DEF Bootstrap, TypeOK, record, files, history
<1>e. "failed" \in AgentResults
  BY DEF AgentResults
<1>6. CASE OpenRecord(i)
  <2>1. PcOK /\ MemOK /\ recordExists' \in BOOLEAN
    <3>1. CASE EndCall(i, "failed") /\ UNCHANGED recordExists
      BY <3>1, <1>e, EndCallType DEF TypeOK
    <3>2. CASE /\ recordExists' = TRUE
               /\ \E active \in ActiveRuntime :
                    mem' = [mem EXCEPT ![i].activeAtOpen = active]
               /\ Goto(i, "deciding")
      <4>1. ActiveRuntime \subseteq Nat
        BY DEF ActiveRuntime, TypeOK
      <4>2. PICK active \in ActiveRuntime :
              mem' = [mem EXCEPT ![i].activeAtOpen = active]
        BY <3>2
      <4>3. [mem EXCEPT ![i].activeAtOpen = active] \in [Invocations -> Memory]
        BY <4>1, MemoryUpdate
      <4>4. MemOK
        BY <4>2, <4>3
      <4> QED
        BY <3>2, <4>4, <1>q, GotoType DEF TypeOK
    <3> QED
      BY <1>6, <3>1, <3>2 DEF OpenRecord
  <2> QED
    BY <1>6, <2>1 DEF OpenRecord, TypeOK, record, files, history
<1>7. CASE ReviewOrphan(i)
  <2>1. attempts' \in Seq(Attempt)
    BY <1>7, ReviewType, AttemptUpdateType DEF ReviewOrphan
  <2> QED
    BY <1>7, <2>1 DEF ReviewOrphan, TypeOK, record, files, history
<1>b. ASSUME NEW m \in Nat, BeginAttempt(i, m), repairs' \in Nat
      PROVE  TypeOK'
  BY <1>b, BeginAttemptType DEF BeginAttempt, TypeOK, record, files, history
<1>8. CASE StartFirstAttempt(i)
  BY <1>8, <1>b DEF StartFirstAttempt, TypeOK
<1>9. CASE ResumeAttempt(i)
  <2>1. PcOK /\ MemOK
    <3>1. CASE EndCall(i, "failed")
      BY <3>1, <1>e, EndCallType
    <3>2. CASE /\ mem' = [mem EXCEPT ![i].limit = Last + MaxAttempts - 1]
               /\ Goto(i, "attempting")
      <4>1. Last + MaxAttempts - 1 \in Nat
        BY LastType
      <4>2. MemOK
        BY <3>2, <4>1, MemoryUpdate
      <4> QED
        BY <3>2, <4>2, <1>q, GotoType
    <3> QED
      BY <1>9, <3>1, <3>2 DEF ResumeAttempt
  <2> QED
    BY <1>9, <2>1 DEF ResumeAttempt, TypeOK, record, files, history
<1>10. CASE ResumeContinuation(i)
  <2> DEFINE m == Last + MaxAttempts - 1
             limit == IF m > Last + 1 THEN m ELSE Last + 1
  <2>1. limit \in Nat
    BY LastType
  <2>2. BeginAttempt(i, limit) /\ repairs' = repairs
    BY <1>10 DEF ResumeContinuation
  <2> HIDE DEF limit
  <2> QED
    BY <2>1, <2>2, <1>b DEF TypeOK
<1>11. CASE StartRepairAttempt(i)
  <2> DEFINE limit == (Last + 1) + MaxAttempts - 1
  <2>1. limit \in Nat
    BY LastType
  <2>2. BeginAttempt(i, limit) /\ repairs' = repairs + 1
    BY <1>11 DEF StartRepairAttempt
  <2> HIDE DEF limit
  <2> QED
    BY <2>1, <2>2, <1>b DEF TypeOK
<1>12. CASE ReplayTerminal(i)
  <2>1. PcOK /\ MemOK
    BY <1>12, ReviewType, EndCallType DEF ReplayTerminal
  <2> QED
    BY <1>12, <2>1 DEF ReplayTerminal, TypeOK, record, files, history
<1>13. CASE EndAttempt(i)
  <2>1. PcOK
    BY <1>13, <1>q, GotoType DEF EndAttempt
  <2>2. attempts' \in Seq(Attempt)
    BY <1>13, AttemptUpdateType DEF EndAttempt
  <2>3. resumeSafe' \in BOOLEAN
    BY <1>13, <1>s DEF EndAttempt
  <2> QED
    BY <1>13, <2>1, <2>2, <2>3 DEF EndAttempt, TypeOK, record, files, history
<1>14. CASE ReviewAttempt(i)
  <2>1. attempts' \in Seq(Attempt)
    BY <1>14, ReviewType, AttemptUpdateType DEF ReviewAttempt
  <2>2. PcOK /\ MemOK
    BY <1>14, <1>q, ReviewType, GotoType, EndCallType DEF ReviewAttempt, TypeOK
  <2> QED
    BY <1>14, <2>1, <2>2 DEF ReviewAttempt, TypeOK, record, files, history
<1>15. CASE ContinueAttempt(i)
  <2>1. mem[i].limit \in Nat
    BY <1>m DEF Memory
  <2> QED
    BY <1>15, <2>1, <1>b DEF ContinueAttempt, TypeOK
<1>16. CASE ReturnAgent(i)
  <2>1. PcOK /\ MemOK /\ lock' \in Invocations \cup {NoOne}
    BY <1>16, <1>p, <1>q, GotoType, LeaveType DEF ReturnAgent, TypeOK
  <2> QED
    BY <1>16, <2>1 DEF ReturnAgent, TypeOK, record, files, history
<1>17. CASE Verify(i)
  <2>1. PcOK
    BY <1>17, <1>q, GotoType DEF Verify
  <2>2. MemOK
    <3>1. PICK status \in {"not-run", "passed", "failed"} :
            mem' = [mem EXCEPT ![i].verification =
                      [status |-> status, seen |-> Last]]
      BY <1>17 DEF Verify
    <3>2. [status |-> status, seen |-> Last] \in Verification
      BY LastType DEF Verification
    <3> QED
      BY <3>1, <3>2, MemoryUpdate DEF TypeOK
  <2>3. resumeSafe' \in BOOLEAN
    BY <1>17, <1>s DEF Verify
  <2> QED
    BY <1>17, <2>1, <2>2, <2>3 DEF Verify, TypeOK, record, files, history
<1>18. CASE DecideRepair(i)
  <2>1. MemOK
    <3>1. "repair" \in Phases
      BY DEF Phases
    <3> QED
      BY <1>18, <3>1, MemoryUpdate DEF DecideRepair, TypeOK
  <2>2. PcOK
    BY <1>18, <1>q, GotoType DEF DecideRepair
  <2> QED
    BY <1>18, <2>1, <2>2 DEF DecideRepair, TypeOK, record, files, history
<1>19. CASE RunOracle(i)
  <2>1. PcOK
    BY <1>19, <1>q, GotoType DEF RunOracle
  <2>2. resumeSafe' \in BOOLEAN
    BY <1>19, <1>s DEF RunOracle
  <2> QED
    BY <1>19, <2>1, <2>2 DEF RunOracle, TypeOK, record, files, history
<1>20. CASE WriteEvidence(i)
  <2>1. PcOK
    BY <1>20, <1>q, GotoType DEF WriteEvidence
  <2> QED
    BY <1>20, <2>1, WrittenFiles DEF WriteEvidence, TypeOK, record, files, history
<1>21. CASE WriteAssessment(i)
  <2>1. PcOK
    BY <1>21, <1>q, GotoType DEF WriteAssessment
  <2> QED
    BY <1>21, <2>1, WrittenFiles DEF WriteAssessment, TypeOK, record, files, history
<1>22. CASE WriteFinalization(i)
  <2>1. PcOK
    BY <1>22, <1>q, GotoType DEF WriteFinalization
  <2> QED
    BY <1>22, <2>1, WrittenFiles DEF WriteFinalization, TypeOK, record, files, history
<1>23. CASE RereadFinalization(i)
  <2>1. CASE Completed /\ ReturnFinalization(i)
    BY <1>23, <2>1, <1>r DEF RereadFinalization, TypeOK, record, files, history
  <2>2. CASE Leave(i, "threw") /\ UNCHANGED result
    BY <1>23, <2>2, <1>p, LeaveType
       DEF RereadFinalization, TypeOK, record, files, history
  <2> QED
    BY <1>23, <2>1, <2>2 DEF RereadFinalization
<1>24. CASE Tick(i)
  <2>1. mem[i].clock + 1 \in 0 .. TimeoutMs
    BY <1>24, <1>m DEF Tick, Expired, Memory
  <2>2. MemOK
    BY <1>24, <2>1, MemoryUpdate DEF Tick, TypeOK
  <2>3. activeMs' \in Nat
    BY <1>24 DEF Tick, TypeOK
  <2> QED
    BY <1>24, <2>2, <2>3 DEF Tick, TypeOK, record, files, history
<1>25. CASE Crash(i)
  <2>1. PcOK /\ MemOK
    BY <1>25, <1>p, GotoType, ForgetType DEF Crash
  <2>2. resumeSafe' \in BOOLEAN
    BY <1>25, <1>s DEF Crash
  <2>3. faults' \in 0 .. MaxFaults
    BY <1>25 DEF Crash, TypeOK
  <2> QED
    BY <1>25, <2>1, <2>2, <2>3 DEF Crash, TypeOK, record, files, history
<1>26. CASE Throw(i)
  <2>1. PcOK /\ MemOK /\ lock' \in Invocations \cup {NoOne}
    BY <1>26, <1>p, LeaveType DEF Throw
  <2>2. faults' \in 0 .. MaxFaults
    BY <1>26 DEF Throw, TypeOK
  <2>3. resumeSafe' \in BOOLEAN
    BY <1>26, <1>s DEF Throw
  <2> QED
    BY <1>26, <2>1, <2>2, <2>3 DEF Throw, TypeOK, record, files, history
<1>27. CASE AdapterThrows(i)
  <2>1. PcOK /\ MemOK
    BY <1>27, <1>e, EndCallType DEF AdapterThrows
  <2>2. resumeSafe' \in BOOLEAN
    BY <1>27, <1>s DEF AdapterThrows
  <2>3. faults' \in 0 .. MaxFaults
    BY <1>27 DEF AdapterThrows, TypeOK
  <2> QED
    BY <1>27, <2>1, <2>2, <2>3 DEF AdapterThrows, TypeOK, record, files, history
<1> QED
  BY <1>1, <1>2, <1>3, <1>4, <1>5, <1>6, <1>7, <1>8, <1>9, <1>10, <1>11, <1>12,
     <1>13, <1>14, <1>15, <1>16, <1>17, <1>18, <1>19, <1>20, <1>21, <1>22,
     <1>23, <1>24, <1>25, <1>26, <1>27
     DEF Advance, RunAdapter, Fault

------------------------------------------------------------------------------
(* Mutual exclusion, the order of the files and the answers.               *)

\* Where an invocation is when it neither reads nor writes the files.
Working == Inside \ {"reading", "assessing", "finalizing", "rereading"}

\* A step of an invocation inside that leaves the files and the results alone:
\* it goes on, dies, or throws.
QuietStep(i) ==
  /\ UNCHANGED <<files, result>>
  /\ pc[i] \in Inside
  /\ \/ pc[i] \in Working \ {"recording"} /\ lock' = lock
        /\ \E to \in Working : Goto(i, to)
     \/ lock' = lock /\ Goto(i, "crashed")
     \/ lock' = NoOne /\ Goto(i, "threw")

\* Apart from the steps that take the lock, read the finalization or write a
\* file, every step is quiet.
LEMMA StepShape ==
  ASSUME TypeOK, NEW i \in Invocations, Advance(i) \/ Tick(i) \/ Fault(i)
  PROVE  \/ AcquireLock(i) \/ GiveUpLock(i) \/ ReadFinalization(i)
         \/ WriteEvidence(i) \/ WriteAssessment(i) \/ WriteFinalization(i)
         \/ RereadFinalization(i) \/ QuietStep(i)
<1> USE DEF Working, Inside, InAdapter, files
<1>1. OpenWorkspace(i) \/ Bootstrap(i) => QuietStep(i)
  BY DEF OpenWorkspace, Bootstrap, QuietStep, Leave
<1>2. OpenRecord(i) \/ ReviewOrphan(i) \/ ReplayTerminal(i) => QuietStep(i)
  BY DEF OpenRecord, ReviewOrphan, ReplayTerminal, QuietStep, EndCall, Goto, TypeOK
<1>3. StartFirstAttempt(i) \/ ResumeContinuation(i) \/ StartRepairAttempt(i)
        \/ ContinueAttempt(i) => QuietStep(i)
  BY DEF StartFirstAttempt, ResumeContinuation, StartRepairAttempt, ContinueAttempt,
         BeginAttempt, QuietStep
<1>4. ResumeAttempt(i) \/ EndAttempt(i) => QuietStep(i)
  BY DEF ResumeAttempt, EndAttempt, EndCall, QuietStep
<1>5. ReviewAttempt(i) => QuietStep(i)
  BY DEF ReviewAttempt, EndCall, QuietStep
<1>6. ReturnAgent(i) => QuietStep(i)
  BY DEF ReturnAgent, Leave, QuietStep
<1>7. Verify(i) \/ DecideRepair(i) \/ RunOracle(i) => QuietStep(i)
  BY DEF Verify, DecideRepair, RunOracle, QuietStep
<1>8. Tick(i) => QuietStep(i)
  BY DEF Tick, QuietStep, Goto, TypeOK
<1>9. Crash(i) => QuietStep(i)
  BY DEF Crash, QuietStep
<1>10. Throw(i) => QuietStep(i)
  BY DEF Throw, Leave, QuietStep
<1>11. AdapterThrows(i) => QuietStep(i)
  BY DEF AdapterThrows, EndCall, QuietStep
<1> QED
  BY <1>1, <1>2, <1>3, <1>4, <1>5, <1>6, <1>7, <1>8, <1>9, <1>10, <1>11
     DEF Advance, RunAdapter, Fault

\* The lock: an invocation that is inside goes on holding it, and one that
\* leaves was the only one inside.
LEMMA StepLock ==
  ASSUME TypeOK, LockHeld, NEW i \in Invocations, Advance(i) \/ Tick(i) \/ Fault(i)
  PROVE  LockHeld'
<1> USE InvocationsAssumption DEF LockHeld, Goto, TypeOK
<1>1. CASE AcquireLock(i)
  <2>1. \A j \in Invocations : pc[j] \notin Inside
    BY <1>1 DEF AcquireLock, CanLock, Inside, InAdapter
  <2> QED
    BY <1>1, <2>1 DEF AcquireLock
<1>2. CASE GiveUpLock(i)
  BY <1>2 DEF GiveUpLock, Inside, InAdapter
<1>3. ASSUME pc[i] \in Inside, Leave(i, "returned") \/ Leave(i, "threw")
      PROVE  LockHeld'
  BY <1>3 DEF Leave, Inside, InAdapter
<1>4. CASE ReadFinalization(i) \/ RereadFinalization(i)
  <2>1. pc[i] \in Inside
    BY <1>4 DEF ReadFinalization, RereadFinalization, Inside
  <2> QED
    BY <1>4, <1>3, <2>1
       DEF ReadFinalization, RereadFinalization, ReturnFinalization
<1>5. CASE WriteEvidence(i) \/ WriteAssessment(i) \/ WriteFinalization(i)
  BY <1>5 DEF WriteEvidence, WriteAssessment, WriteFinalization, Inside
<1>6. CASE QuietStep(i)
  BY <1>6 DEF QuietStep, Working, Inside, InAdapter
<1> QED
  BY <1>1, <1>2, <1>4, <1>5, <1>6, StepShape

\* Holding the lock is being alone inside.
LEMMA LockExcludes == LockHeld => OneInvocationInside
  BY DEF LockHeld, OneInvocationInside

\* The order in which the files are written, and what the finalization refers to.
LEMMA StepFiles ==
  ASSUME IInv, NEW i \in Invocations, Advance(i) \/ Tick(i) \/ Fault(i)
  PROVE  FilesInOrder'
<1> USE NoneAssumption DEF IInv, Goto, TypeOK
<1>1. ASSUME NEW j \in Invocations, j # i, pc[i] \in Inside
      PROVE  pc[j] \notin Inside
  BY <1>1, LockExcludes DEF OneInvocationInside
<1>2. ASSUME UNCHANGED files, UNCHANGED pc \/ \E to : Goto(i, to) /\ to \in Outside
      PROVE  FilesInOrder'
  BY <1>2 DEF FilesInOrder, FinalizationMatchesFiles, FinalizationIntact, files,
              Outside, Inside, InAdapter
<1>3. CASE AcquireLock(i)
  BY <1>3 DEF AcquireLock, FilesInOrder, FinalizationMatchesFiles,
              FinalizationIntact, files
<1>4. CASE GiveUpLock(i)
  BY <1>4, <1>2 DEF GiveUpLock, Outside
<1>5. CASE ReadFinalization(i)
  <2>1. CASE ReturnFinalization(i)
    BY <1>5, <2>1, <1>2 DEF ReadFinalization, ReturnFinalization, Leave, Outside
  <2>2. CASE ~Completed /\ Goto(i, "workspace")
    BY <1>5, <2>2 DEF ReadFinalization, FilesInOrder, FinalizationMatchesFiles,
                      FinalizationIntact, files, Completed
  <2> QED
    BY <1>5, <2>1, <2>2 DEF ReadFinalization
<1>6. CASE RereadFinalization(i)
  BY <1>6, <1>2 DEF RereadFinalization, ReturnFinalization, Leave, Outside
<1>7. CASE WriteEvidence(i)
  <2>1. pc[i] \in Inside /\ finalization = None /\ finalization' = None
    BY <1>7 DEF WriteEvidence, FilesInOrder, Inside
  <2>2. evidence' # None
    BY <1>7, WrittenFiles
  <2> QED
    BY <1>7, <1>1, <2>1, <2>2 DEF WriteEvidence, FilesInOrder, Inside,
                                  FinalizationMatchesFiles
<1>8. CASE WriteAssessment(i)
  <2>1. pc[i] \in Inside /\ finalization = None /\ finalization' = None
    BY <1>8 DEF WriteAssessment, FilesInOrder, Inside
  <2>2. /\ evidence' = evidence /\ evidence # None
        /\ assessment' # None /\ assessment'.of = evidence.version
    BY <1>8, WrittenFiles DEF WriteAssessment, FilesInOrder
  <2> QED
    BY <1>8, <1>1, <2>1, <2>2 DEF WriteAssessment, FilesInOrder, Inside,
                                  FinalizationMatchesFiles
<1>9. CASE WriteFinalization(i)
  <2>1. pc[i] \in Inside
    BY <1>9 DEF WriteFinalization, Inside
  <2>2. FinalizationIntact'
    BY <1>9 DEF WriteFinalization, FilesInOrder, FinalizationIntact
  <2> QED
    BY <1>9, <1>1, <2>1, <2>2 DEF WriteFinalization, FilesInOrder,
                                  FinalizationMatchesFiles
<1>10. CASE QuietStep(i)
  <2>1. CASE pc[i] \in Working \ {"recording"} /\ \E to \in Working : Goto(i, to)
    <3>1. finalization = None
      BY <2>1 DEF FilesInOrder, Working, Inside
    <3> QED
      BY <1>10, <2>1, <3>1 DEF QuietStep, FilesInOrder, Working, files,
                               FinalizationMatchesFiles
  <2>2. CASE Goto(i, "crashed") \/ Goto(i, "threw")
    BY <1>10, <2>2, <1>2 DEF QuietStep, Outside
  <2> QED
    BY <1>10, <2>1, <2>2 DEF QuietStep
<1> QED
  BY <1>3, <1>4, <1>5, <1>6, <1>7, <1>8, <1>9, <1>10, StepShape

\* What was answered stays the finalization.
LEMMA StepAnswers ==
  ASSUME IInv, NEW i \in Invocations, Advance(i) \/ Tick(i) \/ Fault(i)
  PROVE  AnswersHaveAResult'
<1> USE NoneAssumption DEF IInv, Goto, TypeOK, AnswersHaveAResult
<1>1. CASE AcquireLock(i) \/ GiveUpLock(i)
  BY <1>1 DEF AcquireLock, GiveUpLock, files
<1>2. ASSUME ReturnFinalization(i), Completed, UNCHANGED files
      PROVE  AnswersHaveAResult'
  BY <1>2 DEF ReturnFinalization, Completed, Leave, files
<1>3. CASE ReadFinalization(i)
  BY <1>3, <1>2 DEF ReadFinalization, files
<1>4. CASE RereadFinalization(i)
  BY <1>4, <1>2 DEF RereadFinalization, Leave, files
<1>5. CASE WriteEvidence(i) \/ WriteAssessment(i)
  BY <1>5 DEF WriteEvidence, WriteAssessment
<1>6. CASE WriteFinalization(i)
  <2>1. finalization = None
    BY <1>6 DEF WriteFinalization, FilesInOrder, Inside
  <2> QED
    BY <1>6, <2>1 DEF WriteFinalization
<1>7. CASE QuietStep(i)
  BY <1>7 DEF QuietStep, Working, Inside, InAdapter, files
<1> QED
  BY <1>1, <1>3, <1>4, <1>5, <1>6, <1>7, StepShape

\* IInv is an inductive invariant.
LEMMA InitInv == Init => IInv
<1> SUFFICES ASSUME Init PROVE IInv
  OBVIOUS
<1>1. \A i \in Invocations : pc[i] = "locking" /\ result[i] = None
  BY DEF Init
<1>2. "locking" \notin Inside
  BY DEF Inside, InAdapter
<1>3. FilesInOrder
  BY <1>1, <1>2 DEF Init, FilesInOrder, FinalizationMatchesFiles
<1> QED
  BY <1>1, <1>2, <1>3, InitType DEF IInv, LockHeld, AnswersHaveAResult

LEMMA StepInv == IInv /\ [Next]_vars => IInv'
<1> SUFFICES ASSUME IInv, [Next]_vars PROVE IInv'
  OBVIOUS
<1>1. TypeOK'
  BY StepType DEF IInv
<1>2. CASE UNCHANGED vars
  BY <1>1, <1>2 DEF vars, files, IInv, LockHeld, FilesInOrder,
     FinalizationMatchesFiles, FinalizationIntact, AnswersHaveAResult
<1>3. CASE Next
  BY <1>1, <1>3, StepLock, StepFiles, StepAnswers DEF Next, IInv
<1> QED
  BY <1>2, <1>3

\* The state of the specification is always well-typed, and more.
THEOREM Invariance == Spec => []IInv
  BY InitInv, StepInv, PTL DEF Spec

THEOREM TypeCorrect == Spec => []TypeOK
  BY Invariance, PTL DEF IInv

\* Mutual exclusion: whatever crashes and however late an invocation comes, two
\* invocations of a run are never between the read of the finalization record
\* and their return.
THEOREM MutualExclusion == Spec => []OneInvocationInside
<1>1. IInv => OneInvocationInside
  BY LockExcludes DEF IInv
<1> QED
  BY <1>1, Invariance, PTL

\* A finalization refers to the evidence and the assessment that are on disk.
THEOREM FinalizationIntegrity == Spec => []FinalizationMatchesFiles
<1>1. IInv => FinalizationMatchesFiles
  BY DEF IInv, FilesInOrder
<1> QED
  BY <1>1, Invariance, PTL

\* Every answer is the durable result of the run.
THEOREM OneResult == Spec => []ReturnsDurableResult
<1>1. IInv => ReturnsDurableResult
  BY DEF IInv, AnswersHaveAResult, ReturnsDurableResult
<1> QED
  BY <1>1, Invariance, PTL

\* Nothing is rewritten once the run has a finalization.
THEOREM Finality == Spec => FinalizationIsFinal
<1>1. IInv /\ [Next]_vars => [finalization # None => UNCHANGED files]_vars
  <2> SUFFICES ASSUME IInv, [Next]_vars, finalization # None
               PROVE  UNCHANGED files
    OBVIOUS
  <2>1. CASE UNCHANGED vars
    BY <2>1 DEF vars
  <2>2. ASSUME NEW i \in Invocations, Advance(i) \/ Tick(i) \/ Fault(i)
        PROVE  UNCHANGED files
    <3>1. ~WriteEvidence(i) /\ ~WriteAssessment(i) /\ ~WriteFinalization(i)
      BY DEF IInv, FilesInOrder, WriteEvidence, WriteAssessment, WriteFinalization,
             Inside
    <3> QED
      BY <2>2, <3>1, StepShape DEF IInv, AcquireLock, GiveUpLock, ReadFinalization,
         RereadFinalization, QuietStep
  <2> QED
    BY <2>1, <2>2 DEF Next
<1> QED
  BY <1>1, Invariance, PTL DEF Spec, FinalizationIsFinal

------------------------------------------------------------------------------
(* A run implements RunOnce.                                               *)

\* The mapped status of an invocation, where each state of pc puts it.
LEMMA StatusFacts ==
  /\ StatusOf("locking") = "pending"
  /\ \A p \in Inside : StatusOf(p) = "working"
  /\ StatusOf("returned") = "answered"
  /\ \A p \in {"refused", "threw", "crashed"} : StatusOf(p) = "stopped"
  BY DEF StatusOf, Inside, InAdapter

\* One invocation moves: so does its mapped status, and no other.
LEMMA StatusMove ==
  ASSUME TypeOK, NEW i \in Invocations, NEW to, Goto(i, to)
  PROVE  [j \in Invocations |-> StatusOf(pc[j])]'
           = [[j \in Invocations |-> StatusOf(pc[j])] EXCEPT ![i] = StatusOf(to)]
  BY DEF TypeOK, Goto

\* Within one mapped status it does not move at all.
LEMMA StatusStays ==
  ASSUME TypeOK, NEW i \in Invocations, NEW to, Goto(i, to),
         StatusOf(to) = StatusOf(pc[i])
  PROVE  UNCHANGED [j \in Invocations |-> StatusOf(pc[j])]
  BY DEF TypeOK, Goto

\* A change of status that gives no answer and commits no outcome.
LEMMA StepStops ==
  ASSUME IInv, NEW i \in Invocations, NEW to \in {"refused", "threw", "crashed"},
         Goto(i, to), pc[i] \in Inside \cup {"locking"}, UNCHANGED <<files, result>>
  PROVE  Once!Stop(i)
<1>1. /\ StatusOf(pc[i]) \in {"pending", "working"}
      /\ StatusOf(to) = "stopped"
  BY StatusFacts
<1>2. UNCHANGED OutcomeOf(finalization)
  BY DEF files, OutcomeOf
<1>3. UNCHANGED [j \in Invocations |-> OutcomeOf(result[j])]
  BY DEF files, OutcomeOf
<1> QED
  BY <1>1, <1>2, <1>3, StatusMove DEF Once!Stop, Once!Move, IInv

\* A run that nobody answered or finalized yet shows nothing to RunOnce.
LEMMA NoAnswerYet ==
  ASSUME IInv, finalization = None
  PROVE  \A j \in Invocations : result[j] = None
  BY DEF IInv, AnswersHaveAResult

\* Every step of an invocation is a step of RunOnce or changes nothing in it.
LEMMA StepOnce ==
  ASSUME IInv, NEW i \in Invocations, Advance(i) \/ Tick(i) \/ Fault(i)
  PROVE  Once!Next \/ UNCHANGED Once!vars
<1> DEFINE status == [j \in Invocations |-> StatusOf(pc[j])]
           answer == [j \in Invocations |-> OutcomeOf(result[j])]
<1>a. TypeOK /\ LockHeld
  BY DEF IInv
<1>f. ASSUME UNCHANGED <<files, result>>
      PROVE  UNCHANGED OutcomeOf(finalization) /\ UNCHANGED answer
  BY <1>f DEF files, OutcomeOf
<1>1. CASE AcquireLock(i)
  <2>1. \A j \in Invocations : pc[j] \notin Inside
    BY <1>1, <1>a, InvocationsAssumption
       DEF AcquireLock, CanLock, LockHeld, TypeOK, Inside, InAdapter
  <2>2. \A j \in Invocations : status[j] # "working"
    BY <2>1 DEF StatusOf
  <2>3. status' = [status EXCEPT ![i] = "working"]
    <3>1. "reading" \in Inside
      BY DEF Inside
    <3> QED
      BY <1>1, <1>a, <3>1, StatusMove, StatusFacts DEF AcquireLock
  <2>4. status[i] = "pending"
    BY <1>1, StatusFacts DEF AcquireLock
  <2>5. UNCHANGED OutcomeOf(finalization) /\ UNCHANGED answer
    BY <1>1, <1>f DEF AcquireLock
  <2> QED
    BY <2>2, <2>3, <2>4, <2>5 DEF Once!Next, Once!Begin, Once!Move
<1>2. CASE GiveUpLock(i)
  BY <1>2, StepStops DEF GiveUpLock, Once!Next
<1>3. ASSUME ReturnFinalization(i), Completed, UNCHANGED files, pc[i] \in Inside
      PROVE  Once!Next
  <2>1. CASE Leave(i, "threw") /\ UNCHANGED result
    BY <1>3, <2>1, StepStops DEF Leave, Once!Next
  <2>2. CASE Leave(i, "returned") /\ result' = [result EXCEPT ![i] = finalization]
    <3>1. status[i] = "working" /\ status' = [status EXCEPT ![i] = "answered"]
      BY <1>3, <2>2, <1>a, StatusMove, StatusFacts DEF Leave
    <3>2. UNCHANGED OutcomeOf(finalization)
      BY <1>3 DEF files, OutcomeOf
    <3>3. OutcomeOf(finalization) # None
      <4>1. OutcomeOf(finalization) = [record |-> finalization,
                                       evidence |-> evidence, assessment |-> assessment]
        BY <1>3 DEF Completed, OutcomeOf
      <4>2. OutcomeOf(finalization) \in Outcome
        BY <4>1, <1>3 DEF Completed, Outcome, IInv, TypeOK, FilesInOrder,
           FinalizationMatchesFiles, FinalizationIntact
      <4> QED
        BY <4>2, NoneAssumption
    <3>4. answer' = [answer EXCEPT ![i] = OutcomeOf(finalization)]
      BY <1>3, <2>2, <1>a DEF files, OutcomeOf, TypeOK
    <3> QED
      BY <3>1, <3>2, <3>3, <3>4 DEF Once!Next, Once!Answer, Once!Move
  <2> QED
    BY <1>3, <2>1, <2>2 DEF ReturnFinalization
<1>4. CASE ReadFinalization(i)
  <2>1. pc[i] \in Inside
    BY <1>4 DEF ReadFinalization, Inside
  <2>2. CASE Completed /\ ReturnFinalization(i)
    BY <1>4, <2>1, <2>2, <1>3 DEF ReadFinalization
  <2>3. CASE Goto(i, "workspace") /\ UNCHANGED result
    <3>1. "workspace" \in Inside
      BY DEF Inside
    <3>2. UNCHANGED status
      BY <1>a, <2>1, <2>3, <3>1, StatusStays, StatusFacts
    <3> QED
      BY <1>4, <2>3, <3>2, <1>f DEF ReadFinalization, Once!vars
  <2> QED
    BY <1>4, <2>2, <2>3 DEF ReadFinalization
<1>5. CASE RereadFinalization(i)
  <2>1. pc[i] \in Inside
    BY <1>5 DEF RereadFinalization, Inside
  <2>2. CASE Completed /\ ReturnFinalization(i)
    BY <1>5, <2>1, <2>2, <1>3 DEF RereadFinalization
  <2>3. CASE Leave(i, "threw") /\ UNCHANGED result
    BY <1>5, <2>1, <2>3, StepStops DEF RereadFinalization, Leave, Once!Next
  <2> QED
    BY <1>5, <2>2, <2>3 DEF RereadFinalization
<1>6. CASE WriteEvidence(i) \/ WriteAssessment(i)
  <2>1. pc[i] \in Inside /\ finalization = None /\ UNCHANGED <<finalization, result>>
    BY <1>6 DEF WriteEvidence, WriteAssessment, IInv, FilesInOrder, Inside
  <2>2. UNCHANGED OutcomeOf(finalization) /\ UNCHANGED answer
    BY <2>1, NoAnswerYet DEF OutcomeOf
  <2>3. UNCHANGED status
    <3>1. \E to \in Inside : Goto(i, to)
      BY <1>6 DEF WriteEvidence, WriteAssessment, Inside
    <3> QED
      BY <1>a, <2>1, <3>1, StatusStays, StatusFacts
  <2> QED
    BY <2>2, <2>3 DEF Once!vars
<1>7. CASE WriteFinalization(i)
  <2>1. /\ pc[i] \in Inside
        /\ finalization = None
        /\ finalization' \in Finalization
        /\ evidence \in Evidence /\ evidence' = evidence
        /\ assessment \in Assessment /\ assessment' = assessment
    BY <1>7, WrittenFiles
       DEF WriteFinalization, IInv, TypeOK, FilesInOrder, Inside
  <2>2. UNCHANGED status
    <3>1. Goto(i, "rereading") /\ "rereading" \in Inside
      BY <1>7 DEF WriteFinalization, Inside
    <3> QED
      BY <1>a, <2>1, <3>1, StatusStays, StatusFacts
  <2>3. UNCHANGED answer
    BY <1>7, <2>1, NoAnswerYet DEF WriteFinalization, OutcomeOf
  <2>4. OutcomeOf(finalization)' \in Outcome
    BY <2>1, NoneAssumption DEF OutcomeOf, Outcome
  <2>5. status[i] = "working" /\ OutcomeOf(finalization) = None
    BY <2>1, StatusFacts DEF OutcomeOf
  <2> QED
    BY <2>2, <2>3, <2>4, <2>5 DEF Once!Next, Once!Commit
<1>8. CASE QuietStep(i)
  <2>1. CASE pc[i] \in Working \ {"recording"} /\ \E to \in Working : Goto(i, to)
    <3>1. UNCHANGED status
      BY <1>a, <2>1, StatusStays, StatusFacts DEF Working
    <3> QED
      BY <1>8, <3>1, <1>f DEF QuietStep, Once!vars
  <2>2. CASE Goto(i, "crashed") \/ Goto(i, "threw")
    BY <1>8, <2>2, StepStops DEF QuietStep, Once!Next
  <2> QED
    BY <1>8, <2>1, <2>2 DEF QuietStep
<1> QED
  BY <1>1, <1>2, <1>4, <1>5, <1>6, <1>7, <1>8, <1>a, StepShape

\* A run is a RunOnce: one command at a time works on it, it commits at most one
\* result, and that is what every answered command gets.
THEOREM Implementation == Spec => RunsOnce
<1>1. Init => Once!Init
  <2> SUFFICES ASSUME Init PROVE Once!Init
    OBVIOUS
  <2>1. [j \in Invocations |-> StatusOf(pc[j])] = [c \in Invocations |-> "pending"]
    BY StatusFacts DEF Init
  <2>2. OutcomeOf(finalization) = None
    BY DEF Init, OutcomeOf
  <2>3. [j \in Invocations |-> OutcomeOf(result[j])] = [c \in Invocations |-> None]
    BY DEF Init, OutcomeOf
  <2> QED
    BY <2>1, <2>2, <2>3 DEF Once!Init
<1>2. IInv /\ [Next]_vars => [Once!Next]_(Once!vars)
  <2> SUFFICES ASSUME IInv, [Next]_vars PROVE [Once!Next]_(Once!vars)
    OBVIOUS
  <2>1. CASE UNCHANGED vars
    BY <2>1 DEF vars, files, Once!vars, OutcomeOf
  <2>2. CASE Next
    BY <2>2, StepOnce DEF Next
  <2> QED
    BY <2>1, <2>2
<1> QED
  BY <1>1, <1>2, Invariance, PTL DEF Spec, RunsOnce, Once!Spec
------------------------------------------------------------------------------
(* The attempts of the record.  IInv says nothing of them; what makes their    *)
(* properties inductive is where the invocation that is inside stands between  *)
(* them, what it remembers of them, and how it stands alone with them.         *)

\* The last attempt finished, and its review ended the call.
Succeeded == /\ Last > 0
             /\ attempts[Last].ended = "finished"
             /\ attempts[Last].review = "stop"

\* Only an attempt that ended is reviewed, and only an exhausted one goes on.
ReviewsFit ==
  \A n \in 1 .. Len(attempts) :
    /\ attempts[n].ended = "open" => attempts[n].review = "none"
    /\ attempts[n].review = "continue" => attempts[n].ended = "iteration-limit"

\* A process that has not begun, or is over, remembers nothing.
Blank(i) ==
  pc[i] \notin Inside \/ pc[i] \in {"reading", "workspace", "bootstrap"}
    => mem[i] = Fresh

\* Where an invocation stands in the attempt it works on.
AtAttempt(i) ==
  /\ pc[i] = "attempting" => Last > 0 /\ attempts[Last].ended = "open"
  /\ pc[i] = "reviewing" => Last > 0 /\ attempts[Last].ended # "open"
  /\ pc[i] = "continuing" => /\ Last > 0
                             /\ attempts[Last].review = "continue"
                             /\ Last < mem[i].limit

\* A repair is decided on, and a success reported, only after a success.
Remembers(i) ==
  /\ pc[i] \in {"opening", "deciding"} =>
       \/ mem[i].phase = "initial" /\ mem[i].agent # "finished"
       \/ mem[i].phase = "repair" /\ Succeeded
  /\ (/\ pc[i] \in {"returning", "verifying", "repairing", "oracle", "recording"}
      /\ mem[i].agent = "finished") => Succeeded
  /\ pc[i] = "repairing" => mem[i].phase = "initial"

\* The verification that is still to be recorded is one of the last attempt.
VerifiedLast(i) ==
  (/\ pc[i] \in {"repairing", "oracle", "recording"}
   /\ mem[i].agent = "finished") => mem[i].verification.seen = Last

\* What the Evidence of a success says of the record.
EvidenceIsCurrent ==
  evidence.agent = "finished" =>
    /\ Succeeded
    /\ evidence.attempts = Last
    /\ evidence.verification.seen = Last

\* It holds from the write of the Evidence on, unless that execution dies.
WritesCurrent(i) == pc[i] \in {"assessing", "finalizing"} => EvidenceIsCurrent
FinalIsCurrent == finalization # None => EvidenceIsCurrent

\* The invocations that have not worked on the run.
Idle(i) == pc[i] \in {"locking", "refused"}

\* While nobody has worked on it a run has no attempt ...
Untouched ==
  (\A i \in Invocations : Idle(i)) =>
    attempts = <<>> /\ repairs = 0 /\ activeMs = 0

\* ... and while one invocation has, the record is what that one made of it.
Alone(i) == ~Idle(i) /\ \A j \in Invocations \ {i} : Idle(j)

WithinBounds ==
  /\ \A n \in InitialAttempts : n <= MaxAttempts
  /\ repairs <= 1
  /\ activeMs <= TimeoutMs

FirstCall(i) == pc[i] \in Inside /\ mem[i].phase = "initial"

Bound(i) ==
  /\ WithinBounds
  /\ pc[i] \in Inside => activeMs <= mem[i].clock
  /\ FirstCall(i) => repairs = 0
  /\ pc[i] \in {"opening", "deciding"} => repairs = 0
  /\ FirstCall(i) /\ pc[i] \in {"reading", "workspace", "bootstrap",
                                "opening", "deciding"} => attempts = <<>>
  /\ FirstCall(i) /\ pc[i] \in {"attempting", "reviewing", "continuing"} =>
       Last <= MaxAttempts /\ mem[i].limit = MaxAttempts

\* What one invocation knows of the record while it has the lock.
Stand(i) == /\ Blank(i) /\ AtAttempt(i) /\ Remembers(i)
            /\ VerifiedLast(i) /\ WritesCurrent(i)

RecordInv ==
  /\ IInv
  /\ ReviewsFit
  /\ AttemptsHaveAnOwner
  /\ FinalIsCurrent
  /\ Untouched
  /\ \A i \in Invocations : Stand(i)
  /\ \A i \in Invocations : Alone(i) => Bound(i)

\* A record that is not touched stays sound.
LEMMA SameRecord ==
  ASSUME ReviewsFit, AttemptsHaveAnOwner, UNCHANGED attempts
  PROVE  ReviewsFit' /\ AttemptsHaveAnOwner'
  BY DEF ReviewsFit, AttemptsHaveAnOwner

LEMMA SameBounds ==
  ASSUME WithinBounds, UNCHANGED <<attempts, repairs, activeMs>>
  PROVE  WithinBounds'
  BY DEF WithinBounds, InitialAttempts

\* The last attempt ends, is reviewed, or gets a successor: the others stay.
LEMMA EndedLast ==
  ASSUME TypeOK, Last > 0, NEW e, attempts' = [attempts EXCEPT ![Last].ended = e]
  PROVE  /\ Last' = Last
         /\ \A n \in 1 .. Len(attempts) : /\ attempts'[n].call = attempts[n].call
                                          /\ attempts'[n].review = attempts[n].review
                                          /\ n # Last => attempts'[n] = attempts[n]
         /\ attempts'[Last].ended = e
  BY LastType DEF TypeOK, Last, Attempt

LEMMA ReviewedLast ==
  ASSUME TypeOK, Last > 0, NEW r, attempts' = [attempts EXCEPT ![Last].review = r]
  PROVE  /\ Last' = Last
         /\ \A n \in 1 .. Len(attempts) : /\ attempts'[n].call = attempts[n].call
                                          /\ attempts'[n].ended = attempts[n].ended
                                          /\ n # Last => attempts'[n] = attempts[n]
         /\ attempts'[Last].review = r
  BY LastType DEF TypeOK, Last, Attempt

LEMMA BegunLast ==
  ASSUME TypeOK, NEW i \in Invocations, NEW m, BeginAttempt(i, m)
  PROVE  /\ Last' = Last + 1
         /\ \A n \in 1 .. Len(attempts) : attempts'[n] = attempts[n]
         /\ attempts'[Last + 1].call = mem[i].phase
         /\ attempts'[Last + 1].ended = "open"
         /\ attempts'[Last + 1].review = "none"
<1>1. PICK a : a = [call |-> mem[i].phase, ended |-> "open", review |-> "none"]
  OBVIOUS
<1>2. a \in Attempt
  BY <1>1 DEF TypeOK, Memory, Attempt
<1>3. attempts' = Append(attempts, a)
  BY <1>1 DEF BeginAttempt
<1> QED
  BY <1>1, <1>2, <1>3 DEF Last, TypeOK

\* An attempt that is begun has an owner if the last one had an exhausted end
\* and a review that continues it, or is a repair of a success.
LEMMA BegunRecord ==
  ASSUME TypeOK, ReviewsFit, AttemptsHaveAnOwner,
         NEW i \in Invocations, NEW m, BeginAttempt(i, m),
         \/ Last = 0
         \/ attempts[Last].review = "continue"
         \/ attempts[Last].ended = "finished" /\ mem[i].phase = "repair"
  PROVE  ReviewsFit' /\ AttemptsHaveAnOwner'
<1>1. Last \in Nat /\ Len(attempts) = Last
  BY LastType DEF Last
<1>2. Len(attempts') = Last + 1
  BY BegunLast DEF Last
<1>3. ReviewsFit'
  <2> SUFFICES ASSUME NEW n \in 1 .. Last + 1
               PROVE  /\ attempts'[n].ended = "open" => attempts'[n].review = "none"
                      /\ attempts'[n].review = "continue"
                           => attempts'[n].ended = "iteration-limit"
    BY <1>2 DEF ReviewsFit
  <2>1. CASE n = Last + 1
    BY <2>1, BegunLast
  <2>2. CASE n \in 1 .. Len(attempts)
    BY <2>2, BegunLast DEF ReviewsFit
  <2> QED
    BY <1>1, <2>1, <2>2
<1>4. AttemptsHaveAnOwner'
  <2> SUFFICES ASSUME NEW n \in 2 .. Last + 1
               PROVE  \/ /\ attempts'[n - 1].ended = "iteration-limit"
                         /\ attempts'[n - 1].review = "continue"
                      \/ attempts'[n - 1].ended = "finished" /\ attempts'[n].call = "repair"
    BY <1>2 DEF AttemptsHaveAnOwner
  <2>0. n - 1 \in 1 .. Len(attempts) /\ attempts'[n - 1] = attempts[n - 1]
    BY <1>1, BegunLast
  <2>1. CASE n = Last + 1
    <3>1. n - 1 = Last /\ Last > 0 /\ Last \in 1 .. Len(attempts)
      BY <1>1, <2>1
    <3>2. attempts'[n].call = mem[i].phase
      BY <2>1, BegunLast
    <3> QED
      BY <2>0, <3>1, <3>2 DEF ReviewsFit
  <2>2. CASE n \in 2 .. Len(attempts)
    <3>1. attempts'[n] = attempts[n]
      BY <2>2, BegunLast
    <3> QED
      BY <2>0, <2>2, <3>1 DEF AttemptsHaveAnOwner
  <2> QED
    BY <1>1, <2>1, <2>2
<1> QED
  BY <1>3, <1>4

\* What an invocation that leaves the run leaves behind.
LEMMA Left ==
  ASSUME TypeOK, ReviewsFit, AttemptsHaveAnOwner, NEW i \in Invocations,
         NEW to \in Outside, Goto(i, to), Forget(i), pc[i] \in Inside,
         UNCHANGED <<attempts, repairs, activeMs>>
  PROVE  /\ Stand(i)' /\ ReviewsFit' /\ AttemptsHaveAnOwner'
         /\ Bound(i) => Bound(i)'
<1>1. pc'[i] \in Outside /\ mem'[i] = Fresh
  BY DEF Goto, Forget, TypeOK
<1>2. pc'[i] \notin Inside
  BY <1>1 DEF Outside, Inside, InAdapter
<1>3. Stand(i)'
  BY <1>1, <1>2 DEF Stand, Blank, AtAttempt, Remembers, VerifiedLast, WritesCurrent,
                    Inside, InAdapter
<1>4. Bound(i) => Bound(i)'
  BY <1>2, SameBounds DEF Bound, FirstCall, Inside, InAdapter
<1> QED
  BY <1>3, <1>4, SameRecord
\* The invocation enters: it has the lock, and remembers nothing.
LEMMA EnterRun ==
  ASSUME RecordInv, NEW i \in Invocations,
         AcquireLock(i) \/ (ReadFinalization(i) /\ ~Completed) \/ Bootstrap(i)
           \/ (OpenWorkspace(i) /\ \E to \in Inside : Goto(i, to))
  PROVE  /\ Stand(i)' /\ ReviewsFit' /\ AttemptsHaveAnOwner'
         /\ Bound(i) /\ pc[i] \in Inside => Bound(i)'
<1>0. TypeOK /\ Stand(i) /\ ReviewsFit /\ AttemptsHaveAnOwner
  BY DEF RecordInv, IInv
<1>1. /\ pc[i] \in {"locking", "reading", "workspace", "bootstrap"}
      /\ pc'[i] \in {"reading", "workspace", "bootstrap", "opening", "recording"}
      /\ mem' = mem
      /\ UNCHANGED <<attempts, evidence, repairs, activeMs>>
  <2>1. \A to : Goto(i, to) => pc'[i] = to
    BY <1>0 DEF Goto, TypeOK
  <2>2. CASE AcquireLock(i)
    BY <2>1, <2>2 DEF AcquireLock, record, files, history
  <2>3. CASE ReadFinalization(i) /\ ~Completed
    BY <2>1, <2>3 DEF ReadFinalization, record, files, history
  <2>4. CASE Bootstrap(i)
    BY <2>1, <2>4 DEF Bootstrap, record, files, history
  <2>5. CASE OpenWorkspace(i) /\ \E to \in Inside : Goto(i, to)
    <3>1. pc'[i] \in Inside
      BY <2>1, <2>5
    <3>2. ~Leave(i, "threw")
      BY <2>1, <3>1 DEF Leave, Inside, InAdapter
    <3> QED
      BY <2>1, <2>5, <3>2 DEF OpenWorkspace, record, files, history
  <2> QED
    BY <2>2, <2>3, <2>4, <2>5
<1>2. mem[i] = Fresh /\ mem'[i] = Fresh
  BY <1>0, <1>1 DEF Stand, Blank, Inside, InAdapter
<1>3. Fresh.phase = "initial" /\ Fresh.agent = "failed"
  BY DEF Fresh
<1>4. Stand(i)'
  BY <1>1, <1>2, <1>3 DEF Stand, Blank, AtAttempt, Remembers, VerifiedLast,
                          WritesCurrent, Inside, InAdapter
<1>5. ASSUME Bound(i), pc[i] \in Inside PROVE Bound(i)'
  <2>1. WithinBounds'
    BY <1>1, <1>5, SameBounds DEF Bound
  <2>2. FirstCall(i) /\ attempts = <<>> /\ repairs = 0 /\ activeMs <= mem[i].clock
    BY <1>1, <1>2, <1>3, <1>5 DEF Bound, FirstCall, Inside, InAdapter
  <2> QED
    BY <1>1, <2>1, <2>2 DEF Bound, FirstCall, Inside, InAdapter
<1> QED
  BY <1>0, <1>1, <1>4, <1>5, SameRecord

\* A call of the adapter is over: what it reports of a success is true.
LEMMA CallEnds ==
  ASSUME TypeOK, NEW i \in Invocations, NEW agent \in AgentResults,
         EndCall(i, agent), pc[i] \in InAdapter \ {"returning"},
         agent = "finished" => Succeeded',
         ReviewsFit', AttemptsHaveAnOwner',
         UNCHANGED <<evidence, repairs, activeMs>>,
         WithinBounds => WithinBounds'
  PROVE  /\ Stand(i)'
         /\ Bound(i) => Bound(i)'
<1>1. /\ pc'[i] = "returning"
      /\ mem'[i].agent = agent
      /\ mem'[i].phase = mem[i].phase
      /\ mem'[i].clock = mem[i].clock
  BY DEF EndCall, Goto, TypeOK, Memory
<1>2. Stand(i)'
  BY <1>1 DEF Stand, Blank, AtAttempt, Remembers, VerifiedLast, WritesCurrent,
              Inside, InAdapter
<1>3. ASSUME Bound(i) PROVE Bound(i)'
  <2>1. pc[i] \in Inside
    BY DEF Inside
  <2>2. activeMs <= mem[i].clock /\ WithinBounds' /\ (FirstCall(i) => repairs = 0)
    BY <1>3, <2>1 DEF Bound
  <2> QED
    BY <1>1, <2>1, <2>2 DEF Bound, FirstCall, Inside, InAdapter
<1> QED
  BY <1>2, <1>3

\* The record is opened, or the call ends because it does not fit the worktree.
LEMMA OpenRecordKeeps ==
  ASSUME RecordInv, NEW i \in Invocations, OpenRecord(i)
  PROVE  /\ Stand(i)' /\ ReviewsFit' /\ AttemptsHaveAnOwner'
         /\ Bound(i) => Bound(i)'
<1>0. TypeOK /\ Stand(i) /\ ReviewsFit /\ AttemptsHaveAnOwner
  BY DEF RecordInv, IInv
<1>1. /\ pc[i] = "opening"
      /\ UNCHANGED <<attempts, evidence, repairs, activeMs>>
  BY DEF OpenRecord, files, history
<1>2. ReviewsFit' /\ AttemptsHaveAnOwner'
  BY <1>0, <1>1, SameRecord
<1>3. CASE EndCall(i, "failed")
  <2>1. "failed" \in AgentResults /\ "opening" \in InAdapter
    BY DEF AgentResults, InAdapter
  <2>2. WithinBounds => WithinBounds'
    BY <1>1, SameBounds
  <2> QED
    BY <1>0, <1>1, <1>2, <1>3, <2>1, <2>2, CallEnds
<1>4. CASE /\ Goto(i, "deciding")
           /\ \E active \in ActiveRuntime :
                mem' = [mem EXCEPT ![i].activeAtOpen = active]
  <2>1. /\ pc'[i] = "deciding"
        /\ mem'[i].phase = mem[i].phase
        /\ mem'[i].agent = mem[i].agent
        /\ mem'[i].clock = mem[i].clock
    BY <1>0, <1>4 DEF Goto, TypeOK, Memory
  <2>2. Stand(i)'
    BY <1>0, <1>1, <2>1 DEF Stand, Blank, AtAttempt, Remembers, VerifiedLast,
       WritesCurrent, Inside, InAdapter, Succeeded, Last
  <2>3. ASSUME Bound(i) PROVE Bound(i)'
    <3>1. WithinBounds'
      BY <1>1, <2>3, SameBounds DEF Bound
    <3> QED
      BY <1>1, <2>1, <2>3, <3>1 DEF Bound, FirstCall, Inside, InAdapter
  <2> QED
    BY <1>2, <2>2, <2>3
<1> QED
  BY <1>3, <1>4 DEF OpenRecord

\* A lost review is made up for.
LEMMA ReviewOrphanKeeps ==
  ASSUME RecordInv, NEW i \in Invocations, ReviewOrphan(i)
  PROVE  /\ Stand(i)' /\ ReviewsFit' /\ AttemptsHaveAnOwner'
         /\ Bound(i) => Bound(i)'
<1>0. TypeOK /\ Stand(i) /\ ReviewsFit /\ AttemptsHaveAnOwner
  BY DEF RecordInv, IInv
<1>1. /\ pc[i] = "deciding" /\ Last > 0
      /\ attempts[Last].ended # "open" /\ attempts[Last].review = "none"
      /\ UNCHANGED <<pc, mem, evidence, repairs, activeMs>>
  BY DEF ReviewOrphan, files, history
<1>2. PICK review : /\ attempts' = [attempts EXCEPT ![Last].review = review]
                    /\ review = "continue" => attempts[Last].ended = "iteration-limit"
  <2>1. \A n, max, remaining :
          Review(attempts[Last].ended, n, max, remaining) = "continue"
            => attempts[Last].ended = "iteration-limit"
    BY DEF Review
  <2> QED
    BY <2>1 DEF ReviewOrphan
<1>3. Last \in 1 .. Len(attempts) /\ Last = Len(attempts)
  BY <1>0, <1>1, LastType DEF Last
<1>4. Len(attempts') = Last
  BY <1>0, <1>1, <1>2, ReviewedLast DEF Last
<1>5. ReviewsFit'
  BY <1>0, <1>1, <1>2, <1>3, <1>4, ReviewedLast DEF ReviewsFit
<1>6. AttemptsHaveAnOwner'
  <2>1. \A n \in 2 .. Len(attempts) : n - 1 \in 1 .. Len(attempts) /\ n - 1 # Last
    BY <1>3
  <2>2. \A n \in 2 .. Len(attempts) :
          attempts'[n - 1] = attempts[n - 1] /\ attempts'[n].call = attempts[n].call
    BY <1>0, <1>1, <1>2, <2>1, ReviewedLast
  <2> QED
    BY <1>0, <1>3, <1>4, <2>2 DEF AttemptsHaveAnOwner
<1>7. mem[i].phase = "initial" /\ mem[i].agent # "finished"
  BY <1>0, <1>1 DEF Stand, Remembers, Succeeded
<1>8. Stand(i)'
  BY <1>1, <1>7 DEF Stand, Blank, AtAttempt, Remembers, VerifiedLast, WritesCurrent,
                    Inside, InAdapter
<1>9. ~Bound(i)
  BY <1>1, <1>3, <1>7 DEF Bound, FirstCall, Inside, InAdapter
<1> QED
  BY <1>5, <1>6, <1>8, <1>9
\* An attempt begins: from nothing, on a review, or as a repair.
LEMMA BeginKeeps ==
  ASSUME RecordInv, NEW i \in Invocations, NEW m, BeginAttempt(i, m),
         pc[i] \in {"deciding", "continuing"},
         \/ Last = 0
         \/ attempts[Last].review = "continue"
         \/ attempts[Last].ended = "finished" /\ mem[i].phase = "repair",
         Bound(i) /\ mem[i].phase = "initial" =>
           /\ Last + 1 <= MaxAttempts
           /\ m = MaxAttempts
           /\ repairs' = 0,
         Bound(i) => repairs' <= 1
  PROVE  /\ Stand(i)' /\ ReviewsFit' /\ AttemptsHaveAnOwner'
         /\ Bound(i) => Bound(i)'
<1>0. TypeOK /\ Stand(i) /\ ReviewsFit /\ AttemptsHaveAnOwner
  BY DEF RecordInv, IInv
<1>1. ReviewsFit' /\ AttemptsHaveAnOwner'
  BY <1>0, BegunRecord
<1>2. /\ pc'[i] = "attempting"
      /\ mem'[i].phase = mem[i].phase
      /\ mem'[i].clock = mem[i].clock
      /\ mem'[i].limit = m
      /\ UNCHANGED <<evidence, activeMs>>
  BY <1>0 DEF BeginAttempt, Goto, TypeOK, Memory, files
<1>3. /\ Last \in Nat /\ Last' = Last + 1
      /\ attempts'[Last'].ended = "open"
      /\ attempts'[Last'].call = mem[i].phase
  BY <1>0, LastType, BegunLast
<1>4. Stand(i)'
  BY <1>2, <1>3 DEF Stand, Blank, AtAttempt, Remembers, VerifiedLast, WritesCurrent,
                    Inside, InAdapter
<1>5. ASSUME Bound(i) PROVE Bound(i)'
  <2>1. activeMs <= mem[i].clock
    BY <1>5 DEF Bound, Inside, InAdapter
  <2>2. \A n \in InitialAttempts' : n <= MaxAttempts
    <3> SUFFICES ASSUME NEW n \in 1 .. Last + 1, attempts'[n].call = "initial"
                 PROVE  n <= MaxAttempts
      BY <1>3 DEF InitialAttempts, Last
    <3>1. CASE n = Last + 1
      BY <1>3, <1>5, <3>1
    <3>2. CASE n \in 1 .. Len(attempts)
      BY <1>0, <1>5, <3>2, BegunLast DEF Bound, WithinBounds, InitialAttempts
    <3> QED
      BY <1>3, <3>1, <3>2 DEF Last
  <2>3. WithinBounds'
    BY <1>2, <1>5, <2>2 DEF Bound, WithinBounds
  <2> QED
    BY <1>2, <1>3, <1>5, <2>1, <2>3 DEF Bound, FirstCall, Inside, InAdapter
<1> QED
  BY <1>1, <1>4, <1>5

LEMMA StartKeeps ==
  ASSUME RecordInv, NEW i \in Invocations,
         StartFirstAttempt(i) \/ ResumeContinuation(i) \/ StartRepairAttempt(i)
           \/ ContinueAttempt(i)
  PROVE  /\ Stand(i)' /\ ReviewsFit' /\ AttemptsHaveAnOwner'
         /\ Bound(i) => Bound(i)'
<1>0. TypeOK /\ Stand(i) /\ Last \in Nat
  BY LastType DEF RecordInv, IInv
<1>a. mem[i].phase = "repair" /\ pc[i] = "deciding" => Succeeded
  BY <1>0 DEF Stand, Remembers
<1>c. pc[i] \in {"deciding", "continuing"}
  BY DEF StartFirstAttempt, ResumeContinuation, StartRepairAttempt, ContinueAttempt
<1>b. Bound(i) /\ mem[i].phase = "initial" => repairs = 0
        /\ (pc[i] = "deciding" => Last = 0)
        /\ (pc[i] = "continuing" => Last <= MaxAttempts /\ mem[i].limit = MaxAttempts)
  BY <1>c DEF Bound, FirstCall, Inside, InAdapter, Last
<1>1. CASE StartFirstAttempt(i)
  <2>1. /\ BeginAttempt(i, MaxAttempts) /\ repairs' = repairs
        /\ pc[i] = "deciding" /\ Last = 0
    BY <1>1 DEF StartFirstAttempt
  <2>2. Bound(i) => repairs' <= 1
    BY <2>1 DEF Bound, WithinBounds
  <2>3. Last + 1 <= MaxAttempts
    BY <2>1, PolicyAssumption
  <2> QED
    BY <1>b, <1>c, <2>1, <2>2, <2>3, BeginKeeps
<1>2. CASE ResumeContinuation(i)
  <2>1. PICK m : BeginAttempt(i, m)
    BY <1>2 DEF ResumeContinuation
  <2>2. /\ repairs' = repairs /\ pc[i] = "deciding"
        /\ Last > 0 /\ attempts[Last].review = "continue"
    BY <1>2 DEF ResumeContinuation
  <2>3. Bound(i) => repairs' <= 1
    BY <2>2 DEF Bound, WithinBounds
  <2>4. ~(Bound(i) /\ mem[i].phase = "initial")
    BY <1>b, <2>2
  <2> QED
    BY <2>1, <2>2, <2>3, <2>4, BeginKeeps
<1>3. CASE StartRepairAttempt(i)
  <2>1. PICK m : BeginAttempt(i, m)
    BY <1>3 DEF StartRepairAttempt
  <2>2. repairs' = repairs + 1 /\ pc[i] = "deciding" /\ mem[i].phase = "repair"
    BY <1>3 DEF StartRepairAttempt
  <2>3. Bound(i) => repairs' <= 1
    BY <2>2 DEF Bound
  <2> QED
    BY <1>a, <2>1, <2>2, <2>3, BeginKeeps DEF Succeeded
<1>4. CASE ContinueAttempt(i)
  <2>1. /\ BeginAttempt(i, mem[i].limit) /\ repairs' = repairs
        /\ pc[i] = "continuing"
    BY <1>4 DEF ContinueAttempt
  <2>2. /\ Last > 0 /\ attempts[Last].review = "continue" /\ Last < mem[i].limit
        /\ mem[i].limit \in Nat
    BY <1>0, <2>1 DEF Stand, AtAttempt, TypeOK, Memory
  <2>3. Bound(i) => repairs' <= 1
    BY <2>1 DEF Bound, WithinBounds
  <2>4. PICK m : m = mem[i].limit
    OBVIOUS
  <2>5. Bound(i) /\ mem[i].phase = "initial" => Last + 1 <= MaxAttempts /\ m = MaxAttempts
    BY <1>0, <1>b, <2>1, <2>2, <2>4
  <2> QED
    BY <1>b, <2>1, <2>2, <2>3, <2>4, <2>5, BeginKeeps
<1> QED
  BY <1>1, <1>2, <1>3, <1>4

\* An open attempt goes on, or has no owner; a complete record is replayed.
LEMMA ResumeKeeps ==
  ASSUME RecordInv, NEW i \in Invocations, ResumeAttempt(i) \/ ReplayTerminal(i)
  PROVE  /\ Stand(i)' /\ ReviewsFit' /\ AttemptsHaveAnOwner'
         /\ Bound(i) => Bound(i)'
<1>0. TypeOK /\ Stand(i) /\ ReviewsFit /\ AttemptsHaveAnOwner
  BY DEF RecordInv, IInv
<1>1. /\ pc[i] = "deciding" /\ pc[i] \in InAdapter \ {"returning"} /\ Last > 0
      /\ UNCHANGED <<attempts, evidence, repairs, activeMs>>
  BY DEF ResumeAttempt, ReplayTerminal, record, files, history, InAdapter
<1>2. ReviewsFit' /\ AttemptsHaveAnOwner' /\ (WithinBounds => WithinBounds')
  BY <1>0, <1>1, SameRecord, SameBounds
<1>3. CASE EndCall(i, "failed")
  <2>1. "failed" \in AgentResults
    BY DEF AgentResults
  <2> QED
    BY <1>0, <1>1, <1>2, <1>3, <2>1, CallEnds
<1>4. CASE ReplayTerminal(i)
  <2>1. PICK agent : agent = ResultOf(attempts[Last].ended)
    OBVIOUS
  <2>2. agent \in AgentResults
    BY <2>1, ReviewType
  <2>3. EndCall(i, agent) /\ attempts[Last].review = "stop"
    BY <1>4, <2>1 DEF ReplayTerminal
  <2>4. agent = "finished" => Succeeded'
    BY <1>1, <2>1, <2>3 DEF ResultOf, Succeeded, Last
  <2> QED
    BY <1>0, <1>1, <1>2, <2>2, <2>3, <2>4, CallEnds
<1>5. CASE /\ ResumeAttempt(i)
           /\ mem' = [mem EXCEPT ![i].limit = Last + MaxAttempts - 1]
           /\ Goto(i, "attempting")
  <2>1. attempts[Last].ended = "open"
    BY <1>5 DEF ResumeAttempt
  <2>2. mem[i].phase = "initial"
    BY <1>0, <1>1, <2>1 DEF Stand, Remembers, Succeeded
  <2>3. pc'[i] = "attempting"
    BY <1>0, <1>5 DEF Goto, TypeOK
  <2>4. Stand(i)'
    BY <1>1, <2>1, <2>3 DEF Stand, Blank, AtAttempt, Remembers, VerifiedLast,
                            WritesCurrent, Inside, InAdapter, Last
  <2>5. ~Bound(i)
    BY <1>0, <1>1, <2>2 DEF Bound, FirstCall, Inside, InAdapter, Last
  <2> QED
    BY <1>2, <2>4, <2>5
<1> QED
  BY <1>3, <1>4, <1>5 DEF ResumeAttempt
\* Setting the end or the review of the last attempt leaves the owners of the
\* others, and the counts, as they are.
LEMMA TouchLast ==
  ASSUME TypeOK, AttemptsHaveAnOwner, Last > 0, Last' = Last,
         \A n \in 1 .. Len(attempts) : /\ attempts'[n].call = attempts[n].call
                                       /\ n # Last => attempts'[n] = attempts[n]
  PROVE  /\ AttemptsHaveAnOwner'
         /\ UNCHANGED <<repairs, activeMs>> /\ WithinBounds => WithinBounds'
<1>1. Last \in Nat /\ Last = Len(attempts) /\ Last = Len(attempts')
  BY LastType DEF Last
<1>2. AttemptsHaveAnOwner'
  <2>1. \A n \in 2 .. Len(attempts) : n - 1 \in 1 .. Len(attempts) /\ n - 1 # Last
    BY <1>1
  <2>2. \A n \in 2 .. Len(attempts) :
          attempts'[n - 1] = attempts[n - 1] /\ attempts'[n].call = attempts[n].call
    BY <2>1
  <2> QED
    BY <1>1, <2>2 DEF AttemptsHaveAnOwner
<1>3. ASSUME WithinBounds, UNCHANGED <<repairs, activeMs>> PROVE WithinBounds'
  BY <1>1, <1>3 DEF WithinBounds, InitialAttempts
<1> QED
  BY <1>2, <1>3

LEMMA EndKeeps ==
  ASSUME RecordInv, NEW i \in Invocations, EndAttempt(i)
  PROVE  /\ Stand(i)' /\ ReviewsFit' /\ AttemptsHaveAnOwner'
         /\ Bound(i) => Bound(i)'
<1>0. TypeOK /\ Stand(i) /\ ReviewsFit /\ AttemptsHaveAnOwner
  BY DEF RecordInv, IInv
<1>1. PICK ended \in Terminations : attempts' = [attempts EXCEPT ![Last].ended = ended]
  BY DEF EndAttempt
<1>2. /\ pc[i] = "attempting" /\ pc'[i] = "reviewing" /\ mem' = mem
      /\ UNCHANGED <<evidence, repairs, activeMs>>
  BY <1>0 DEF EndAttempt, Goto, TypeOK, files, history
<1>3. Last > 0 /\ attempts[Last].ended = "open" /\ ended # "open"
  BY <1>0, <1>2 DEF Stand, AtAttempt, Terminations
<1>4. Last \in 1 .. Len(attempts) /\ Last = Len(attempts)
  BY <1>0, <1>3, LastType DEF Last
<1>5. /\ Last' = Last /\ attempts'[Last].ended = ended
      /\ \A n \in 1 .. Len(attempts) : /\ attempts'[n].call = attempts[n].call
                                       /\ attempts'[n].review = attempts[n].review
                                       /\ n # Last => attempts'[n] = attempts[n]
  BY <1>0, <1>1, <1>3, EndedLast
<1>6. attempts[Last].review = "none"
  BY <1>0, <1>3, <1>4 DEF ReviewsFit
<1>7. ReviewsFit'
  BY <1>0, <1>3, <1>4, <1>5, <1>6 DEF ReviewsFit, Last
<1>8. AttemptsHaveAnOwner' /\ (WithinBounds => WithinBounds')
  BY <1>0, <1>2, <1>3, <1>5, TouchLast
<1>9. Stand(i)'
  BY <1>2, <1>3, <1>5 DEF Stand, Blank, AtAttempt, Remembers, VerifiedLast,
                          WritesCurrent, Inside, InAdapter
<1>10. ASSUME Bound(i) PROVE Bound(i)'
  BY <1>2, <1>5, <1>8, <1>10 DEF Bound, FirstCall, Inside, InAdapter
<1> QED
  BY <1>7, <1>8, <1>9, <1>10

LEMMA ReviewKeeps ==
  ASSUME RecordInv, NEW i \in Invocations, ReviewAttempt(i)
  PROVE  /\ Stand(i)' /\ ReviewsFit' /\ AttemptsHaveAnOwner'
         /\ Bound(i) => Bound(i)'
<1>0. TypeOK /\ Stand(i) /\ ReviewsFit /\ AttemptsHaveAnOwner
  BY DEF RecordInv, IInv
<1>1. PICK ended : ended = attempts[Last].ended
  OBVIOUS
<1>2. PICK remaining : remaining = TimeoutMs - (mem[i].activeAtOpen + mem[i].clock)
  OBVIOUS
<1>3. PICK review : review = Review(ended, Last, mem[i].limit, remaining)
  OBVIOUS
<1>4. /\ attempts' = [attempts EXCEPT ![Last].review = review]
      /\ \/ review = "continue" /\ Goto(i, "continuing") /\ UNCHANGED mem
         \/ review = "stop" /\ EndCall(i, ResultOf(ended))
      /\ pc[i] = "reviewing"
      /\ UNCHANGED <<evidence, repairs, activeMs>>
  BY <1>1, <1>2, <1>3 DEF ReviewAttempt, files, history
<1>5. review = "continue" => ended = "iteration-limit" /\ Last < mem[i].limit
  BY <1>3 DEF Review
<1>6. Last > 0 /\ ended # "open"
  BY <1>0, <1>1, <1>4 DEF Stand, AtAttempt
<1>7. Last \in 1 .. Len(attempts) /\ Last = Len(attempts)
  BY <1>0, <1>6, LastType DEF Last
<1>8. /\ Last' = Last /\ attempts'[Last].review = review /\ attempts'[Last].ended = ended
      /\ \A n \in 1 .. Len(attempts) : /\ attempts'[n].call = attempts[n].call
                                       /\ attempts'[n].ended = attempts[n].ended
                                       /\ n # Last => attempts'[n] = attempts[n]
  BY <1>0, <1>1, <1>4, <1>6, <1>7, ReviewedLast
<1>9. ReviewsFit'
  BY <1>0, <1>1, <1>5, <1>6, <1>7, <1>8 DEF ReviewsFit, Last
<1>10. AttemptsHaveAnOwner' /\ (WithinBounds => WithinBounds')
  BY <1>0, <1>4, <1>6, <1>8, TouchLast
<1>11. CASE review = "continue"
  <2>1. pc'[i] = "continuing" /\ mem' = mem
    BY <1>0, <1>4, <1>11 DEF Goto, TypeOK
  <2>2. Stand(i)'
    BY <1>5, <1>6, <1>8, <1>11, <2>1 DEF Stand, Blank, AtAttempt, Remembers,
       VerifiedLast, WritesCurrent, Inside, InAdapter
  <2>3. ASSUME Bound(i) PROVE Bound(i)'
    BY <1>4, <1>8, <1>10, <2>1, <2>3 DEF Bound, FirstCall, Inside, InAdapter
  <2> QED
    BY <1>9, <1>10, <2>2, <2>3
<1>12. CASE review = "stop"
  <2>1. PICK agent : agent = ResultOf(ended)
    OBVIOUS
  <2>2. agent \in AgentResults /\ EndCall(i, agent)
    BY <1>4, <1>12, <2>1, ReviewType
  <2>3. agent = "finished" => Succeeded'
    BY <1>6, <1>8, <1>12, <2>1 DEF ResultOf, Succeeded
  <2>4. pc[i] \in InAdapter \ {"returning"}
    BY <1>4 DEF InAdapter
  <2> QED
    BY <1>0, <1>4, <1>9, <1>10, <2>2, <2>3, <2>4, CallEnds
<1> QED
  BY <1>4, <1>11, <1>12

LEMMA ThrowKeeps ==
  ASSUME RecordInv, NEW i \in Invocations, AdapterThrows(i)
  PROVE  /\ Stand(i)' /\ ReviewsFit' /\ AttemptsHaveAnOwner'
         /\ Bound(i) => Bound(i)'
<1>0. TypeOK /\ ReviewsFit /\ AttemptsHaveAnOwner
  BY DEF RecordInv, IInv
<1>1. /\ EndCall(i, "failed") /\ pc[i] \in InAdapter \ {"returning"}
      /\ UNCHANGED <<attempts, evidence, repairs, activeMs>>
  BY DEF AdapterThrows, files
<1>2. "failed" \in AgentResults
  BY DEF AgentResults
<1> QED
  BY <1>0, <1>1, <1>2, SameRecord, SameBounds, CallEnds

\* After the call: the verification, the repair and the Evidence.
LEMMA AfterAgentKeeps ==
  ASSUME RecordInv, NEW i \in Invocations,
         \/ ReturnAgent(i) /\ ~Leave(i, "threw")
         \/ Verify(i) \/ DecideRepair(i) \/ RunOracle(i)
  PROVE  /\ Stand(i)' /\ ReviewsFit' /\ AttemptsHaveAnOwner'
         /\ Bound(i) => Bound(i)'
<1>0. TypeOK /\ Stand(i) /\ ReviewsFit /\ AttemptsHaveAnOwner
  BY DEF RecordInv, IInv
<1>1. UNCHANGED <<attempts, evidence, repairs, activeMs>>
  BY DEF ReturnAgent, Verify, DecideRepair, RunOracle, record, files, history
<1>2. Last' = Last /\ (Succeeded' <=> Succeeded)
  BY <1>1 DEF Succeeded, Last
<1>3. ReviewsFit' /\ AttemptsHaveAnOwner' /\ (WithinBounds => WithinBounds')
  BY <1>0, <1>1, SameRecord, SameBounds
<1>4. \A to : Goto(i, to) => pc'[i] = to
  BY <1>0 DEF Goto, TypeOK
<1>5. CASE ReturnAgent(i) /\ ~Leave(i, "threw")
  <2>1. /\ pc[i] = "returning" /\ mem' = mem
        /\ \/ pc'[i] = "verifying"
           \/ pc'[i] = "recording" /\ mem[i].agent = "timeout"
    BY <1>4, <1>5 DEF ReturnAgent
  <2>2. Stand(i)'
    BY <1>0, <1>2, <2>1 DEF Stand, Blank, AtAttempt, Remembers, VerifiedLast,
       WritesCurrent, Inside, InAdapter
  <2>3. ASSUME Bound(i) PROVE Bound(i)'
    BY <1>1, <1>3, <2>1, <2>3 DEF Bound, FirstCall, Inside, InAdapter
  <2> QED
    BY <1>3, <2>2, <2>3
<1>6. CASE Verify(i)
  <2>1. /\ pc[i] = "verifying"
        /\ pc'[i] = (IF mem[i].phase = "initial" THEN "repairing" ELSE "oracle")
    BY <1>4, <1>6 DEF Verify
  <2>2. PICK status : mem' = [mem EXCEPT ![i].verification =
                                [status |-> status, seen |-> Last]]
    BY <1>6 DEF Verify
  <2>3. /\ mem'[i].phase = mem[i].phase
        /\ mem'[i].agent = mem[i].agent
        /\ mem'[i].clock = mem[i].clock
        /\ mem'[i].verification.seen = Last
    BY <1>0, <2>2 DEF TypeOK, Memory
  <2>4. Stand(i)'
    BY <1>0, <1>2, <2>1, <2>3 DEF Stand, Blank, AtAttempt, Remembers, VerifiedLast,
       WritesCurrent, Inside, InAdapter
  <2>5. ASSUME Bound(i) PROVE Bound(i)'
    BY <1>1, <1>3, <2>1, <2>3, <2>5 DEF Bound, FirstCall, Inside, InAdapter
  <2> QED
    BY <1>3, <2>4, <2>5
<1>7. CASE DecideRepair(i)
  <2>1. pc[i] = "repairing"
    BY <1>7 DEF DecideRepair
  <2>2. CASE RepairEligible(i)
    <3>1. /\ pc'[i] = "opening"
          /\ mem'[i].phase = "repair"
          /\ mem'[i].agent = mem[i].agent
          /\ mem'[i].clock = mem[i].clock
      BY <1>0, <1>4, <1>7, <2>2 DEF DecideRepair, TypeOK, Memory
    <3>2. Succeeded /\ mem[i].phase = "initial"
      BY <1>0, <2>1, <2>2 DEF RepairEligible, Stand, Remembers
    <3>3. Stand(i)'
      BY <1>2, <3>1, <3>2 DEF Stand, Blank, AtAttempt, Remembers, VerifiedLast,
         WritesCurrent, Inside, InAdapter
    <3>4. ASSUME Bound(i) PROVE Bound(i)'
      BY <1>1, <1>3, <2>1, <3>1, <3>2, <3>4 DEF Bound, FirstCall, Inside, InAdapter
    <3> QED
      BY <1>3, <3>3, <3>4
  <2>3. CASE ~RepairEligible(i)
    <3>1. pc'[i] = "oracle" /\ mem' = mem
      BY <1>4, <1>7, <2>3 DEF DecideRepair
    <3>2. Stand(i)'
      BY <1>0, <1>2, <2>1, <3>1 DEF Stand, Blank, AtAttempt, Remembers, VerifiedLast,
         WritesCurrent, Inside, InAdapter
    <3>3. ASSUME Bound(i) PROVE Bound(i)'
      BY <1>1, <1>3, <2>1, <3>1, <3>3 DEF Bound, FirstCall, Inside, InAdapter
    <3> QED
      BY <1>3, <3>2, <3>3
  <2> QED
    BY <2>2, <2>3
<1>8. CASE RunOracle(i)
  <2>1. pc[i] = "oracle" /\ pc'[i] = "recording" /\ mem' = mem
    BY <1>4, <1>8 DEF RunOracle
  <2>2. Stand(i)'
    BY <1>0, <1>2, <2>1 DEF Stand, Blank, AtAttempt, Remembers, VerifiedLast,
       WritesCurrent, Inside, InAdapter
  <2>3. ASSUME Bound(i) PROVE Bound(i)'
    BY <1>1, <1>3, <2>1, <2>3 DEF Bound, FirstCall, Inside, InAdapter
  <2> QED
    BY <1>3, <2>2, <2>3
<1> QED
  BY <1>5, <1>6, <1>7, <1>8
\* The Evidence is about the attempts as they are; what is written after it does
\* not change them.
LEMMA WriteKeeps ==
  ASSUME RecordInv, NEW i \in Invocations,
         WriteEvidence(i) \/ WriteAssessment(i) \/ WriteFinalization(i)
  PROVE  /\ Stand(i)' /\ ReviewsFit' /\ AttemptsHaveAnOwner'
         /\ Bound(i) => Bound(i)'
<1>0. TypeOK /\ Stand(i) /\ ReviewsFit /\ AttemptsHaveAnOwner
  BY DEF RecordInv, IInv
<1>1. /\ UNCHANGED <<attempts, repairs, activeMs>> /\ mem' = mem
      /\ pc[i] \in {"recording", "assessing", "finalizing"}
      /\ pc'[i] \in {"assessing", "finalizing", "rereading"}
  BY <1>0 DEF WriteEvidence, WriteAssessment, WriteFinalization, record, history,
              Goto, TypeOK
<1>2. Last' = Last /\ (Succeeded' <=> Succeeded)
  BY <1>1 DEF Succeeded, Last
<1>3. ReviewsFit' /\ AttemptsHaveAnOwner' /\ (WithinBounds => WithinBounds')
  BY <1>0, <1>1, SameRecord, SameBounds
<1>4. WritesCurrent(i)'
  <2>1. CASE WriteEvidence(i)
    <3>1. /\ evidence'.agent = mem[i].agent
          /\ evidence'.attempts = Last
          /\ evidence'.verification = mem[i].verification
          /\ pc[i] = "recording"
      BY <2>1 DEF WriteEvidence
    <3> QED
      BY <1>0, <1>2, <3>1 DEF WritesCurrent, EvidenceIsCurrent, Stand, Remembers,
                              VerifiedLast
  <2>2. CASE WriteAssessment(i)
    <3>1. evidence' = evidence /\ pc[i] = "assessing"
      BY <2>2 DEF WriteAssessment
    <3> QED
      BY <1>0, <1>2, <3>1 DEF WritesCurrent, EvidenceIsCurrent, Stand
  <2>3. CASE WriteFinalization(i)
    <3>1. pc'[i] = "rereading"
      BY <1>0, <2>3 DEF WriteFinalization, Goto, TypeOK
    <3> QED
      BY <3>1 DEF WritesCurrent
  <2> QED
    BY <2>1, <2>2, <2>3
<1>5. Stand(i)'
  BY <1>1, <1>4 DEF Stand, Blank, AtAttempt, Remembers, VerifiedLast, Inside, InAdapter
<1>6. ASSUME Bound(i) PROVE Bound(i)'
  BY <1>1, <1>3, <1>6 DEF Bound, FirstCall, Inside, InAdapter
<1> QED
  BY <1>3, <1>5, <1>6

\* Time passes for the clock of the call and for the attempt alike.
LEMMA TickKeeps ==
  ASSUME RecordInv, NEW i \in Invocations, Tick(i)
  PROVE  /\ Stand(i)' /\ ReviewsFit' /\ AttemptsHaveAnOwner'
         /\ Bound(i) => Bound(i)'
<1>0. TypeOK /\ Stand(i) /\ ReviewsFit /\ AttemptsHaveAnOwner
  BY DEF RecordInv, IInv
<1>1. /\ UNCHANGED <<attempts, repairs, evidence, pc>>
      /\ pc[i] \in {"attempting", "verifying", "returning"}
      /\ mem[i].clock < TimeoutMs
      /\ activeMs' \in {activeMs, activeMs + 1}
      /\ mem[i].clock \in 0 .. TimeoutMs
  BY <1>0, PolicyAssumption DEF Tick, files, history, Expired, TypeOK, Memory
<1>2. /\ mem'[i].clock = mem[i].clock + 1
      /\ mem'[i].phase = mem[i].phase
      /\ mem'[i].agent = mem[i].agent
      /\ mem'[i].limit = mem[i].limit
      /\ mem'[i].verification = mem[i].verification
  BY <1>0 DEF Tick, TypeOK, Memory
<1>3. ReviewsFit' /\ AttemptsHaveAnOwner'
  BY <1>0, <1>1, SameRecord
<1>4. Last' = Last /\ (Succeeded' <=> Succeeded) /\ InitialAttempts' = InitialAttempts
  BY <1>1 DEF Succeeded, Last, InitialAttempts
<1>5. Stand(i)'
  BY <1>0, <1>1, <1>2, <1>4 DEF Stand, Blank, AtAttempt, Remembers, VerifiedLast,
     WritesCurrent, Inside, InAdapter
<1>6. ASSUME Bound(i) PROVE Bound(i)'
  <2>1. activeMs <= mem[i].clock /\ activeMs \in Nat
    BY <1>0, <1>1, <1>6 DEF Bound, Inside, InAdapter, TypeOK
  <2>2. activeMs' <= mem'[i].clock /\ activeMs' <= TimeoutMs
    BY <1>1, <1>2, <2>1, PolicyAssumption
  <2>3. WithinBounds'
    BY <1>1, <1>4, <1>6, <2>2 DEF Bound, WithinBounds
  <2> QED
    BY <1>1, <1>2, <1>4, <1>6, <2>2, <2>3 DEF Bound, FirstCall, Inside, InAdapter
<1> QED
  BY <1>3, <1>5, <1>6

\* What an invocation itself does to what it knows and to its bounds.
LEMMA OwnStep ==
  ASSUME RecordInv, NEW i \in Invocations, Advance(i) \/ Tick(i) \/ Fault(i)
  PROVE  /\ Stand(i)' /\ ReviewsFit' /\ AttemptsHaveAnOwner'
         /\ Bound(i) /\ pc[i] \in Inside => Bound(i)'
<1>0. TypeOK /\ ReviewsFit /\ AttemptsHaveAnOwner
  BY DEF RecordInv, IInv
<1>l. ASSUME NEW to \in Outside, Leave(i, to), pc[i] \in Inside,
             UNCHANGED <<attempts, repairs, activeMs>>
      PROVE  /\ Stand(i)' /\ ReviewsFit' /\ AttemptsHaveAnOwner'
             /\ Bound(i) => Bound(i)'
  BY <1>0, <1>l, Left DEF Leave
<1>o. "returned" \in Outside /\ "threw" \in Outside /\ "crashed" \in Outside
  BY DEF Outside
<1>1. CASE AcquireLock(i) \/ Bootstrap(i)
  BY <1>1, EnterRun
<1>2. CASE GiveUpLock(i)
  <2>1. /\ pc[i] = "locking" /\ pc'[i] = "refused" /\ mem' = mem
        /\ UNCHANGED attempts
    BY <1>0, <1>2 DEF GiveUpLock, Goto, TypeOK, record
  <2>2. Stand(i)'
    BY <2>1 DEF RecordInv, Stand, Blank, AtAttempt, Remembers, VerifiedLast,
                WritesCurrent, Inside, InAdapter
  <2> QED
    BY <1>0, <2>1, <2>2, SameRecord DEF Inside, InAdapter
<1>3. CASE ReadFinalization(i) \/ RereadFinalization(i)
  <2>1. pc[i] \in Inside /\ UNCHANGED <<attempts, repairs, activeMs>>
    BY <1>3 DEF ReadFinalization, RereadFinalization, record, history, Inside
  <2>2. CASE ReturnFinalization(i) \/ Leave(i, "threw")
    BY <1>l, <1>o, <2>1, <2>2 DEF ReturnFinalization
  <2>3. CASE ReadFinalization(i) /\ ~Completed
    BY <2>3, EnterRun
  <2> QED
    BY <1>3, <2>2, <2>3 DEF ReadFinalization, RereadFinalization
<1>4. CASE OpenWorkspace(i)
  <2>1. pc[i] \in Inside /\ UNCHANGED <<attempts, repairs, activeMs>>
    BY <1>4 DEF OpenWorkspace, record, history, Inside
  <2>2. CASE Leave(i, "threw")
    BY <1>l, <1>o, <2>1, <2>2
  <2>3. CASE \E to \in Inside : Goto(i, to)
    BY <1>4, <2>3, EnterRun
  <2>4. "opening" \in Inside /\ "bootstrap" \in Inside
    BY DEF Inside, InAdapter
  <2> QED
    BY <1>4, <2>2, <2>3, <2>4 DEF OpenWorkspace
<1>5. CASE OpenRecord(i)
  BY <1>5, OpenRecordKeeps
<1>6. CASE ReviewOrphan(i)
  BY <1>6, ReviewOrphanKeeps
<1>7. CASE StartFirstAttempt(i) \/ ResumeContinuation(i) \/ StartRepairAttempt(i)
             \/ ContinueAttempt(i)
  BY <1>7, StartKeeps
<1>8. CASE ResumeAttempt(i) \/ ReplayTerminal(i)
  BY <1>8, ResumeKeeps
<1>9. CASE EndAttempt(i)
  BY <1>9, EndKeeps
<1>10. CASE ReviewAttempt(i)
  BY <1>10, ReviewKeeps
<1>11. CASE ReturnAgent(i) /\ Leave(i, "threw")
  <2>1. pc[i] \in Inside /\ UNCHANGED <<attempts, repairs, activeMs>>
    BY <1>11 DEF ReturnAgent, record, history, Inside, InAdapter
  <2> QED
    BY <1>l, <1>o, <1>11, <2>1
<1>12. CASE \/ ReturnAgent(i) /\ ~Leave(i, "threw")
            \/ Verify(i) \/ DecideRepair(i) \/ RunOracle(i)
  BY <1>12, AfterAgentKeeps
<1>13. CASE WriteEvidence(i) \/ WriteAssessment(i) \/ WriteFinalization(i)
  BY <1>13, WriteKeeps
<1>14. CASE Tick(i)
  BY <1>14, TickKeeps
<1>15. CASE Crash(i) \/ Throw(i)
  <2>1. /\ pc[i] \in Inside /\ UNCHANGED <<attempts, repairs, activeMs>>
        /\ Forget(i) /\ (Goto(i, "crashed") \/ Goto(i, "threw"))
    BY <1>15 DEF Crash, Throw, Leave
  <2> QED
    BY <1>0, <1>o, <2>1, Left
<1>16. CASE AdapterThrows(i)
  BY <1>16, ThrowKeeps
<1> QED
  BY <1>1, <1>2, <1>3, <1>4, <1>5, <1>6, <1>7, <1>8, <1>9, <1>10, <1>11, <1>12,
     <1>13, <1>14, <1>15, <1>16 DEF Advance, RunAdapter, Fault

\* A step of one invocation leaves the memory of the others alone; one that is
\* not inside leaves the record and the Evidence alone too.
LEMMA OthersStay ==
  ASSUME TypeOK, NEW i \in Invocations, Advance(i) \/ Tick(i) \/ Fault(i)
  PROVE  /\ \A j \in Invocations \ {i} : pc'[j] = pc[j] /\ mem'[j] = mem[j]
         /\ pc[i] \notin Inside =>
              /\ AcquireLock(i) \/ GiveUpLock(i)
              /\ UNCHANGED <<record, files, repairs, mem>>
<1> USE DEF Goto, TypeOK
<1>1. CASE AcquireLock(i) \/ GiveUpLock(i)
  BY <1>1 DEF AcquireLock, GiveUpLock, history
<1>2. CASE \/ ReadFinalization(i) \/ RereadFinalization(i) \/ OpenWorkspace(i)
           \/ Bootstrap(i)
  BY <1>2 DEF ReadFinalization, RereadFinalization, ReturnFinalization, OpenWorkspace,
              Bootstrap, Leave, Forget, Inside
<1>3. CASE \/ OpenRecord(i) \/ ReviewOrphan(i) \/ ResumeAttempt(i)
           \/ ReplayTerminal(i) \/ EndAttempt(i)
  BY <1>3 DEF OpenRecord, ReviewOrphan, ResumeAttempt, ReplayTerminal, EndAttempt,
              EndCall, Inside, InAdapter
<1>4. CASE ReviewAttempt(i)
  BY <1>4 DEF ReviewAttempt, EndCall, Inside, InAdapter
<1>5. CASE \/ StartFirstAttempt(i) \/ ResumeContinuation(i) \/ StartRepairAttempt(i)
           \/ ContinueAttempt(i)
  BY <1>5 DEF StartFirstAttempt, ResumeContinuation, StartRepairAttempt,
              ContinueAttempt, BeginAttempt, Inside, InAdapter
<1>6. CASE ReturnAgent(i) \/ Verify(i) \/ DecideRepair(i) \/ RunOracle(i)
  BY <1>6 DEF ReturnAgent, Verify, DecideRepair, RunOracle, Leave, Forget,
              Inside, InAdapter
<1>7. CASE WriteEvidence(i) \/ WriteAssessment(i) \/ WriteFinalization(i)
  BY <1>7 DEF WriteEvidence, WriteAssessment, WriteFinalization, Inside
<1>8. CASE Tick(i) \/ Crash(i) \/ Throw(i) \/ AdapterThrows(i)
  BY <1>8 DEF Tick, Crash, Throw, AdapterThrows, EndCall, Leave, Forget,
              Inside, InAdapter
<1> QED
  BY <1>1, <1>2, <1>3, <1>4, <1>5, <1>6, <1>7, <1>8 DEF Advance, RunAdapter, Fault
\* Who has begun does not wait again, and is not refused.
LEMMA StaysBusy ==
  ASSUME TypeOK, NEW i \in Invocations, Advance(i) \/ Tick(i) \/ Fault(i),
         pc'[i] \in {"locking", "refused"}
  PROVE  GiveUpLock(i)
<1> USE DEF Goto, TypeOK, Inside, InAdapter, Working
<1>1. CASE AcquireLock(i)
  BY <1>1 DEF AcquireLock
<1>2. CASE ReadFinalization(i) \/ RereadFinalization(i)
  BY <1>2 DEF ReadFinalization, RereadFinalization, ReturnFinalization, Leave
<1>3. CASE WriteEvidence(i) \/ WriteAssessment(i) \/ WriteFinalization(i)
  BY <1>3 DEF WriteEvidence, WriteAssessment, WriteFinalization
<1>4. CASE QuietStep(i)
  BY <1>4 DEF QuietStep
<1> QED
  BY <1>1, <1>2, <1>3, <1>4, StepShape

\* Once there is a finalization, nobody touches the record or the Evidence.
LEMMA FinalizedRecord ==
  ASSUME IInv, NEW i \in Invocations, Advance(i) \/ Tick(i) \/ Fault(i),
         finalization # None
  PROVE  UNCHANGED <<attempts, evidence>>
<1>1. pc[i] \notin Inside \ {"reading", "rereading"}
  BY DEF IInv, FilesInOrder
<1> USE DEF Inside, InAdapter
<1>2. CASE AcquireLock(i) \/ GiveUpLock(i)
  BY <1>2 DEF AcquireLock, GiveUpLock, record, files
<1>3. CASE ReadFinalization(i) \/ RereadFinalization(i)
  BY <1>3 DEF ReadFinalization, RereadFinalization, record, files
<1>4. CASE Crash(i) \/ Throw(i)
  BY <1>4 DEF Crash, Throw, files
<1>5. ~OpenWorkspace(i) /\ ~Bootstrap(i) /\ ~RunAdapter(i)
  BY <1>1 DEF OpenWorkspace, Bootstrap, RunAdapter, OpenRecord, ReviewOrphan,
     StartFirstAttempt, ResumeAttempt, ResumeContinuation, StartRepairAttempt,
     ReplayTerminal, EndAttempt, ReviewAttempt, ContinueAttempt, ReturnAgent
<1>6. ~Verify(i) /\ ~DecideRepair(i) /\ ~RunOracle(i) /\ ~Tick(i) /\ ~AdapterThrows(i)
  BY <1>1 DEF Verify, DecideRepair, RunOracle, Tick, AdapterThrows
<1>7. ~WriteEvidence(i) /\ ~WriteAssessment(i) /\ ~WriteFinalization(i)
  BY <1>1 DEF WriteEvidence, WriteAssessment, WriteFinalization
<1> QED
  BY <1>2, <1>3, <1>4, <1>5, <1>6, <1>7 DEF Advance, Fault

LEMMA FinalStep ==
  ASSUME RecordInv, NEW i \in Invocations, Advance(i) \/ Tick(i) \/ Fault(i)
  PROVE  FinalIsCurrent'
<1>0. IInv /\ TypeOK /\ FinalIsCurrent /\ Stand(i)
  BY DEF RecordInv, IInv
<1>a. ASSUME EvidenceIsCurrent, UNCHANGED <<attempts, evidence>>
      PROVE  EvidenceIsCurrent'
  BY <1>a DEF EvidenceIsCurrent, Succeeded, Last
<1>1. CASE finalization # None
  BY <1>0, <1>1, <1>a, FinalizedRecord DEF FinalIsCurrent
<1>2. CASE finalization = None /\ WriteFinalization(i)
  <2>1. EvidenceIsCurrent /\ UNCHANGED <<attempts, evidence>>
    BY <1>0, <1>2 DEF WriteFinalization, Stand, WritesCurrent, record
  <2> QED
    BY <2>1, <1>a DEF FinalIsCurrent
<1>3. CASE finalization = None /\ ~WriteFinalization(i)
  <2>1. finalization' = None
    BY <1>0, <1>3, StepShape DEF AcquireLock, GiveUpLock, ReadFinalization,
       RereadFinalization, WriteEvidence, WriteAssessment, QuietStep, files
  <2> QED
    BY <2>1 DEF FinalIsCurrent
<1> QED
  BY <1>1, <1>2, <1>3

\* What the others know stays true.
LEMMA OthersStand ==
  ASSUME RecordInv, NEW i \in Invocations, Advance(i) \/ Tick(i) \/ Fault(i),
         NEW j \in Invocations, j # i
  PROVE  Stand(j)'
<1>0. TypeOK /\ LockHeld /\ Stand(j)
  BY DEF RecordInv, IInv
<1>1. pc'[j] = pc[j] /\ mem'[j] = mem[j]
  BY <1>0, OthersStay
<1>2. CASE pc[i] \in Inside
  <2>1. pc[j] \notin Inside /\ mem[j] = Fresh
    BY <1>0, <1>2, LockExcludes DEF OneInvocationInside, Stand, Blank
  <2> QED
    BY <1>1, <2>1 DEF Stand, Blank, AtAttempt, Remembers, VerifiedLast, WritesCurrent,
                      Inside, InAdapter
<1>3. CASE pc[i] \notin Inside
  <2>1. UNCHANGED <<attempts, evidence>>
    BY <1>0, <1>3, OthersStay DEF record, files
  <2>2. Last' = Last /\ (Succeeded' <=> Succeeded)
          /\ (EvidenceIsCurrent' <=> EvidenceIsCurrent)
    BY <2>1 DEF Last, Succeeded, EvidenceIsCurrent
  <2>3. Blank(j)' /\ Remembers(j)'
    BY <1>0, <1>1, <2>2 DEF Stand, Blank, Remembers
  <2>4. AtAttempt(j)'
    BY <1>0, <1>1, <2>1, <2>2 DEF Stand, AtAttempt
  <2>5. VerifiedLast(j)' /\ WritesCurrent(j)'
    BY <1>0, <1>1, <2>2 DEF Stand, VerifiedLast, WritesCurrent
  <2> QED
    BY <2>3, <2>4, <2>5 DEF Stand
<1> QED
  BY <1>2, <1>3

\* The bounds: the first to work on a run finds it untouched, and nobody else
\* changes it while it is alone with it.
LEMMA StepBounds ==
  ASSUME RecordInv, NEW i \in Invocations, Advance(i) \/ Tick(i) \/ Fault(i)
  PROVE  Untouched' /\ \A k \in Invocations : Alone(k)' => Bound(k)'
<1>0. TypeOK /\ Stand(i)
  BY DEF RecordInv, IInv
<1>1. \A j \in Invocations \ {i} : pc'[j] = pc[j] /\ mem'[j] = mem[j]
  BY <1>0, OthersStay
<1>2. ASSUME Idle(i)'
      PROVE  /\ Idle(i) /\ UNCHANGED <<attempts, repairs, activeMs, mem>>
             /\ \A j \in Invocations : Idle(j)' <=> Idle(j)
  <2>1. GiveUpLock(i)
    BY <1>0, <1>2, StaysBusy DEF Idle
  <2>2. Idle(i) /\ UNCHANGED <<attempts, repairs, activeMs, mem>>
    BY <2>1 DEF GiveUpLock, record, history, Idle
  <2> QED
    BY <1>1, <1>2, <2>2 DEF Idle
<1>3. Untouched'
  <2> SUFFICES ASSUME \A j \in Invocations : Idle(j)'
               PROVE  attempts' = <<>> /\ repairs' = 0 /\ activeMs' = 0
    BY DEF Untouched
  <2> QED
    BY <1>2 DEF RecordInv, Untouched
<1>4. ASSUME Alone(i)' PROVE Bound(i)'
  <2>1. ~Idle(i)' /\ \A j \in Invocations \ {i} : Idle(j)
    BY <1>1, <1>4 DEF Alone, Idle
  <2>2. CASE pc[i] \in Inside
    <3>1. Alone(i)
      BY <2>1, <2>2 DEF Alone, Idle, Inside, InAdapter
    <3> QED
      BY <2>2, <3>1, OwnStep DEF RecordInv
  <2>3. CASE pc[i] \notin Inside
    <3>1. /\ AcquireLock(i) \/ GiveUpLock(i)
          /\ UNCHANGED <<attempts, repairs, activeMs, mem>>
      BY <1>0, <2>3, OthersStay DEF record
    <3>2. AcquireLock(i)
      <4>1. GiveUpLock(i) => Idle(i)'
        BY <1>0 DEF GiveUpLock, Goto, TypeOK, Idle
      <4> QED
        BY <2>1, <3>1, <4>1
    <3>3. Idle(i) /\ pc'[i] = "reading"
      BY <1>0, <3>2 DEF AcquireLock, Goto, TypeOK, Idle
    <3>4. attempts = <<>> /\ repairs = 0 /\ activeMs = 0
      BY <2>1, <3>3 DEF RecordInv, Untouched
    <3>5. mem'[i] = Fresh /\ Fresh.clock = 0 /\ 0 <= TimeoutMs
      BY <1>0, <2>3, <3>1, PolicyAssumption DEF Stand, Blank, Fresh
    <3>6. InitialAttempts' = {}
      BY <3>1, <3>4 DEF InitialAttempts
    <3>7. WithinBounds'
      BY <3>1, <3>4, <3>5, <3>6 DEF WithinBounds
    <3> QED
      BY <3>1, <3>3, <3>4, <3>5, <3>7 DEF Bound, FirstCall
  <2> QED
    BY <2>2, <2>3
<1>5. ASSUME NEW k \in Invocations, k # i, Alone(k)' PROVE Bound(k)'
  <2>1. Idle(i)'
    BY <1>5 DEF Alone
  <2>2. UNCHANGED <<attempts, repairs, activeMs, mem>>
    BY <1>2, <2>1
  <2>3. Alone(k)
    BY <1>2, <1>5, <2>1 DEF Alone
  <2>4. Bound(k) /\ pc'[k] = pc[k]
    BY <1>1, <1>5, <2>3 DEF RecordInv
  <2> QED
    BY <2>2, <2>4, SameBounds DEF Bound, FirstCall, Last
<1> QED
  BY <1>3, <1>4, <1>5

\* RecordInv is an inductive invariant.
LEMMA InitRecord == Init => RecordInv
<1> SUFFICES ASSUME Init PROVE RecordInv
  OBVIOUS
<1>1. /\ attempts = <<>> /\ repairs = 0 /\ activeMs = 0 /\ finalization = None
      /\ \A i \in Invocations : pc[i] = "locking" /\ mem[i] = Fresh
  BY DEF Init
<1>2. ReviewsFit /\ AttemptsHaveAnOwner
  BY <1>1 DEF ReviewsFit, AttemptsHaveAnOwner
<1>3. \A i \in Invocations : Stand(i)
  BY <1>1 DEF Stand, Blank, AtAttempt, Remembers, VerifiedLast, WritesCurrent
<1>4. \A i \in Invocations : Idle(i)
  BY <1>1 DEF Idle
<1> QED
  BY <1>1, <1>2, <1>3, <1>4, InitInv DEF RecordInv, FinalIsCurrent, Untouched, Alone

LEMMA StepRecord == RecordInv /\ [Next]_vars => RecordInv'
<1> SUFFICES ASSUME RecordInv, [Next]_vars PROVE RecordInv'
  OBVIOUS
<1>0. IInv'
  BY StepInv DEF RecordInv
<1>1. CASE UNCHANGED vars
  <2>1. UNCHANGED <<attempts, repairs, activeMs, finalization, evidence, pc, mem>>
    BY <1>1 DEF vars, record, files, history
  <2>2. Last' = Last /\ (Succeeded' <=> Succeeded)
          /\ (EvidenceIsCurrent' <=> EvidenceIsCurrent)
    BY <2>1 DEF Last, Succeeded, EvidenceIsCurrent
  <2>3. ReviewsFit' /\ AttemptsHaveAnOwner'
    BY <2>1, SameRecord DEF RecordInv
  <2>4. FinalIsCurrent' /\ Untouched'
    BY <2>1, <2>2 DEF RecordInv, FinalIsCurrent, Untouched, Idle
  <2>5. ASSUME NEW i \in Invocations PROVE Stand(i)'
    <3>1. Stand(i)
      BY DEF RecordInv
    <3> QED
      BY <2>1, <2>2, <3>1 DEF Stand, Blank, AtAttempt, Remembers, VerifiedLast,
                              WritesCurrent
  <2>6. ASSUME NEW i \in Invocations, Alone(i)' PROVE Bound(i)'
    <3>1. Bound(i)
      BY <2>1, <2>6 DEF RecordInv, Alone, Idle
    <3> QED
      BY <2>1, <2>2, <3>1, SameBounds DEF Bound, FirstCall
  <2> QED
    BY <1>0, <2>3, <2>4, <2>5, <2>6 DEF RecordInv
<1>2. ASSUME NEW i \in Invocations, Advance(i) \/ Tick(i) \/ Fault(i)
      PROVE  RecordInv'
  <2>1. Stand(i)' /\ ReviewsFit' /\ AttemptsHaveAnOwner'
    BY <1>2, OwnStep
  <2>2. \A j \in Invocations : Stand(j)'
    BY <1>2, <2>1, OthersStand
  <2>3. FinalIsCurrent'
    BY <1>2, FinalStep
  <2>4. Untouched' /\ \A k \in Invocations : Alone(k)' => Bound(k)'
    BY <1>2, StepBounds
  <2> QED
    BY <1>0, <2>1, <2>2, <2>3, <2>4 DEF RecordInv
<1> QED
  BY <1>1, <1>2 DEF Next

THEOREM RecordInvariance == Spec => []RecordInv
  BY InitRecord, StepRecord, PTL DEF Spec

\* The attempts of a run are what the controller decided, within its policy:
\* none without an owner, none after a timeout, and within the task's bounds as
\* long as one invocation is alone with the run.
THEOREM RecordIsSound == Spec => []AttemptRecordIsSound
<1>1. RecordInv => AttemptRecordIsSound
  <2> SUFFICES ASSUME RecordInv PROVE AttemptRecordIsSound
    OBVIOUS
  <2>0. TypeOK /\ AttemptsHaveAnOwner
    BY DEF RecordInv, IInv
  <2>1. TimeoutEndsTheRun
    <3> SUFFICES ASSUME NEW n \in 1 .. Len(attempts), attempts[n].ended = "timeout",
                        n # Len(attempts)
                 PROVE  FALSE
      BY DEF TimeoutEndsTheRun
    <3>1. n + 1 \in 2 .. Len(attempts) /\ (n + 1) - 1 = n
      BY <2>0 DEF TypeOK
    <3>2. attempts[n].ended \in {"iteration-limit", "finished"}
      BY <2>0, <3>1 DEF AttemptsHaveAnOwner
    <3> QED
      BY <3>2
  <2>2. UninterruptedWithinBounds
    <3> SUFFICES ASSUME \A i, j \in Invocations : ~Idle(i) /\ ~Idle(j) => i = j
                 PROVE  WithinBounds
      BY DEF UninterruptedWithinBounds, WithinBounds, Idle
    <3>1. CASE \A i \in Invocations : Idle(i)
      <4>1. attempts = <<>> /\ repairs = 0 /\ activeMs = 0
        BY <3>1 DEF RecordInv, Untouched
      <4>2. InitialAttempts = {}
        BY <4>1 DEF InitialAttempts
      <4> QED
        BY <4>1, <4>2, PolicyAssumption DEF WithinBounds
    <3>2. CASE \E i \in Invocations : ~Idle(i)
      <4>1. PICK i \in Invocations : ~Idle(i)
        BY <3>2
      <4>2. Alone(i)
        BY <4>1 DEF Alone
      <4> QED
        BY <4>2 DEF RecordInv, Bound
    <3> QED
      BY <3>1, <3>2
  <2> QED
    BY <2>0, <2>1, <2>2 DEF AttemptRecordIsSound
<1> QED
  BY <1>1, RecordInvariance, PTL

\* A finalized success is about the whole record: its last attempt finished, and
\* the public verification ran after it.
THEOREM SuccessIsLast == Spec => []SuccessIsCurrent
<1>1. RecordInv => SuccessIsCurrent
  <2> SUFFICES ASSUME RecordInv, finalization # None, evidence.agent = "finished"
               PROVE  /\ attempts # <<>>
                      /\ attempts[Last].ended = "finished"
                      /\ evidence.attempts = Last
                      /\ evidence.verification.seen = Last
    BY DEF SuccessIsCurrent
  <2>1. EvidenceIsCurrent
    BY DEF RecordInv, FinalIsCurrent
  <2> QED
    BY <2>1 DEF EvidenceIsCurrent, Succeeded, Last
<1> QED
  BY <1>1, RecordInvariance, PTL
=============================================================================
