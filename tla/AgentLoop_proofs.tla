-------------------------- MODULE AgentLoop_proofs --------------------------
(***************************************************************************)
(* Proofs about AgentLoop, for any policy, any configuration of an attempt *)
(* and any number of crashes.                                              *)
(*                                                                         *)
(* A record is known by its digest: the sets and counts a process derives  *)
(* from it.  Each event is shown to be accepted after the ones before it,  *)
(* so that every prefix of the record - all that is left of it when the    *)
(* process dies - is in order as well; and what the process remembers is   *)
(* shown to be the digest of what it has written.                          *)
(***************************************************************************)
EXTENDS AgentLoop, FiniteSetTheorems, SequenceTheorems, WellFoundedInduction, TLAPS

-----------------------------------------------------------------------------
(***************************************************************************)
(* Typing: the events of a record and what a process remembers.            *)
(***************************************************************************)
Owners == {"executor", "planner"}
Triggers == {"none", "initial-observation", "mutation-applied", "verification-feedback",
             "execution-blocked", "execution-stalled"}

Calls == [owner : Owners, iteration : Nat, ordinal : Nat]
Actions == [iteration : Nat, index : Nat, nested : 0 .. 1]

\* What the results of tool calls have in common.
Sound(r) ==
  /\ r.facts # "other" => r.kind = r.facts
  /\ r.status = "ok" /\ r.facts = "verification" => r.outcome \in {"passed", "failed"}

ToolOutcomes ==
  {r \in [kind : Kinds, status : {"ok", "error", "rejected"},
          outcome : {"none", "passed", "failed", "not-run"},
          facts : {"retrieval", "mutation", "verification", "other"}] : Sound(r)}

\* Why an attempt ends.
Reasons == {"tool-limit", "rejected-tool-limit", "iteration-limit", "timeout", "model-failed",
            "invalid-decision", "finished", "incomplete-finish", "stuck"}

StartEvents      == [type : {"attempt-started"},
                     phase : {"attempt-continuation", "public-verification-repair", "initial"}]
CallEvents       == [type : {"model-call-started"}, call : Calls]
AnswerEvents     == [type : {"model-call-completed"}, call : Calls,
                     outcome : {"succeeded", "failed", "interrupted"}]
RecoveryEvents   == [type : {"protocol-recovery"}, iteration : Nat, owner : Owners,
                     disposition : {"retrying", "exhausted"}]
EvaluationEvents == [type : {"completion-evaluated"},
                     disposition : {"accept", "terminal", "continue"}]
DispatchEvents   == [type : {"tool-dispatched"}, action : Actions, kind : Kinds]
\* A call that ran is counted, except a composition, whose nested calls are.
ResultEvents     == {e \in [type : {"tool-result"}, action : Actions, r : ToolOutcomes,
                            observed : Nat, visible : BOOLEAN, counts : BOOLEAN] :
                       e.r.status # "rejected" => (e.counts <=> e.r.kind # "composition")}
CheckpointEvents == [type : {"worktree-checkpoint"}, action : Actions, tree : Nat]
PlanEvents       == [type : {"plan-revised"}, plan : Plans, trigger : Triggers]
EndEvents        == [type : {"attempt-ended"}, reason : Reasons]

Events ==
  StartEvents \cup CallEvents \cup AnswerEvents \cup RecoveryEvents \cup EvaluationEvents
    \cup DispatchEvents \cup ResultEvents \cup CheckpointEvents \cup PlanEvents \cup EndEvents

Obligations == {"none", "verification-due", "repair-due"}

Revisions == Seq([plan : Plans, trigger : Triggers])

PlanSteps ==
  {NoStep} \cup
  [revision : Nat \ {0}, plan : Steps, attempts : Nat,
   outcome : {"none", "blocked", "progress", "evidence", "stalled"},
   checkpoint : {"none", "verification-due", "repair-due"}]

Memories ==
  [iterations : Nat, toolCalls : Nat, rejectedToolCalls : Nat, protocolRecoveries : Nat,
   completionDeferrals : Nat, consecutive : Nat, modelCalls : Nat, recoveries : Nat,
   requests : Seq(Kinds), index : Nat, result : ToolOutcomes \cup {NoResult},
   terminal : {"none", "rejected-tool-limit"}, trigger : Triggers,
   revisions : Revisions, step : PlanSteps, seen : BOOLEAN]

-----------------------------------------------------------------------------
(***************************************************************************)
(* The digest of a record s: what the runtime derives from it, and what    *)
(* decides whether an event may follow.                                    *)
(***************************************************************************)
At(s, type) == {i \in DOMAIN s : s[i].type = type}

Tools(s)     == {i \in At(s, "tool-result") : s[i].counts /\ s[i].r.status # "rejected"}
Rejects(s)   == {i \in At(s, "tool-result") : s[i].counts /\ s[i].r.status = "rejected"}
Mutated(s)   == {i \in At(s, "tool-result") : s[i].r.facts = "mutation" /\ s[i].r.status = "ok"}
Verified(s)  == {i \in At(s, "tool-result") : s[i].r.facts = "verification" /\ s[i].r.status = "ok"}
Retries(s)   == {i \in At(s, "protocol-recovery") : s[i].disposition = "retrying"}
RetriesOf(s, q) == {i \in Retries(s) : s[i].owner = q[1] /\ s[i].iteration = q[2]}
Puts(s)      == {i \in At(s, "completion-evaluated") : s[i].disposition = "continue"}
PutsSince(s) == {i \in Puts(s) : \A j \in At(s, "tool-result") : j < i}

Iterations(s) ==
  {s[i].call.iteration : i \in {j \in At(s, "model-call-started") : s[j].call.owner = "executor"}}

Plan(s)       == FoldLeft(Replayed, Fresh, s)
Obligation(s) == FoldLeft(Obliged, "none", s)

Digest(s) ==
  [size       |-> Len(s),
   sent       |-> {s[i].action : i \in At(s, "tool-dispatched")},
   done       |-> {s[i].action : i \in At(s, "tool-result")},
   saved      |-> {s[i].action : i \in At(s, "worktree-checkpoint")},
   begun      |-> {s[i].call : i \in At(s, "model-call-started")},
   answered   |-> {s[i].call : i \in At(s, "model-call-completed")},
   iterations |-> Iterations(s),
   corrected  |-> {s[i].iteration : i \in At(s, "protocol-recovery")},
   ended      |-> At(s, "attempt-ended") # {},
   starts     |-> Cardinality(At(s, "model-call-started")),
   tools      |-> Cardinality(Tools(s)),
   rejects    |-> Cardinality(Rejects(s)),
   muts       |-> Cardinality(Mutated(s)),
   retries    |-> Cardinality(Retries(s)),
   retriesOf  |-> [q \in Owners \X Nat |-> Cardinality(RetriesOf(s, q))],
   puts       |-> Cardinality(Puts(s)),
   since      |-> Cardinality(PutsSince(s)),
   revised    |-> Cardinality(At(s, "plan-revised")),
   plan       |-> Plan(s),
   obliged    |-> Obligation(s)]

DigestTyped(d) ==
  /\ d.sent \subseteq Actions /\ d.done \subseteq Actions /\ d.saved \subseteq Actions
  /\ d.begun \subseteq Calls /\ d.answered \subseteq Calls
  /\ d.iterations \subseteq Nat /\ d.corrected \subseteq Nat /\ d.ended \in BOOLEAN
  /\ d.starts \in Nat /\ d.tools \in Nat /\ d.rejects \in Nat /\ d.muts \in Nat
  /\ d.retries \in Nat /\ d.puts \in Nat /\ d.since \in Nat /\ d.revised \in Nat
  /\ d.retriesOf \in [Owners \X Nat -> Nat]
  /\ d.plan \in Memories /\ d.obliged \in Obligations

\* A set with one member more, and a number one larger, on a condition.
With(S, x, yes) == IF yes THEN S \cup {x} ELSE S
Plus(n, yes) == IF yes THEN n + 1 ELSE n

Retried(e) == e.type = "protocol-recovery" /\ e.disposition = "retrying"
PutOff(e)  == e.type = "completion-evaluated" /\ e.disposition = "continue"
Tool(e)    == e.type = "tool-result" /\ e.counts /\ e.r.status # "rejected"
Reject(e)  == e.type = "tool-result" /\ e.counts /\ e.r.status = "rejected"
Mutates(e) == e.type = "tool-result" /\ e.r.facts = "mutation" /\ e.r.status = "ok"

\* What event e makes of digest d.
Digested(d, e) ==
  [size       |-> d.size + 1,
   sent       |-> With(d.sent, e.action, e.type = "tool-dispatched"),
   done       |-> With(d.done, e.action, e.type = "tool-result"),
   saved      |-> With(d.saved, e.action, e.type = "worktree-checkpoint"),
   begun      |-> With(d.begun, e.call, e.type = "model-call-started"),
   answered   |-> With(d.answered, e.call, e.type = "model-call-completed"),
   iterations |-> With(d.iterations, e.call.iteration,
                       e.type = "model-call-started" /\ e.call.owner = "executor"),
   corrected  |-> With(d.corrected, e.iteration, e.type = "protocol-recovery"),
   ended      |-> d.ended \/ e.type = "attempt-ended",
   starts     |-> Plus(d.starts, e.type = "model-call-started"),
   tools      |-> Plus(d.tools, Tool(e)),
   rejects    |-> Plus(d.rejects, Reject(e)),
   muts       |-> Plus(d.muts, Mutates(e)),
   retries    |-> Plus(d.retries, Retried(e)),
   retriesOf  |-> [q \in Owners \X Nat |->
                     Plus(d.retriesOf[q], Retried(e) /\ e.owner = q[1] /\ e.iteration = q[2])],
   puts       |-> Plus(d.puts, PutOff(e)),
   since      |-> IF e.type = "tool-result" THEN 0 ELSE Plus(d.since, PutOff(e)),
   revised    |-> Plus(d.revised, e.type = "plan-revised"),
   plan       |-> Replayed(d.plan, e),
   obliged    |-> Obliged(d.obliged, e)]

-----------------------------------------------------------------------------
(***************************************************************************)
(* The inductive invariant.  c is the configuration of the attempt.        *)
(***************************************************************************)

\* The attempt may be continued: every dispatched call has its result.
Resolved(d) == d.sent \subseteq d.done

\* Event e may follow a record with digest d.
Accepts(c, d, e) ==
  /\ ~d.ended
  /\ e.type = "attempt-started" => d.size = 0
  /\ e.type = "model-call-started" =>
       /\ d.begun \subseteq d.answered
       /\ e.call.ordinal = d.starts + 1
       /\ e.call.owner = "executor" =>
            /\ e.call.iteration \in 1 .. c.maxIterations
            /\ 1 .. (e.call.iteration - 1) \subseteq d.iterations
  /\ e.type = "model-call-completed" => e.call \in d.begun \ d.answered
  /\ e.type = "protocol-recovery" =>
       /\ e.iteration \in d.iterations
       /\ e.disposition = "retrying" =>
            d.retriesOf[<<e.owner, e.iteration>>] < MaxProtocolRecoveries
  /\ e.type = "completion-evaluated" /\ e.disposition = "continue" =>
       d.since < MaxCompletionDeferrals
  /\ e.type = "tool-dispatched" =>
       e.action \notin d.sent /\ e.action.iteration \in d.iterations
  /\ e.type = "tool-result" =>
       /\ e.action \in d.sent \ d.done
       /\ e.counts /\ e.r.status # "rejected" => d.tools < MaxToolCalls
       /\ e.r.status = "ok" /\ e.r.facts = "verification" => e.observed = d.muts
  /\ e.type = "worktree-checkpoint" => e.action \in d.done \ d.saved
  /\ e.type = "plan-revised" => d.revised < MaxPlanRevisions
  /\ e.type = "attempt-ended" =>
       /\ Resolved(d)
       /\ e.reason = "finished" /\ c.verification => d.obliged = "none"

\* The active step is that of the last revision.
InStep(plan) ==
  IF plan.revisions = <<>> \/ Last(plan.revisions).plan = "completed" THEN plan.step = NoStep
  ELSE plan.step # NoStep /\ plan.step.revision = Len(plan.revisions)

\* What holds of the digest of every record.
Consistent(c, d) ==
  /\ DigestTyped(d)
  /\ d.answered \subseteq d.begun /\ d.done \subseteq d.sent /\ d.saved \subseteq d.done
  /\ \A x, y \in d.begun \ d.answered : x = y
  /\ \A x \in d.begun : x.ordinal \in 1 .. d.starts
  /\ \E k \in 0 .. c.maxIterations : d.iterations = 1 .. k
  /\ \A a \in d.sent : a.iteration \in d.iterations
  /\ d.corrected \subseteq d.iterations
  /\ \A q \in Owners \X Nat :
       /\ d.retriesOf[q] <= MaxProtocolRecoveries
       /\ q[2] \notin d.corrected => d.retriesOf[q] = 0
  /\ d.tools <= MaxToolCalls /\ d.muts <= d.tools
  /\ d.since <= MaxCompletionDeferrals
  /\ d.revised = Len(d.plan.revisions) /\ d.revised <= MaxPlanRevisions
  /\ InStep(d.plan)

\* Without an obligation the worktree is untouched, or as the last verification
\* found it, which passed.
Settled(s) ==
  Digest(s).obliged = "none" =>
    \/ Verified(s) = {} /\ Digest(s).muts = 0
    \/ \E i \in Verified(s) :
         /\ \A j \in Verified(s) : j <= i
         /\ s[i].r.outcome = "passed" /\ s[i].observed = Digest(s).muts

\* The first n events of record s.
Prefix(s, n) == SubSeq(s, 1, n)

\* A record every event of which was accepted.
Log(c, s) ==
  /\ \A n \in 0 .. Len(s) : Consistent(c, Digest(Prefix(s, n))) /\ Settled(Prefix(s, n))
  /\ \A n \in 1 .. Len(s) : Accepts(c, Digest(Prefix(s, n - 1)), s[n])

\* The worktree is as the record tells it, whenever the attempt may be continued.
Known(d, t) == Resolved(d) => t = d.muts

\* Record s, of which a crash keeps at least the first n events.
Kept(c, n, s, t) ==
  /\ s \in Seq(Events)
  /\ Log(c, s)
  /\ n \in 0 .. Len(s)
  /\ \A k \in n .. Len(s) : Known(Digest(Prefix(s, k)), t)

\* What the process, at w with memory mem, has of the record.
OpenCalls(w, mem) ==
  IF w = "deciding" THEN {CallId("executor", mem.iterations, mem.modelCalls)}
  ELSE IF w = "planning" THEN {CallId("planner", mem.iterations, mem.modelCalls)}
  ELSE {}

Deciding == {"deciding", "planning"}
Going == {"iterate", "deciding", "tools", "executing", "checkpointing", "settling", "planning"}

\* Counters and revisions.
Counters(w, mem, d) ==
  /\ d.iterations = 1 .. mem.iterations
  /\ d.starts = mem.modelCalls /\ d.tools = mem.toolCalls /\ d.rejects = mem.rejectedToolCalls
  /\ d.retries = mem.protocolRecoveries /\ d.puts = mem.completionDeferrals
  /\ mem.consecutive = IF w \in {"iterate", "deciding"} THEN d.since ELSE 0
  /\ mem.revisions = d.plan.revisions

\* The tool calls of this iteration: those before the present one, and that one.
ToolCallsMade(w, mem, d) ==
  LET act == [iteration |-> mem.iterations, index |-> mem.index, nested |-> 0]
      mine == {a \in d.sent : a.iteration = mem.iterations}
  IN  /\ w = "deciding" => mine = {}
      /\ w \in {"tools", "refusing"} => \A a \in mine : a.index < mem.index
      /\ w = "executing" =>
           /\ act \in d.sent /\ d.sent \ d.done = {act}
           /\ \A a \in mine : a.index < mem.index \/ a = act
           /\ mem.toolCalls < MaxToolCalls
      /\ w = "checkpointing" => act \in d.done \ d.saved
      /\ w \in {"checkpointing", "settling"} => \A a \in mine : a.index <= mem.index
      /\ w \in {"refusing", "tools", "executing", "checkpointing", "settling"} =>
           mem.index >= 1 /\ mem.iterations >= 1
      /\ w \in {"executing", "checkpointing", "settling"} => mem.requests # <<>>
      /\ w = "tools" /\ mem.requests = <<>> => mem.index > 1
      /\ w \in {"tools", "executing"} /\ mem.index > 1 => d.since = 0
      /\ w \in {"checkpointing", "settling", "planning"} => d.since = 0

\* The corrections of the decision, or of the plan, that is asked for.
Corrections(w, mem, d) ==
  /\ mem.recoveries <= MaxProtocolRecoveries
  /\ w = "deciding" => d.retriesOf[<<"executor", mem.iterations>>] = mem.recoveries
  /\ w = "planning" =>
       /\ d.retriesOf[<<"planner", mem.iterations>>] = mem.recoveries
       /\ Len(mem.revisions) < MaxPlanRevisions
  /\ w \in Going \ {"iterate", "planning"} => d.retriesOf[<<"planner", mem.iterations>>] = 0
  /\ w = "planning" => mem.iterations \in d.iterations
  /\ w \in Going \ {"iterate"} => mem.iterations >= 1

\* The plan: what is not yet remembered of a tool's result is followed later.
PlanKnown(w, c, mem, d) ==
  IF w \in {"checkpointing", "settling"}
  THEN /\ mem.result \in ToolOutcomes
       /\ d.plan.seen = (mem.seen \/ mem.result.facts = "retrieval")
       /\ c.presentation = "native" =>
            d.plan.step = Recorded(mem.step, mem.seen, mem.result)
  ELSE /\ d.plan.seen = mem.seen
       /\ c.presentation = "native" => d.plan.step = mem.step

\* What a process remembers of a decision only while it carries it out.
AtRestNow(w, mem) ==
  /\ w \in {"iterate", "deciding"} =>
       mem.requests = <<>> /\ mem.index = 0 /\ mem.trigger = "none"
  /\ w \in Going \ {"checkpointing", "settling"} =>
       mem.result = NoResult /\ mem.terminal = "none"

Lives(c, w, mem, t, d) ==
  /\ ~d.ended
  /\ w # "executing" => Resolved(d)
  /\ t = d.muts
  /\ w \in Going \cup {"refusing"} =>
       d.iterations = 1 .. mem.iterations /\ d.begun \ d.answered = OpenCalls(w, mem)
  /\ w \in Going \cup {"refusing"} => ToolCallsMade(w, mem, d)
  /\ w \in Going => Counters(w, mem, d) /\ Corrections(w, mem, d)
  /\ w \in Going => PlanKnown(w, c, mem, d) /\ AtRestNow(w, mem)

Typed ==
  /\ setup \in Setups
  /\ at \in Awaiting \cup Between \cup Gone
  /\ aborted \in BOOLEAN
  /\ m \in Memories
  /\ m.recoveries <= MaxProtocolRecoveries
  /\ m.iterations <= setup.maxIterations
  /\ m.toolCalls <= MaxToolCalls
  /\ events \in Seq(Events) /\ writing \in Seq(Events)
  /\ tree \in 0 .. MaxToolCalls
  /\ crashes \in 0 .. MaxCrashes

LoopInv ==
  /\ Typed
  /\ Kept(setup, Len(events), events \o writing, tree)
  /\ at = "start" => writing = <<>>
  /\ at \notin Gone => Lives(setup, at, m, tree, Digest(events \o writing))
-----------------------------------------------------------------------------
(***************************************************************************)
(* Folds over a record.  FoldLeft takes the largest index out of a set of  *)
(* indices; what it computes is defined, and grows with the record.        *)
(***************************************************************************)

\* A set of naturals that is not empty has a least element.
LEMMA LeastElement ==
  ASSUME NEW S \in SUBSET Nat, S # {}
  PROVE  \E x \in S : \A y \in S : x <= y
<1>1. PICK x \in S : \A y \in S : ~(<<y, x>> \in OpToRel(<, Nat))
  BY WFMin, NatLessThanWellFounded, Zenon
<1>2. \A y \in S : ~(y < x)
  BY <1>1, Zenon DEF OpToRel
<1> QED
  BY <1>2

\* The largest index of a set that holds the last one.
LEMMA LargestIndex ==
  ASSUME NEW n \in Nat \ {0}, NEW T \in SUBSET (1 .. n), n \in T
  PROVE  Max(T) = n /\ T \ {n} \in SUBSET (1 .. n - 1)
<1>1. \A x \in T : (\A y \in T : x >= y) => x = n
  OBVIOUS
<1>2. \A y \in T : n >= y
  OBVIOUS
<1>3. Max(T) \in T /\ \A y \in T : Max(T) >= y
  <2>1. \E x \in T : \A y \in T : x >= y
    BY <1>2
  <2> QED
    BY <2>1, Zenon DEF Max
<1>4. Max(T) = n
  BY <1>1, <1>3, Zenon
<1>5. T \ {n} \in SUBSET (1 .. n - 1)
  OBVIOUS
<1> QED
  BY <1>4, <1>5

\* The largest index of a set of indices is one of them.
LEMMA LargestMember ==
  ASSUME NEW n \in Nat, NEW T \in SUBSET (1 .. n), T # {}
  PROVE  Max(T) \in T
<1> DEFINE Over == {k \in 0 .. n : \A x \in T : x <= k}
<1>1. Over \in SUBSET Nat /\ n \in Over
  OBVIOUS
<1>2. PICK k \in Over : \A y \in Over : k <= y
  BY <1>1, LeastElement
<1>3. k \in T
  <2> SUFFICES ASSUME k \notin T PROVE FALSE
    OBVIOUS
  <2>1. k # 0 /\ k \in Nat
    <3>1. PICK x \in T : x \in 1 .. n
      OBVIOUS
    <3> QED
      BY <3>1, <1>2
  <2>2. \A x \in T : x <= k - 1
    BY <1>2, <2>1
  <2>3. k - 1 \in Over
    BY <2>1, <2>2, <1>2
  <2>4. k <= k - 1
    BY <2>3, <1>2, Zenon
  <2> QED
    BY <2>1, <2>4
<1>4. k \in T /\ \A y \in T : k >= y
  BY <1>2, <1>3
<1> QED
  BY <1>4, Zenon DEF Max

\* g folds the first n events of s, with F for the operator.
FoldOf(g, X, F, base, s, n) ==
  /\ g \in [SUBSET (1 .. n) -> X]
  /\ \A T \in SUBSET (1 .. n) :
       g[T] = IF T = {} THEN base ELSE F[<<g[T \ {Max(T)}], s[Max(T)]>>]

\* The function that FoldLeft iterates exists.
LEMMA FoldExists ==
  ASSUME NEW X, NEW E, NEW F \in [X \X E -> X], NEW base \in X, NEW s \in Seq(E)
  PROVE  \E g : FoldOf(g, X, F, base, s, Len(s))
<1> DEFINE IsFold(g, n) ==
             /\ g \in [SUBSET (1 .. n) -> X]
             /\ \A T \in SUBSET (1 .. n) :
                  g[T] = IF T = {} THEN base ELSE F[<<g[T \ {Max(T)}], s[Max(T)]>>]
           Without == {n \in 0 .. Len(s) : ~ \E g : IsFold(g, n)}
<1>1. SUFFICES Without = {}
  <2>1. Len(s) \in 0 .. Len(s)
    OBVIOUS
  <2>2. \E g : IsFold(g, Len(s))
    BY <1>1, <2>1, Zenon
  <2> QED
    BY <2>2, Zenon DEF FoldOf
<1>2. SUFFICES ASSUME Without # {} PROVE FALSE
  OBVIOUS
<1>3. PICK n \in Without : \A y \in Without : n <= y
  <2>1. Without \in SUBSET Nat
    OBVIOUS
  <2> QED
    BY <1>2, <2>1, LeastElement
<1>4. n \in 0 .. Len(s) /\ n \in Nat /\ ~ \E g : IsFold(g, n)
  <2>1. n \in 0 .. Len(s) /\ ~ \E g : IsFold(g, n)
    BY Zenon
  <2>2. n \in Nat
    BY <2>1
  <2> QED
    BY <2>1, <2>2, Zenon
<1>5. n # 0
  <2> DEFINE g == [T \in SUBSET (1 .. 0) |-> base]
  <2>1. 1 .. 0 = {}
    OBVIOUS
  <2>2. g \in [SUBSET (1 .. 0) -> X] /\ \A T \in SUBSET (1 .. 0) : T = {} /\ g[T] = base
    BY <2>1
  <2>3. IsFold(g, 0)
    BY <2>2
  <2> QED
    BY <2>3, <1>4
<1>6. PICK g : IsFold(g, n - 1)
  <2>1. n - 1 \in 0 .. Len(s) /\ n - 1 < n
    BY <1>4, <1>5
  <2>2. ~(n <= n - 1)
    BY <1>4
  <2>3. n - 1 \notin Without
    BY <2>2, <1>3, Zenon
  <2> QED
    BY <2>1, <2>3, Zenon
<1> DEFINE h == [T \in SUBSET (1 .. n) |->
                   IF n \in T THEN F[<<g[T \ {n}], s[n]>>] ELSE g[T]]
<1>7. n \in Nat \ {0} /\ s[n] \in E
  BY <1>4, <1>5, Len(s) \in Nat
<1>8. \A T \in SUBSET (1 .. n) : n \in T => Max(T) = n /\ T \ {n} \in SUBSET (1 .. n - 1)
  BY <1>7, LargestIndex
<1>9. \A T \in SUBSET (1 .. n) : n \notin T => T \in SUBSET (1 .. n - 1)
  BY <1>7
<1>10. \A T \in SUBSET (1 .. n - 1) : T \in SUBSET (1 .. n) /\ n \notin T /\ h[T] = g[T]
  BY <1>7
<1>11. h \in [SUBSET (1 .. n) -> X]
  <2>1. \A T \in SUBSET (1 .. n) : (IF n \in T THEN F[<<g[T \ {n}], s[n]>>] ELSE g[T]) \in X
    BY <1>6, <1>7, <1>8, <1>9
  <2> QED
    BY <2>1
<1>12. ASSUME NEW T \in SUBSET (1 .. n)
       PROVE  h[T] = IF T = {} THEN base ELSE F[<<h[T \ {Max(T)}], s[Max(T)]>>]
  <2>1. CASE n \in T
    BY <2>1, <1>8, <1>10
  <2>2. CASE n \notin T
    <3>1. T \in SUBSET (1 .. n - 1) /\ h[T] = g[T]
      BY <2>2, <1>9, <1>10
    <3>2. T \ {Max(T)} \in SUBSET (1 .. n - 1)
      BY <3>1
    <3>3. h[T \ {Max(T)}] = g[T \ {Max(T)}]
      BY <3>2, <1>10
    <3> QED
      BY <3>1, <3>3, <1>6
  <2> QED
    BY <2>1, <2>2
<1>13. IsFold(h, n)
  BY <1>11, <1>12, Zenon
<1>14. \E x : IsFold(x, n)
  BY <1>13, Zenon
<1> QED
  BY <1>14, <1>4, Zenon

\* Two folds that make the same of the same prefix agree on every prefix.
SameSteps(g, h, n) ==
  /\ g[{}] = h[{}]
  /\ \A k \in 1 .. n : g[1 .. k - 1] = h[1 .. k - 1] => g[1 .. k] = h[1 .. k]

LEMMA FoldsAgree ==
  ASSUME NEW g, NEW h, NEW n \in Nat, SameSteps(g, h, n)
  PROVE  g[1 .. n] = h[1 .. n]
<1> DEFINE Apart == {k \in 0 .. n : g[1 .. k] # h[1 .. k]}
<1>1. SUFFICES Apart = {}
  BY <1>1
<1>2. SUFFICES ASSUME Apart # {} PROVE FALSE
  OBVIOUS
<1>3. PICK k \in Apart : \A y \in Apart : k <= y
  <2>1. Apart \in SUBSET Nat
    OBVIOUS
  <2> QED
    BY <1>2, <2>1, LeastElement
<1>4. k # 0
  <2>1. 1 .. 0 = {}
    OBVIOUS
  <2> QED
    BY <2>1 DEF SameSteps
<1>5. k \in 1 .. n /\ k - 1 \in 0 .. n /\ k - 1 \notin Apart
  BY <1>3, <1>4
<1>6. g[1 .. k - 1] = h[1 .. k - 1]
  BY <1>5
<1> QED
  BY <1>5, <1>6 DEF SameSteps

\* The parts of the events, by their types.
LEMMA EventParts ==
  ASSUME NEW e \in Events
  PROVE  /\ e.type \in {"attempt-started", "model-call-started", "model-call-completed",
                        "protocol-recovery", "completion-evaluated", "tool-dispatched",
                        "tool-result", "worktree-checkpoint", "plan-revised", "attempt-ended"}
         /\ e.type = "model-call-started" => e.call \in Calls
         /\ e.type = "model-call-completed" => e.call \in Calls
         /\ e.type = "protocol-recovery" => e.iteration \in Nat /\ e.owner \in Owners
         /\ e.type = "tool-dispatched" => e.action \in Actions
         /\ e.type = "tool-result" =>
              /\ e.action \in Actions /\ e.r \in ToolOutcomes /\ e.counts \in BOOLEAN
              /\ e.observed \in Nat
              /\ e.r.status # "rejected" => (e.counts <=> e.r.kind # "composition")
         /\ e.type = "worktree-checkpoint" => e.action \in Actions
         /\ e.type = "plan-revised" => e.plan \in Plans /\ e.trigger \in Triggers
  BY DEF Events, StartEvents, CallEvents, AnswerEvents, RecoveryEvents, EvaluationEvents,
         DispatchEvents, ResultEvents, CheckpointEvents, PlanEvents, EndEvents

\* What an event makes of the obligation is an obligation.
LEMMA ObligedType ==
  ASSUME NEW x \in Obligations, NEW e \in Events
  PROVE  Obliged(x, e) \in Obligations
  BY EventParts DEF Obliged, Obligations

\* A process that starts has a memory.
LEMMA FreshType == Fresh \in Memories /\ Fresh.requests = <<>>
  BY DEF Fresh, Memories, NoResult, Result, PlanSteps, Revisions, Triggers, Kinds

\* What is made of a step is a step.
LEMMA RecordedType ==
  ASSUME NEW step \in PlanSteps, NEW seen \in BOOLEAN, NEW r \in ToolOutcomes
  PROVE  /\ Recorded(step, seen, r) \in PlanSteps
         /\ step = NoStep => Recorded(step, seen, r) = NoStep
         /\ step # NoStep => /\ Recorded(step, seen, r) # NoStep
                             /\ Recorded(step, seen, r).revision = step.revision
<1>1. CASE step = NoStep
  BY <1>1 DEF Recorded, PlanSteps
<1>2. CASE step # NoStep
  <2> DEFINE o == StepOutcome(step, seen, r)
             k == StepCheckpoint(step, r)
             x == [step EXCEPT !.attempts = @ + 1, !.outcome = o, !.checkpoint = k]
  <2>1. step \in [revision : Nat \ {0}, plan : Steps, attempts : Nat,
                  outcome : {"none", "blocked", "progress", "evidence", "stalled"},
                  checkpoint : {"none", "verification-due", "repair-due"}]
    BY <1>2 DEF PlanSteps
  <2>2. o \in {"none", "blocked", "progress", "evidence", "stalled"}
    BY DEF StepOutcome, ToolOutcomes
  <2>3. k \in {"none", "verification-due", "repair-due"}
    BY <2>1 DEF StepCheckpoint, ToolOutcomes, Sound
  <2>4. Recorded(step, seen, r) = x
    BY <1>2 DEF Recorded
  <2> HIDE DEF o, k
  <2>5. x \in [revision : Nat \ {0}, plan : Steps, attempts : Nat,
                outcome : {"none", "blocked", "progress", "evidence", "stalled"},
                checkpoint : {"none", "verification-due", "repair-due"}]
        /\ x.revision = step.revision
    <3>1. step.attempts + 1 \in Nat
      BY <2>1
    <3> DEFINE n == step.attempts + 1
    <3>2. n \in Nat /\ x = [step EXCEPT !.attempts = n, !.outcome = o, !.checkpoint = k]
      BY <3>1
    <3> HIDE DEF n, x
    <3> QED
      BY <2>1, <2>2, <2>3, <3>2
  <2>6. x.revision # NoStep.revision
    BY <2>5 DEF NoStep
  <2> QED
    BY <2>4, <2>5, <2>6, <1>2 DEF PlanSteps
<1> QED
  BY <1>1, <1>2

\* The active step of a plan is a step.
LEMMA SynchronizedType ==
  ASSUME NEW step \in PlanSteps, NEW revisions \in Revisions
  PROVE  /\ Synchronized(step, revisions) \in PlanSteps
         /\ InStep([revisions |-> revisions, step |-> Synchronized(step, revisions)])
<1>1. CASE revisions = <<>> \/ Last(revisions).plan = "completed"
  BY <1>1 DEF Synchronized, PlanSteps, InStep
<1>2. CASE ~(revisions = <<>> \/ Last(revisions).plan = "completed")
  <2>1. Len(revisions) \in Nat \ {0} /\ Last(revisions).plan \in Steps
    <3>1. Len(revisions) \in Nat \ {0} /\ revisions[Len(revisions)] \in [plan : Plans, trigger : Triggers]
      <4>1. revisions \in Seq([plan : Plans, trigger : Triggers]) /\ revisions # <<>>
        BY <1>2 DEF Revisions
      <4> DEFINE S == [plan : Plans, trigger : Triggers]
      <4>2. revisions \in Seq(S) /\ revisions # <<>>
        BY <4>1
      <4> HIDE DEF S
      <4>3. Len(revisions) \in Nat \ {0} /\ revisions[Len(revisions)] \in S
        BY <4>2
      <4> QED
        BY <4>3 DEF S
    <3> QED
      BY <3>1, <1>2 DEF Last, Plans
  <2> DEFINE keep == IF step # NoStep /\ step.plan = Last(revisions).plan
                     THEN step.checkpoint ELSE "none"
             x == [revision |-> Len(revisions), plan |-> Last(revisions).plan,
                   attempts |-> 0, outcome |-> "none", checkpoint |-> keep]
  <2>2. keep \in {"none", "verification-due", "repair-due"}
    BY DEF PlanSteps
  <2>3. Synchronized(step, revisions) = IF step.revision = Len(revisions) THEN step ELSE x
    BY <1>2, Zenon DEF Synchronized
  <2>4. step.revision = Len(revisions) => step # NoStep
    BY <2>1 DEF NoStep
  <2> HIDE DEF keep
  <2>5. x \in PlanSteps /\ x.revision = Len(revisions)
    BY <2>1, <2>2 DEF PlanSteps
  <2>6. x # NoStep
    BY <2>1, <2>5 DEF NoStep
  <2> HIDE DEF x
  <2> QED
    BY <1>2, <2>3, <2>4, <2>5, <2>6 DEF InStep
<1> QED
  BY <1>1, <1>2

\* Replaying an event keeps a memory a memory.
LEMMA ReplayedType ==
  ASSUME NEW p \in Memories, NEW e \in Events
  PROVE  Replayed(p, e) \in Memories
<1>1. CASE e.type = "plan-revised"
  <2> DEFINE revisions == Append(p.revisions, [plan |-> e.plan, trigger |-> e.trigger])
  <2>1. revisions \in Revisions
    BY <1>1, EventParts DEF Memories, Revisions
  <2>2. Synchronized(p.step, revisions) \in PlanSteps
    BY <2>1, SynchronizedType DEF Memories
  <2>3. Replayed(p, e) = [p EXCEPT !.revisions = revisions,
                                   !.step = Synchronized(p.step, revisions)]
    BY <1>1 DEF Replayed
  <2> HIDE DEF revisions
  <2> QED
    BY <2>1, <2>2, <2>3 DEF Memories
<1>2. CASE e.type = "tool-result"
  <2>1. Recorded(p.step, p.seen, e.r) \in PlanSteps
    BY <1>2, EventParts, RecordedType DEF Memories
  <2>2. Replayed(p, e) = [p EXCEPT !.step = Recorded(p.step, p.seen, e.r),
                                   !.seen = p.seen \/ e.r.facts = "retrieval"]
    BY <1>2 DEF Replayed
  <2> QED
    BY <2>1, <2>2 DEF Memories
<1>3. CASE e.type \notin {"plan-revised", "tool-result"}
  BY <1>3 DEF Replayed
<1> QED
  BY <1>1, <1>2, <1>3

\* Obligation is the value of a fold of the record.
LEMMA ObligationIsFold ==
  ASSUME NEW s \in Seq(Events)
  PROVE  \E g \in [SUBSET (1 .. Len(s)) -> Obligations] :
           /\ Obligation(s) = g[1 .. Len(s)]
           /\ \A T \in SUBSET (1 .. Len(s)) :
                g[T] = IF T = {} THEN "none" ELSE Obliged(g[T \ {Max(T)}], s[Max(T)])
<1> DEFINE n == Len(s)
           F == [p \in Obligations \X Events |-> Obliged(p[1], p[2])]
<1>1. n \in Nat /\ DOMAIN s = 1 .. n /\ \A i \in 1 .. n : s[i] \in Events
  OBVIOUS
<1>2. F \in [Obligations \X Events -> Obligations] /\ "none" \in Obligations
  BY ObligedType DEF Obligations
<1> HIDE DEF F
<1>3. PICK f \in [SUBSET (1 .. n) -> Obligations] :
        \A T \in SUBSET (1 .. n) :
          f[T] = IF T = {} THEN "none" ELSE F[<<f[T \ {Max(T)}], s[Max(T)]>>]
  <2>1. "none" \in Obligations
    BY <1>2
  <2>2. F \in [Obligations \X Events -> Obligations]
    BY <1>2
  <2>3. \E f : FoldOf(f, Obligations, F, "none", s, Len(s))
    BY <2>1, <2>2, FoldExists, Zenon
  <2> QED
    BY <2>3, Zenon DEF FoldOf
<1>4. \A T \in SUBSET (1 .. n) : T # {} => Max(T) \in T
  BY <1>1, LargestMember
<1>5. \A T \in SUBSET (1 .. n) :
        f[T] = IF T = {} THEN "none" ELSE Obliged(f[T \ {Max(T)}], s[Max(T)])
  BY <1>1, <1>3, <1>4 DEF F
<1> DEFINE G == CHOOSE g : g = [T \in SUBSET DOMAIN s |->
                  IF T = {} THEN "none" ELSE Obliged(g[T \ {Max(T)}], s[Max(T)])]
<1>6. Obligation(s) = G[DOMAIN s]
  BY Zenon DEF Obligation, FoldLeft, MapThenFoldSet
<1>7. f = [T \in SUBSET DOMAIN s |->
             IF T = {} THEN "none" ELSE Obliged(f[T \ {Max(T)}], s[Max(T)])]
  BY <1>1, <1>5
<1>8. G = [T \in SUBSET DOMAIN s |->
             IF T = {} THEN "none" ELSE Obliged(G[T \ {Max(T)}], s[Max(T)])]
  BY <1>7, Zenon
<1> HIDE DEF G
<1>9. f[{}] = G[{}]
  BY <1>5, <1>8
<1>10. ASSUME NEW k \in 1 .. n, f[1 .. k - 1] = G[1 .. k - 1]
       PROVE  f[1 .. k] = G[1 .. k]
  <2>1. Max(1 .. k) = k /\ (1 .. k) \ {k} = 1 .. k - 1 /\ 1 .. k # {}
        /\ 1 .. k \in SUBSET (1 .. n)
    <3>1. 1 .. k \in SUBSET (1 .. k) /\ k \in 1 .. k /\ k \in Nat \ {0}
      OBVIOUS
    <3>2. Max(1 .. k) = k
      BY <3>1, LargestIndex
    <3> QED
      BY <3>2
  <2>2. f[1 .. k] = Obliged(f[1 .. k - 1], s[k])
    BY <2>1, <1>5
  <2>3. G[1 .. k] = Obliged(G[1 .. k - 1], s[k])
    BY <2>1, <1>1, <1>8
  <2> QED
    BY <2>2, <2>3, <1>10
<1>11. f[1 .. n] = G[1 .. n]
  <2>1. SameSteps(f, G, n)
    BY <1>9, <1>10 DEF SameSteps
  <2> QED
    BY <2>1, <1>1, FoldsAgree, Zenon
<1> QED
  BY <1>1, <1>5, <1>6, <1>11

\* One event more.
LEMMA ObligationAppend ==
  ASSUME NEW s \in Seq(Events), NEW e \in Events
  PROVE  Obligation(Append(s, e)) = Obliged(Obligation(s), e) /\ Obligation(s) \in Obligations
<1> DEFINE t == Append(s, e)
           n == Len(s)
<1>1. n \in Nat /\ t \in Seq(Events) /\ Len(t) = n + 1 /\ t[n + 1] = e
      /\ \A i \in 1 .. n : t[i] = s[i]
  OBVIOUS
<1>2. PICK g \in [SUBSET (1 .. n) -> Obligations] :
        /\ Obligation(s) = g[1 .. n]
        /\ \A T \in SUBSET (1 .. n) :
             g[T] = IF T = {} THEN "none" ELSE Obliged(g[T \ {Max(T)}], s[Max(T)])
  BY ObligationIsFold
<1>3. PICK h \in [SUBSET (1 .. n + 1) -> Obligations] :
        /\ Obligation(t) = h[1 .. n + 1]
        /\ \A T \in SUBSET (1 .. n + 1) :
             h[T] = IF T = {} THEN "none" ELSE Obliged(h[T \ {Max(T)}], t[Max(T)])
  <2>1. \E h \in [SUBSET (1 .. Len(t)) -> Obligations] :
          /\ Obligation(t) = h[1 .. Len(t)]
          /\ \A T \in SUBSET (1 .. Len(t)) :
               h[T] = IF T = {} THEN "none" ELSE Obliged(h[T \ {Max(T)}], t[Max(T)])
    BY <1>1, ObligationIsFold, Zenon
  <2> QED
    BY <1>1, <2>1, Zenon
<1>4. \A k \in 1 .. n + 1 :
        Max(1 .. k) = k /\ (1 .. k) \ {k} = 1 .. k - 1 /\ 1 .. k # {}
        /\ 1 .. k \in SUBSET (1 .. n + 1)
  <2> SUFFICES ASSUME NEW k \in 1 .. n + 1
               PROVE  Max(1 .. k) = k /\ (1 .. k) \ {k} = 1 .. k - 1 /\ 1 .. k # {}
                      /\ 1 .. k \in SUBSET (1 .. n + 1)
    OBVIOUS
  <2>1. 1 .. k \in SUBSET (1 .. k) /\ k \in 1 .. k /\ k \in Nat \ {0}
    BY <1>1
  <2>2. Max(1 .. k) = k
    BY <2>1, LargestIndex
  <2> QED
    BY <1>1, <2>2
<1>5. g[{}] = h[{}]
  BY <1>2, <1>3
<1>6. ASSUME NEW k \in 1 .. n, g[1 .. k - 1] = h[1 .. k - 1]
      PROVE  g[1 .. k] = h[1 .. k]
  <2>1. k \in 1 .. n + 1 /\ 1 .. k \in SUBSET (1 .. n) /\ t[k] = s[k]
    BY <1>1
  <2>2. g[1 .. k] = Obliged(g[1 .. k - 1], s[k])
    BY <2>1, <1>2, <1>4
  <2>3. h[1 .. k] = Obliged(h[1 .. k - 1], t[k])
    BY <2>1, <1>3, <1>4
  <2> QED
    BY <2>1, <2>2, <2>3, <1>6
<1>7. g[1 .. n] = h[1 .. n]
  <2>1. n \in Nat
    BY <1>1
  <2>2. SameSteps(g, h, n)
    BY <1>5, <1>6 DEF SameSteps
  <2> HIDE DEF n, t
  <2> QED
    BY <2>1, <2>2, FoldsAgree, Zenon
<1>8. h[1 .. n + 1] = Obliged(h[1 .. n], e)
  <2>1. n + 1 \in 1 .. n + 1 /\ (n + 1) - 1 = n
    BY <1>1
  <2> QED
    BY <2>1, <1>1, <1>3, <1>4
<1> QED
  BY <1>1, <1>2, <1>3, <1>7, <1>8

\* Of no events.
LEMMA ObligationEmpty == Obligation(<<>>) = "none"
<1>1. <<>> \in Seq(Events) /\ Len(<<>>) = 0 /\ 1 .. 0 = {}
  OBVIOUS
<1> QED
  BY <1>1, ObligationIsFold

\* Plan is the value of a fold of the record.
LEMMA PlanIsFold ==
  ASSUME NEW s \in Seq(Events)
  PROVE  \E g \in [SUBSET (1 .. Len(s)) -> Memories] :
           /\ Plan(s) = g[1 .. Len(s)]
           /\ \A T \in SUBSET (1 .. Len(s)) :
                g[T] = IF T = {} THEN Fresh ELSE Replayed(g[T \ {Max(T)}], s[Max(T)])
<1> DEFINE n == Len(s)
           F == [p \in Memories \X Events |-> Replayed(p[1], p[2])]
<1>1. n \in Nat /\ DOMAIN s = 1 .. n /\ \A i \in 1 .. n : s[i] \in Events
  OBVIOUS
<1>2. F \in [Memories \X Events -> Memories] /\ Fresh \in Memories
  BY ReplayedType, FreshType
<1> HIDE DEF F
<1>3. PICK f \in [SUBSET (1 .. n) -> Memories] :
        \A T \in SUBSET (1 .. n) :
          f[T] = IF T = {} THEN Fresh ELSE F[<<f[T \ {Max(T)}], s[Max(T)]>>]
  <2>1. Fresh \in Memories
    BY <1>2
  <2>2. F \in [Memories \X Events -> Memories]
    BY <1>2
  <2>3. \E f : FoldOf(f, Memories, F, Fresh, s, Len(s))
    BY <2>1, <2>2, FoldExists, Zenon
  <2> QED
    BY <2>3, Zenon DEF FoldOf
<1>4. \A T \in SUBSET (1 .. n) : T # {} => Max(T) \in T
  BY <1>1, LargestMember
<1>5. \A T \in SUBSET (1 .. n) :
        f[T] = IF T = {} THEN Fresh ELSE Replayed(f[T \ {Max(T)}], s[Max(T)])
  BY <1>1, <1>3, <1>4 DEF F
<1> DEFINE G == CHOOSE g : g = [T \in SUBSET DOMAIN s |->
                  IF T = {} THEN Fresh ELSE Replayed(g[T \ {Max(T)}], s[Max(T)])]
<1>6. Plan(s) = G[DOMAIN s]
  BY Zenon DEF Plan, FoldLeft, MapThenFoldSet
<1>7. f = [T \in SUBSET DOMAIN s |->
             IF T = {} THEN Fresh ELSE Replayed(f[T \ {Max(T)}], s[Max(T)])]
  BY <1>1, <1>5
<1>8. G = [T \in SUBSET DOMAIN s |->
             IF T = {} THEN Fresh ELSE Replayed(G[T \ {Max(T)}], s[Max(T)])]
  BY <1>7, Zenon
<1> HIDE DEF G
<1>9. f[{}] = G[{}]
  BY <1>5, <1>8
<1>10. ASSUME NEW k \in 1 .. n, f[1 .. k - 1] = G[1 .. k - 1]
       PROVE  f[1 .. k] = G[1 .. k]
  <2>1. Max(1 .. k) = k /\ (1 .. k) \ {k} = 1 .. k - 1 /\ 1 .. k # {}
        /\ 1 .. k \in SUBSET (1 .. n)
    <3>1. 1 .. k \in SUBSET (1 .. k) /\ k \in 1 .. k /\ k \in Nat \ {0}
      OBVIOUS
    <3>2. Max(1 .. k) = k
      BY <3>1, LargestIndex
    <3> QED
      BY <3>2
  <2>2. f[1 .. k] = Replayed(f[1 .. k - 1], s[k])
    BY <2>1, <1>5
  <2>3. G[1 .. k] = Replayed(G[1 .. k - 1], s[k])
    BY <2>1, <1>1, <1>8
  <2> QED
    BY <2>2, <2>3, <1>10
<1>11. f[1 .. n] = G[1 .. n]
  <2>1. SameSteps(f, G, n)
    BY <1>9, <1>10 DEF SameSteps
  <2> QED
    BY <2>1, <1>1, FoldsAgree, Zenon
<1> QED
  BY <1>1, <1>5, <1>6, <1>11

\* One event more.
LEMMA PlanAppend ==
  ASSUME NEW s \in Seq(Events), NEW e \in Events
  PROVE  Plan(Append(s, e)) = Replayed(Plan(s), e) /\ Plan(s) \in Memories
<1> DEFINE t == Append(s, e)
           n == Len(s)
<1>1. n \in Nat /\ t \in Seq(Events) /\ Len(t) = n + 1 /\ t[n + 1] = e
      /\ \A i \in 1 .. n : t[i] = s[i]
  OBVIOUS
<1>2. PICK g \in [SUBSET (1 .. n) -> Memories] :
        /\ Plan(s) = g[1 .. n]
        /\ \A T \in SUBSET (1 .. n) :
             g[T] = IF T = {} THEN Fresh ELSE Replayed(g[T \ {Max(T)}], s[Max(T)])
  BY PlanIsFold
<1>3. PICK h \in [SUBSET (1 .. n + 1) -> Memories] :
        /\ Plan(t) = h[1 .. n + 1]
        /\ \A T \in SUBSET (1 .. n + 1) :
             h[T] = IF T = {} THEN Fresh ELSE Replayed(h[T \ {Max(T)}], t[Max(T)])
  <2>1. \E h \in [SUBSET (1 .. Len(t)) -> Memories] :
          /\ Plan(t) = h[1 .. Len(t)]
          /\ \A T \in SUBSET (1 .. Len(t)) :
               h[T] = IF T = {} THEN Fresh ELSE Replayed(h[T \ {Max(T)}], t[Max(T)])
    BY <1>1, PlanIsFold, Zenon
  <2> QED
    BY <1>1, <2>1, Zenon
<1>4. \A k \in 1 .. n + 1 :
        Max(1 .. k) = k /\ (1 .. k) \ {k} = 1 .. k - 1 /\ 1 .. k # {}
        /\ 1 .. k \in SUBSET (1 .. n + 1)
  <2> SUFFICES ASSUME NEW k \in 1 .. n + 1
               PROVE  Max(1 .. k) = k /\ (1 .. k) \ {k} = 1 .. k - 1 /\ 1 .. k # {}
                      /\ 1 .. k \in SUBSET (1 .. n + 1)
    OBVIOUS
  <2>1. 1 .. k \in SUBSET (1 .. k) /\ k \in 1 .. k /\ k \in Nat \ {0}
    BY <1>1
  <2>2. Max(1 .. k) = k
    BY <2>1, LargestIndex
  <2> QED
    BY <1>1, <2>2
<1>5. g[{}] = h[{}]
  BY <1>2, <1>3
<1>6. ASSUME NEW k \in 1 .. n, g[1 .. k - 1] = h[1 .. k - 1]
      PROVE  g[1 .. k] = h[1 .. k]
  <2>1. k \in 1 .. n + 1 /\ 1 .. k \in SUBSET (1 .. n) /\ t[k] = s[k]
    BY <1>1
  <2>2. g[1 .. k] = Replayed(g[1 .. k - 1], s[k])
    BY <2>1, <1>2, <1>4
  <2>3. h[1 .. k] = Replayed(h[1 .. k - 1], t[k])
    BY <2>1, <1>3, <1>4
  <2> QED
    BY <2>1, <2>2, <2>3, <1>6
<1>7. g[1 .. n] = h[1 .. n]
  <2>1. n \in Nat
    BY <1>1
  <2>2. SameSteps(g, h, n)
    BY <1>5, <1>6 DEF SameSteps
  <2> HIDE DEF n, t
  <2> QED
    BY <2>1, <2>2, FoldsAgree, Zenon
<1>8. h[1 .. n + 1] = Replayed(h[1 .. n], e)
  <2>1. n + 1 \in 1 .. n + 1 /\ (n + 1) - 1 = n
    BY <1>1
  <2> QED
    BY <2>1, <1>1, <1>3, <1>4
<1> QED
  BY <1>1, <1>2, <1>3, <1>7, <1>8

\* Of no events.
LEMMA PlanEmpty == Plan(<<>>) = Fresh
<1>1. <<>> \in Seq(Events) /\ Len(<<>>) = 0 /\ 1 .. 0 = {}
  OBVIOUS
<1> QED
  BY <1>1, PlanIsFold
-----------------------------------------------------------------------------
(***************************************************************************)
(* The digest of a record with one event more.                             *)
(***************************************************************************)
LEMMA AppendParts ==
  ASSUME NEW s \in Seq(Events), NEW e \in Events
  PROVE  /\ Append(s, e) \in Seq(Events)
         /\ Len(s) \in Nat /\ Len(Append(s, e)) = Len(s) + 1
         /\ DOMAIN s = 1 .. Len(s) /\ DOMAIN Append(s, e) = 1 .. Len(s) + 1
         /\ \A i \in 1 .. Len(s) : Append(s, e)[i] = s[i] /\ s[i] \in Events
         /\ Append(s, e)[Len(s) + 1] = e
  OBVIOUS

\* A set of indices is finite and grows by the next one.
LEMMA CountOneMore ==
  ASSUME NEW n \in Nat, NEW A \in SUBSET (1 .. n), NEW yes \in BOOLEAN
  PROVE  /\ IsFiniteSet(A) /\ Cardinality(A) \in Nat
         /\ Cardinality(With(A, n + 1, yes)) = Plus(Cardinality(A), yes)
<1>1. IsFiniteSet(1 .. n)
  BY FS_Interval
<1>2. IsFiniteSet(A) /\ Cardinality(A) \in Nat
  BY <1>1, FS_Subset, FS_CardinalityType
<1>3. n + 1 \notin A
  OBVIOUS
<1>4. Cardinality(A \cup {n + 1}) = Cardinality(A) + 1
  BY <1>2, <1>3, FS_AddElement
<1> QED
  BY <1>2, <1>4 DEF With, Plus

\* The indices of a type.
LEMMA AtAppend ==
  ASSUME NEW s \in Seq(Events), NEW e \in Events, NEW type
  PROVE  /\ At(s, type) \in SUBSET (1 .. Len(s))
         /\ At(Append(s, e), type) = With(At(s, type), Len(s) + 1, e.type = type)
  BY AppendParts DEF At, With

\* The sets of indices that are counted.
LEMMA CountedAppend ==
  ASSUME NEW s \in Seq(Events), NEW e \in Events
  PROVE  LET t == Append(s, e)
             n == Len(s) + 1
         IN  /\ Tools(t) = With(Tools(s), n, Tool(e))
             /\ Rejects(t) = With(Rejects(s), n, Reject(e))
             /\ Mutated(t) = With(Mutated(s), n, Mutates(e))
             /\ Retries(t) = With(Retries(s), n, Retried(e))
             /\ Puts(t) = With(Puts(s), n, PutOff(e))
<1> DEFINE t == Append(s, e)
           n == Len(s) + 1
<1>1. \A i \in 1 .. Len(s) : t[i] = s[i]
  BY AppendParts
<1>2. t[n] = e /\ n \notin 1 .. Len(s)
  BY AppendParts
<1>3. \A type : At(s, type) \in SUBSET (1 .. Len(s))
                /\ At(t, type) = With(At(s, type), n, e.type = type)
  BY AtAppend
<1> HIDE DEF t, n
<1>4. Tools(t) = With(Tools(s), n, Tool(e))
  BY <1>1, <1>2, <1>3 DEF Tools, With, Tool
<1>5. Rejects(t) = With(Rejects(s), n, Reject(e))
  BY <1>1, <1>2, <1>3 DEF Rejects, With, Reject
<1>6. Mutated(t) = With(Mutated(s), n, Mutates(e))
  BY <1>1, <1>2, <1>3 DEF Mutated, With, Mutates
<1>7. Retries(t) = With(Retries(s), n, Retried(e))
  BY <1>1, <1>2, <1>3 DEF Retries, With, Retried
<1>8. Puts(t) = With(Puts(s), n, PutOff(e))
  BY <1>1, <1>2, <1>3 DEF Puts, With, PutOff
<1> QED
  BY <1>4, <1>5, <1>6, <1>7, <1>8 DEF t, n

\* The corrections of one decision.
LEMMA RetriesOfAppend ==
  ASSUME NEW s \in Seq(Events), NEW e \in Events, NEW q
  PROVE  RetriesOf(Append(s, e), q) =
           With(RetriesOf(s, q), Len(s) + 1,
                Retried(e) /\ e.owner = q[1] /\ e.iteration = q[2])
<1> DEFINE t == Append(s, e)
           n == Len(s) + 1
<1>1. \A i \in 1 .. Len(s) : t[i] = s[i]
  BY AppendParts
<1>2. t[n] = e /\ n \notin 1 .. Len(s)
  BY AppendParts
<1>3. Retries(t) = With(Retries(s), n, Retried(e)) /\ Retries(s) \subseteq 1 .. Len(s)
  BY CountedAppend, AtAppend DEF Retries
<1> HIDE DEF t, n
<1>4. RetriesOf(t, q) = With(RetriesOf(s, q), n,
                             Retried(e) /\ e.owner = q[1] /\ e.iteration = q[2])
  BY <1>1, <1>2, <1>3 DEF RetriesOf, With
<1> QED
  BY <1>4 DEF t, n

\* The finishes put off since the last tool result.
LEMMA PutsSinceAppend ==
  ASSUME NEW s \in Seq(Events), NEW e \in Events
  PROVE  PutsSince(Append(s, e)) =
           IF e.type = "tool-result" THEN {} ELSE With(PutsSince(s), Len(s) + 1, PutOff(e))
<1> DEFINE t == Append(s, e)
           n == Len(s) + 1
<1>1. Puts(t) = With(Puts(s), n, PutOff(e)) /\ Puts(s) \subseteq 1 .. Len(s)
  BY CountedAppend, AtAppend DEF Puts
<1>2. At(t, "tool-result") = With(At(s, "tool-result"), n, e.type = "tool-result")
      /\ At(s, "tool-result") \in SUBSET (1 .. Len(s))
  BY AtAppend
<1>3. Len(s) \in Nat
  BY AppendParts
<1>4. \A j \in 1 .. Len(s) : j < n /\ ~(n < j)
  BY <1>3
<1>5. ~(n < n)
  BY <1>3
<1> HIDE DEF t, n
<1>6. CASE e.type = "tool-result"
  <2>1. ~PutOff(e) /\ n \in At(t, "tool-result")
    BY <1>2, <1>6 DEF PutOff, With
  <2>2. \A i \in Puts(t) : ~(n < i)
    BY <1>1, <1>4, <2>1 DEF With
  <2>3. \A i \in Puts(t) : i \in Nat /\ n \in Nat
    BY <1>1, <1>3, <2>1 DEF With, n
  <2>4. PutsSince(t) = {}
    <3> SUFFICES ASSUME NEW i \in PutsSince(t) PROVE FALSE
      OBVIOUS
    <3>1. i \in Puts(t) /\ n < i
      BY <2>1 DEF PutsSince
    <3> QED
      BY <3>1, <2>2
  <2> QED
    BY <2>4, <1>6 DEF t
<1>7. CASE e.type # "tool-result"
  <2>1. At(t, "tool-result") = At(s, "tool-result")
    BY <1>2, <1>7 DEF With
  <2>2. PutsSince(t) = With(PutsSince(s), n, PutOff(e))
    BY <2>1, <1>1, <1>2, <1>4 DEF PutsSince, With
  <2> QED
    BY <2>2, <1>7 DEF t, n
<1> QED
  BY <1>6, <1>7

\* The sets of actions, calls and iterations.
LEMMA ValuesAppend ==
  ASSUME NEW s \in Seq(Events), NEW e \in Events
  PROVE  /\ Digest(Append(s, e)).sent = Digested(Digest(s), e).sent
         /\ Digest(Append(s, e)).done = Digested(Digest(s), e).done
         /\ Digest(Append(s, e)).saved = Digested(Digest(s), e).saved
         /\ Digest(Append(s, e)).begun = Digested(Digest(s), e).begun
         /\ Digest(Append(s, e)).answered = Digested(Digest(s), e).answered
         /\ Digest(Append(s, e)).iterations = Digested(Digest(s), e).iterations
         /\ Digest(Append(s, e)).corrected = Digested(Digest(s), e).corrected
         /\ Digest(Append(s, e)).ended = Digested(Digest(s), e).ended
<1> DEFINE t == Append(s, e)
           n == Len(s) + 1
<1>1. \A i \in 1 .. Len(s) : t[i] = s[i]
  BY AppendParts
<1>2. t[n] = e /\ n \notin 1 .. Len(s)
  BY AppendParts
<1>3. \A type : At(s, type) \in SUBSET (1 .. Len(s))
                /\ At(t, type) = With(At(s, type), n, e.type = type)
  BY AtAppend
<1> HIDE DEF t, n
<1>4. \A type : {t[i].action : i \in At(t, type)} =
                With({s[i].action : i \in At(s, type)}, e.action, e.type = type)
  BY <1>1, <1>2, <1>3 DEF With
<1>5. \A type : {t[i].call : i \in At(t, type)} =
                With({s[i].call : i \in At(s, type)}, e.call, e.type = type)
  BY <1>1, <1>2, <1>3 DEF With
<1>6. {t[i].iteration : i \in At(t, "protocol-recovery")} =
      With({s[i].iteration : i \in At(s, "protocol-recovery")}, e.iteration,
           e.type = "protocol-recovery")
  BY <1>1, <1>2, <1>3 DEF With
<1>7. Iterations(t) = With(Iterations(s), e.call.iteration,
                           e.type = "model-call-started" /\ e.call.owner = "executor")
  <2> DEFINE Mine(x) == {j \in At(x, "model-call-started") : x[j].call.owner = "executor"}
  <2>1. Mine(t) = With(Mine(s), n, e.type = "model-call-started" /\ e.call.owner = "executor")
        /\ Mine(s) \subseteq 1 .. Len(s)
    BY <1>1, <1>2, <1>3 DEF With
  <2>2. Iterations(t) = {t[i].call.iteration : i \in Mine(t)}
        /\ Iterations(s) = {s[i].call.iteration : i \in Mine(s)}
    BY DEF Iterations
  <2> HIDE DEF Mine
  <2> QED
    BY <1>1, <1>2, <2>1, <2>2 DEF With
<1>8. At(t, "attempt-ended") # {} <=> (At(s, "attempt-ended") # {} \/ e.type = "attempt-ended")
  BY <1>3 DEF With
<1>9. /\ Digest(t).sent = Digested(Digest(s), e).sent
      /\ Digest(t).done = Digested(Digest(s), e).done
      /\ Digest(t).saved = Digested(Digest(s), e).saved
  BY <1>4 DEF Digest, Digested
<1>10. /\ Digest(t).begun = Digested(Digest(s), e).begun
       /\ Digest(t).answered = Digested(Digest(s), e).answered
  BY <1>5 DEF Digest, Digested
<1>11. /\ Digest(t).iterations = Digested(Digest(s), e).iterations
       /\ Digest(t).corrected = Digested(Digest(s), e).corrected
       /\ Digest(t).ended = Digested(Digest(s), e).ended
  BY <1>6, <1>7, <1>8 DEF Digest, Digested
<1> QED
  BY <1>9, <1>10, <1>11 DEF t

\* The digest grows by what the event makes of it.
LEMMA DigestAppend ==
  ASSUME NEW s \in Seq(Events), NEW e \in Events
  PROVE  Digest(Append(s, e)) = Digested(Digest(s), e)
<1> DEFINE t == Append(s, e)
           n == Len(s)
<1>1. n \in Nat
  BY AppendParts
<1>2. \A A \in SUBSET (1 .. n) : \A yes \in BOOLEAN :
        Cardinality(With(A, n + 1, yes)) = Plus(Cardinality(A), yes)
  BY <1>1, CountOneMore
<1>3. /\ At(s, "model-call-started") \in SUBSET (1 .. n) /\ At(s, "plan-revised") \in SUBSET (1 .. n)
      /\ Tools(s) \in SUBSET (1 .. n) /\ Rejects(s) \in SUBSET (1 .. n)
      /\ Mutated(s) \in SUBSET (1 .. n) /\ Retries(s) \in SUBSET (1 .. n)
      /\ Puts(s) \in SUBSET (1 .. n) /\ PutsSince(s) \in SUBSET (1 .. n)
      /\ \A q : RetriesOf(s, q) \in SUBSET (1 .. n)
  BY AtAppend DEF Tools, Rejects, Mutated, Retries, Puts, PutsSince, RetriesOf
<1>4. /\ At(t, "model-call-started") = With(At(s, "model-call-started"), n + 1, e.type = "model-call-started")
      /\ At(t, "plan-revised") = With(At(s, "plan-revised"), n + 1, e.type = "plan-revised")
  BY AtAppend
<1>5. \A q : RetriesOf(t, q) = With(RetriesOf(s, q), n + 1,
                                    Retried(e) /\ e.owner = q[1] /\ e.iteration = q[2])
  BY RetriesOfAppend
<1>6. PutsSince(t) = IF e.type = "tool-result" THEN {} ELSE With(PutsSince(s), n + 1, PutOff(e))
  BY PutsSinceAppend
<1>7. /\ Tools(t) = With(Tools(s), n + 1, Tool(e))
      /\ Rejects(t) = With(Rejects(s), n + 1, Reject(e))
      /\ Mutated(t) = With(Mutated(s), n + 1, Mutates(e))
      /\ Retries(t) = With(Retries(s), n + 1, Retried(e))
      /\ Puts(t) = With(Puts(s), n + 1, PutOff(e))
  BY CountedAppend
<1>8. Plan(t) = Replayed(Plan(s), e) /\ Obligation(t) = Obliged(Obligation(s), e)
  BY PlanAppend, ObligationAppend
<1>9. /\ Tool(e) \in BOOLEAN /\ Reject(e) \in BOOLEAN /\ Mutates(e) \in BOOLEAN
      /\ Retried(e) \in BOOLEAN /\ PutOff(e) \in BOOLEAN
      /\ \A q : (Retried(e) /\ e.owner = q[1] /\ e.iteration = q[2]) \in BOOLEAN
  BY EventParts DEF Tool, Reject, Mutates, Retried, PutOff
<1>20. Len(t) = n + 1
  BY AppendParts
<1> HIDE DEF t, n
<1>10. /\ Cardinality(At(t, "model-call-started")) =
            Plus(Cardinality(At(s, "model-call-started")), e.type = "model-call-started")
       /\ Cardinality(At(t, "plan-revised")) =
            Plus(Cardinality(At(s, "plan-revised")), e.type = "plan-revised")
  BY <1>2, <1>3, <1>4
<1>11. /\ Cardinality(Tools(t)) = Plus(Cardinality(Tools(s)), Tool(e))
       /\ Cardinality(Rejects(t)) = Plus(Cardinality(Rejects(s)), Reject(e))
       /\ Cardinality(Mutated(t)) = Plus(Cardinality(Mutated(s)), Mutates(e))
       /\ Cardinality(Retries(t)) = Plus(Cardinality(Retries(s)), Retried(e))
       /\ Cardinality(Puts(t)) = Plus(Cardinality(Puts(s)), PutOff(e))
  BY <1>2, <1>3, <1>7, <1>9
<1>12. \A q : Cardinality(RetriesOf(t, q)) =
                Plus(Cardinality(RetriesOf(s, q)),
                     Retried(e) /\ e.owner = q[1] /\ e.iteration = q[2])
  BY <1>2, <1>3, <1>5, <1>9
<1>13. Cardinality(PutsSince(t)) =
         IF e.type = "tool-result" THEN 0 ELSE Plus(Cardinality(PutsSince(s)), PutOff(e))
  BY <1>2, <1>3, <1>6, <1>9, FS_EmptySet
<1>14. [q \in Owners \X Nat |-> Cardinality(RetriesOf(t, q))] =
       [q \in Owners \X Nat |-> Plus(Digest(s).retriesOf[q],
                                     Retried(e) /\ e.owner = q[1] /\ e.iteration = q[2])]
  BY <1>12 DEF Digest
<1> DEFINE x == Digest(t)
           y == Digested(Digest(s), e)
<1>15. /\ x.starts = y.starts /\ x.tools = y.tools /\ x.rejects = y.rejects
       /\ x.muts = y.muts /\ x.retries = y.retries /\ x.puts = y.puts
       /\ x.since = y.since /\ x.revised = y.revised /\ x.retriesOf = y.retriesOf
       /\ x.plan = y.plan /\ x.obliged = y.obliged
  BY <1>8, <1>10, <1>11, <1>13, <1>14 DEF Digest, Digested
<1>21. x.size = y.size
  BY <1>20 DEF Digest, Digested, n
<1>16. /\ x.sent = y.sent /\ x.done = y.done /\ x.saved = y.saved
       /\ x.begun = y.begun /\ x.answered = y.answered
       /\ x.iterations = y.iterations /\ x.corrected = y.corrected /\ x.ended = y.ended
  BY ValuesAppend DEF t
<1>17. x = [size |-> x.size, sent |-> x.sent, done |-> x.done, saved |-> x.saved, begun |-> x.begun,
           answered |-> x.answered, iterations |-> x.iterations, corrected |-> x.corrected,
           ended |-> x.ended, starts |-> x.starts, tools |-> x.tools, rejects |->
           x.rejects, muts |-> x.muts, retries |-> x.retries, retriesOf |-> x.retriesOf,
           puts |-> x.puts, since |-> x.since, revised |-> x.revised, plan |-> x.plan,
           obliged |-> x.obliged]
  BY DEF Digest
<1>18. y = [size |-> y.size, sent |-> y.sent, done |-> y.done, saved |-> y.saved, begun |-> y.begun,
           answered |-> y.answered, iterations |-> y.iterations, corrected |-> y.corrected,
           ended |-> y.ended, starts |-> y.starts, tools |-> y.tools, rejects |->
           y.rejects, muts |-> y.muts, retries |-> y.retries, retriesOf |-> y.retriesOf,
           puts |-> y.puts, since |-> y.since, revised |-> y.revised, plan |-> y.plan,
           obliged |-> y.obliged]
  BY DEF Digested
<1> HIDE DEF x, y
<1>19. x = y
  BY <1>15, <1>16, <1>17, <1>18, <1>21, Zenon
<1> QED
  BY <1>19 DEF x, y, t
-----------------------------------------------------------------------------
(***************************************************************************)
(* An accepted event leaves a record that is in order.                     *)
(***************************************************************************)
LEMMA DigestStepType ==
  ASSUME NEW d, NEW e \in Events, DigestTyped(d)
  PROVE  DigestTyped(Digested(d, e))
<1> DEFINE x == Digested(d, e)
<1>1. /\ x.sent \in SUBSET Actions /\ x.done \in SUBSET Actions /\ x.saved \in SUBSET Actions
      /\ x.begun \in SUBSET Calls /\ x.answered \in SUBSET Calls
      /\ x.iterations \in SUBSET Nat /\ x.corrected \in SUBSET Nat
  BY EventParts DEF Digested, DigestTyped, With, Calls
<1>2. /\ x.starts \in Nat /\ x.tools \in Nat /\ x.rejects \in Nat /\ x.muts \in Nat
      /\ x.retries \in Nat /\ x.puts \in Nat /\ x.since \in Nat /\ x.revised \in Nat
  BY DEF Digested, DigestTyped, Plus
<1>3. x.retriesOf \in [Owners \X Nat -> Nat]
  <2>1. \A q \in Owners \X Nat : d.retriesOf[q] \in Nat
    BY DEF DigestTyped
  <2>2. \A q \in Owners \X Nat :
          Plus(d.retriesOf[q], Retried(e) /\ e.owner = q[1] /\ e.iteration = q[2]) \in Nat
    BY <2>1 DEF Plus
  <2> QED
    BY <2>2 DEF Digested
<1>4. x.plan \in Memories
  BY ReplayedType DEF Digested, DigestTyped
<1>5. x.obliged \in Obligations
  BY ObligedType DEF Digested, DigestTyped
<1>6. x.ended \in BOOLEAN
  BY DEF Digested, DigestTyped
<1> HIDE DEF x
<1>7. DigestTyped(x)
  BY <1>1, <1>2, <1>3, <1>4, <1>5, <1>6 DEF DigestTyped
<1> QED
  BY <1>7 DEF x

\* The plan grows by a revision, and the step in progress is that of the last one.
LEMMA PlanStep ==
  ASSUME NEW p \in Memories, NEW e \in Events, InStep(p)
  PROVE  /\ InStep(Replayed(p, e))
         /\ Len(Replayed(p, e).revisions) = Plus(Len(p.revisions), e.type = "plan-revised")
<1>1. CASE e.type = "plan-revised"
  <2> DEFINE revisions == Append(p.revisions, [plan |-> e.plan, trigger |-> e.trigger])
             step == Synchronized(p.step, revisions)
  <2>1. revisions \in Revisions /\ Len(revisions) = Len(p.revisions) + 1
    BY <1>1, EventParts DEF Memories, Revisions
  <2>2. InStep([revisions |-> revisions, step |-> step])
    BY <2>1, SynchronizedType DEF Memories
  <2>3. Replayed(p, e) = [p EXCEPT !.revisions = revisions, !.step = step]
    BY <1>1 DEF Replayed
  <2> HIDE DEF revisions, step
  <2>4. Replayed(p, e).revisions = revisions /\ Replayed(p, e).step = step
    BY <2>3 DEF Memories
  <2> QED
    BY <1>1, <2>1, <2>2, <2>4 DEF InStep, Plus
<1>2. CASE e.type = "tool-result"
  <2> DEFINE step == Recorded(p.step, p.seen, e.r)
  <2>1. /\ p.step = NoStep => step = NoStep
        /\ p.step # NoStep => step # NoStep /\ step.revision = p.step.revision
    BY <1>2, EventParts, RecordedType DEF Memories
  <2>2. Replayed(p, e) = [p EXCEPT !.step = step, !.seen = p.seen \/ e.r.facts = "retrieval"]
    BY <1>2 DEF Replayed
  <2> HIDE DEF step
  <2>3. Replayed(p, e).revisions = p.revisions /\ Replayed(p, e).step = step
    BY <2>2 DEF Memories
  <2> QED
    BY <1>2, <2>1, <2>3 DEF InStep, Plus
<1>3. CASE e.type \notin {"plan-revised", "tool-result"}
  BY <1>3 DEF Replayed, Plus
<1> QED
  BY <1>1, <1>2, <1>3

\* The digest of a record stays consistent when an accepted event is added.
LEMMA ConsistentStep ==
  ASSUME NEW c \in Setups, NEW d, NEW e \in Events, Consistent(c, d), Accepts(c, d, e)
  PROVE  Consistent(c, Digested(d, e))
<1> DEFINE x == Digested(d, e)
<1>1. DigestTyped(x) /\ DigestTyped(d)
  BY DigestStepType DEF Consistent
<1>2. /\ x.answered \subseteq x.begun /\ x.done \subseteq x.sent /\ x.saved \subseteq x.done
  BY EventParts DEF Consistent, Digested, With, Accepts
<1>3. \A y, z \in x.begun \ x.answered : y = z
  <2>1. CASE e.type = "model-call-started"
    BY <2>1 DEF Consistent, Digested, With, Accepts
  <2>2. CASE e.type # "model-call-started"
    BY <2>2 DEF Consistent, Digested, With, Accepts
  <2> QED
    BY <2>1, <2>2
<1>4. \A y \in x.begun : y.ordinal \in 1 .. x.starts
  <2>1. d.starts \in Nat
    BY <1>1 DEF DigestTyped
  <2> QED
    BY <2>1 DEF Consistent, Digested, With, Plus, Accepts
<1>5. \E k \in 0 .. c.maxIterations : x.iterations = 1 .. k
  <2>1. PICK k \in 0 .. c.maxIterations : d.iterations = 1 .. k
    BY DEF Consistent
  <2>2. c.maxIterations \in Nat
    BY SetupsAssumption
  <2>3. CASE e.type = "model-call-started" /\ e.call.owner = "executor"
    <3> DEFINE i == e.call.iteration
    <3>1. i \in 1 .. c.maxIterations /\ 1 .. (i - 1) \subseteq 1 .. k
      BY <2>1, <2>3 DEF Accepts
    <3>2. x.iterations = (1 .. k) \cup {i}
      BY <2>1, <2>3 DEF Digested, With
    <3> HIDE DEF i, x
    <3>3. i <= k + 1
      <4>1. CASE i = 1
        BY <4>1, <2>1
      <4>2. CASE i # 1
        <5>1. i - 1 \in 1 .. (i - 1)
          BY <3>1, <4>2, <2>2
        <5>2. i - 1 \in 1 .. k
          BY <3>1, <5>1
        <5> QED
          BY <5>2, <3>1, <2>1, <2>2
      <4> QED
        BY <4>1, <4>2
    <3>4. CASE i = k + 1
      <4>1. x.iterations = 1 .. (k + 1) /\ k + 1 \in 0 .. c.maxIterations
        BY <3>1, <3>2, <3>4, <2>1, <2>2
      <4> QED
        BY <4>1
    <3>5. CASE i <= k
      <4>1. x.iterations = 1 .. k
        BY <3>1, <3>2, <3>5, <2>1, <2>2
      <4> QED
        BY <4>1
    <3> QED
      BY <3>1, <3>3, <3>4, <3>5, <2>1, <2>2
  <2>4. CASE ~(e.type = "model-call-started" /\ e.call.owner = "executor")
    BY <2>1, <2>4 DEF Digested, With
  <2> QED
    BY <2>3, <2>4
<1>6. \A a \in x.sent : a.iteration \in x.iterations
  BY DEF Consistent, Digested, With, Accepts
<1>7. x.corrected \subseteq x.iterations
  BY DEF Consistent, Digested, With, Accepts
<1>8. ASSUME NEW q \in Owners \X Nat
      PROVE  /\ x.retriesOf[q] <= MaxProtocolRecoveries
             /\ q[2] \notin x.corrected => x.retriesOf[q] = 0
  <2>1. d.retriesOf[q] \in Nat /\ MaxProtocolRecoveries \in Nat
    BY <1>1, PolicyAssumption DEF DigestTyped
  <2>2. /\ d.retriesOf[q] <= MaxProtocolRecoveries
        /\ q[2] \notin d.corrected => d.retriesOf[q] = 0
    BY DEF Consistent
  <2>3. x.retriesOf[q] = Plus(d.retriesOf[q], Retried(e) /\ e.owner = q[1] /\ e.iteration = q[2])
    BY DEF Digested
  <2>4. CASE Retried(e) /\ e.owner = q[1] /\ e.iteration = q[2]
    <3>1. q = <<e.owner, e.iteration>>
      BY <2>4
    <3>2. d.retriesOf[q] < MaxProtocolRecoveries
      BY <2>4, <3>1 DEF Accepts, Retried
    <3>3. q[2] \in x.corrected
      BY <2>4 DEF Digested, With, Retried
    <3> QED
      BY <2>1, <2>3, <2>4, <3>2, <3>3 DEF Plus
  <2>5. CASE ~(Retried(e) /\ e.owner = q[1] /\ e.iteration = q[2])
    <3>1. d.corrected \subseteq x.corrected
      BY DEF Digested, With
    <3> QED
      BY <2>2, <2>3, <2>5, <3>1 DEF Plus
  <2> QED
    BY <2>4, <2>5
<1>9. x.tools <= MaxToolCalls /\ x.muts <= x.tools
  <2>1. d.tools \in Nat /\ d.muts \in Nat /\ MaxToolCalls \in Nat
    BY <1>1, PolicyAssumption DEF DigestTyped
  <2>2. Mutates(e) => Tool(e)
    BY EventParts DEF Mutates, Tool, ToolOutcomes, Sound
  <2>3. Tool(e) => d.tools < MaxToolCalls
    BY DEF Tool, Accepts
  <2>4. x.tools = Plus(d.tools, Tool(e)) /\ x.muts = Plus(d.muts, Mutates(e))
    BY DEF Digested
  <2>5. d.tools <= MaxToolCalls /\ d.muts <= d.tools
    BY DEF Consistent
  <2> QED
    BY <2>1, <2>2, <2>3, <2>4, <2>5 DEF Plus
<1>10. x.since <= MaxCompletionDeferrals
  <2>1. d.since \in Nat /\ MaxCompletionDeferrals \in Nat
    BY <1>1, PolicyAssumption DEF DigestTyped
  <2> QED
    BY <2>1 DEF Consistent, Digested, Plus, PutOff, Accepts
<1>11. /\ x.revised = Len(x.plan.revisions) /\ x.revised <= MaxPlanRevisions
       /\ InStep(x.plan)
  <2>1. d.revised \in Nat /\ MaxPlanRevisions \in Nat /\ d.plan \in Memories
    BY <1>1, PolicyAssumption DEF DigestTyped
  <2>2. x.plan = Replayed(d.plan, e) /\ x.revised = Plus(d.revised, e.type = "plan-revised")
    BY DEF Digested
  <2>3. InStep(x.plan) /\ Len(x.plan.revisions) = Plus(Len(d.plan.revisions), e.type = "plan-revised")
    BY <2>1, <2>2, PlanStep DEF Consistent
  <2> QED
    BY <2>1, <2>2, <2>3 DEF Consistent, Plus, Accepts
<1> HIDE DEF x
<1>12. Consistent(c, x)
  BY <1>1, <1>2, <1>3, <1>4, <1>5, <1>6, <1>7, <1>8, <1>9, <1>10, <1>11 DEF Consistent
<1> QED
  BY <1>12 DEF x

\* A mutation has to be verified, and a failed verification repaired.
LEMMA SettledStep ==
  ASSUME NEW c \in Setups, NEW s \in Seq(Events), NEW e \in Events,
         Settled(s), Accepts(c, Digest(s), e)
  PROVE  Settled(Append(s, e))
<1> DEFINE t == Append(s, e)
           n == Len(s) + 1
           d == Digest(s)
           x == Digest(t)
           v == e.type = "tool-result" /\ e.r.facts = "verification" /\ e.r.status = "ok"
<1>1. x.obliged = Obliged(d.obliged, e) /\ x.muts = Plus(d.muts, Mutates(e))
  BY DigestAppend DEF Digested
<1>2. /\ \A i \in 1 .. Len(s) : t[i] = s[i]
      /\ t[n] = e /\ Len(s) \in Nat
  BY AppendParts
<1>3. /\ Verified(t) = With(Verified(s), n, v)
      /\ Verified(s) \subseteq 1 .. Len(s)
  <2>1. \A type : At(s, type) \in SUBSET (1 .. Len(s))
                  /\ At(t, type) = With(At(s, type), n, e.type = type)
    BY AtAppend
  <2>2. n \notin 1 .. Len(s)
    BY <1>2
  <2> HIDE DEF t, n
  <2> QED
    BY <1>2, <2>1, <2>2 DEF Verified, With
<1>4. CASE v
  <2>1. CASE e.r.outcome = "passed"
    <3>1. e.observed = d.muts /\ x.muts = d.muts
      BY <1>1, <1>4 DEF Accepts, Mutates, Plus
    <3>2. n \in Verified(t) /\ \A j \in Verified(t) : j <= n
      BY <1>2, <1>3, <1>4 DEF With
    <3> HIDE DEF t, n, d, x
    <3> QED
      BY <1>2, <2>1, <3>1, <3>2 DEF Settled, t, x
  <2>2. CASE e.r.outcome # "passed"
    <3>1. e.r.outcome = "failed"
      BY <1>4, <2>2, EventParts DEF ToolOutcomes, Sound
    <3>2. x.obliged = "repair-due"
      BY <1>1, <1>4, <3>1 DEF Obliged
    <3> QED
      BY <3>2 DEF Settled
  <2> QED
    BY <2>1, <2>2
<1>5. CASE Mutates(e)
  <2>1. x.obliged = "verification-due"
    BY <1>1, <1>5 DEF Mutates, Obliged
  <2> QED
    BY <2>1 DEF Settled
<1>6. CASE ~v /\ ~Mutates(e)
  <2>1. x.obliged = "none" => d.obliged = "none"
    BY <1>1, <1>6 DEF Obliged, Mutates
  <2>2. x.muts = d.muts /\ Verified(t) = Verified(s)
    BY <1>1, <1>3, <1>6 DEF Plus, With
  <2> HIDE DEF t, n, d, x
  <2>3. x.obliged = "none" =>
          \/ Verified(t) = {} /\ x.muts = 0
          \/ \E i \in Verified(t) : /\ \A j \in Verified(t) : j <= i
                                    /\ t[i].r.outcome = "passed" /\ t[i].observed = x.muts
    BY <2>1, <2>2, <1>2, <1>3 DEF Settled, d
  <2> QED
    BY <2>3 DEF Settled, t, x
<1> QED
  BY <1>4, <1>5, <1>6
-----------------------------------------------------------------------------
(***************************************************************************)
(* The record grows by accepted events, and a crash keeps a prefix of it.  *)
(***************************************************************************)
LEMMA PrefixParts ==
  ASSUME NEW s \in Seq(Events), NEW n \in 0 .. Len(s)
  PROVE  /\ Prefix(s, n) \in Seq(Events) /\ Len(Prefix(s, n)) = n
         /\ \A i \in 1 .. n : Prefix(s, n)[i] = s[i]
         /\ \A k \in 0 .. n : Prefix(Prefix(s, n), k) = Prefix(s, k)
         /\ Prefix(s, Len(s)) = s
<1>1. /\ Prefix(s, n) \in Seq(Events) /\ Len(Prefix(s, n)) = n
      /\ \A i \in 1 .. n : Prefix(s, n)[i] = s[i]
  BY DEF Prefix
<1>2. ASSUME NEW k \in 0 .. n PROVE Prefix(Prefix(s, n), k) = Prefix(s, k)
  BY DEF Prefix
<1>3. Prefix(s, Len(s)) = s
  BY DEF Prefix
<1> QED
  BY <1>1, <1>2, <1>3

\* The prefixes of a record with one event more.
LEMMA PrefixOfAppend ==
  ASSUME NEW s \in Seq(Events), NEW e \in Events
  PROVE  /\ \A k \in 0 .. Len(s) : Prefix(Append(s, e), k) = Prefix(s, k)
         /\ Prefix(Append(s, e), Len(s) + 1) = Append(s, e)
<1>1. ASSUME NEW k \in 0 .. Len(s) PROVE Prefix(Append(s, e), k) = Prefix(s, k)
  BY DEF Prefix
<1>2. Append(s, e) \in Seq(Events) /\ Len(Append(s, e)) = Len(s) + 1
  OBVIOUS
<1>3. Prefix(Append(s, e), Len(s) + 1) = Append(s, e)
  <2>1. Len(Append(s, e)) \in 0 .. Len(Append(s, e))
    BY <1>2
  <2>2. Prefix(Append(s, e), Len(Append(s, e))) = Append(s, e)
    BY <1>2, <2>1, PrefixParts
  <2> QED
    BY <1>2, <2>2
<1> QED
  BY <1>1, <1>3

\* Nothing is derived from an empty record.
LEMMA EmptyDigest ==
  /\ DigestTyped(Digest(<<>>))
  /\ Digest(<<>>).sent = {} /\ Digest(<<>>).done = {} /\ Digest(<<>>).saved = {}
  /\ Digest(<<>>).begun = {} /\ Digest(<<>>).answered = {}
  /\ Digest(<<>>).iterations = {} /\ Digest(<<>>).corrected = {} /\ ~Digest(<<>>).ended
  /\ Digest(<<>>).tools = 0 /\ Digest(<<>>).muts = 0 /\ Digest(<<>>).since = 0
  /\ Digest(<<>>).starts = 0 /\ Digest(<<>>).revised = 0
  /\ \A q \in Owners \X Nat : Digest(<<>>).retriesOf[q] = 0
  /\ Digest(<<>>).plan = Fresh
  /\ Verified(<<>>) = {}
<1>1. \A type : At(<<>>, type) = {}
  BY DEF At
<1>2. /\ Tools(<<>>) = {} /\ Rejects(<<>>) = {} /\ Mutated(<<>>) = {} /\ Retries(<<>>) = {}
      /\ Puts(<<>>) = {} /\ PutsSince(<<>>) = {} /\ \A q : RetriesOf(<<>>, q) = {}
      /\ Verified(<<>>) = {} /\ Iterations(<<>>) = {}
  BY <1>1 DEF Tools, Rejects, Mutated, Retries, Puts, PutsSince, RetriesOf, Verified, Iterations
<1>3. Cardinality({}) = 0
  BY FS_EmptySet
<1>4. Plan(<<>>) = Fresh /\ Obligation(<<>>) = "none"
  BY PlanEmpty, ObligationEmpty
<1>5. Fresh \in Memories
  BY FreshType
<1> DEFINE d == Digest(<<>>)
<1>6. /\ d.sent = {} /\ d.done = {} /\ d.saved = {} /\ d.begun = {} /\ d.answered = {}
      /\ d.iterations = {} /\ d.corrected = {} /\ d.ended = FALSE
  BY <1>1, <1>2 DEF Digest
<1>7. /\ d.starts = 0 /\ d.tools = 0 /\ d.rejects = 0 /\ d.muts = 0 /\ d.retries = 0
      /\ d.puts = 0 /\ d.since = 0 /\ d.revised = 0
      /\ d.retriesOf = [q \in Owners \X Nat |-> 0]
  BY <1>1, <1>2, <1>3 DEF Digest
<1>8. d.plan \in Memories /\ d.plan = Fresh /\ d.obliged \in Obligations
  BY <1>4, <1>5 DEF Digest, Obligations
<1> HIDE DEF d
<1>9. DigestTyped(d)
  <2>1. d.retriesOf \in [Owners \X Nat -> Nat]
    BY <1>7
  <2>2. 0 \in Nat /\ {} \subseteq Actions /\ {} \subseteq Calls /\ {} \subseteq Nat /\ FALSE \in BOOLEAN
    OBVIOUS
  <2> QED
    BY <1>6, <1>7, <1>8, <2>1, <2>2, Zenon DEF DigestTyped
<1> QED
  BY <1>2, <1>6, <1>7, <1>8, <1>9 DEF d

\* An attempt begins with a record that is in order.
LEMMA EmptyLog ==
  ASSUME NEW c \in Setups
  PROVE  Kept(c, 0, <<>>, 0)
<1>1. <<>> \in Seq(Events) /\ Len(<<>>) = 0 /\ Prefix(<<>>, 0) = <<>>
  BY DEF Prefix
<1>2. InStep(Fresh) /\ Fresh.revisions = <<>>
  BY DEF InStep, Fresh
<1>3. c.maxIterations \in Nat /\ 1 .. 0 = {}
  BY SetupsAssumption
<1>4. Consistent(c, Digest(<<>>))
  <2>1. 0 \in 0 .. c.maxIterations
    BY <1>3
  <2>2. \E k \in 0 .. c.maxIterations : Digest(<<>>).iterations = 1 .. k
    BY <2>1, <1>3, EmptyDigest
  <2> QED
    BY <1>2, <2>2, EmptyDigest, PolicyAssumption DEF Consistent
<1>5. Settled(<<>>)
  BY EmptyDigest DEF Settled
<1>6. Log(c, <<>>)
  BY <1>1, <1>4, <1>5 DEF Log
<1>7. Known(Digest(<<>>), 0)
  BY EmptyDigest DEF Known
<1> QED
  BY <1>1, <1>6, <1>7 DEF Kept

\* A record whose digest is known, and the accepted events after it.
LEMMA KeptAppend ==
  ASSUME NEW c \in Setups, NEW n, NEW s, NEW t, NEW e \in Events,
         Kept(c, n, s, t), Accepts(c, Digest(s), e), Known(Digested(Digest(s), e), t)
  PROVE  Kept(c, n, Append(s, e), t) /\ Digest(Append(s, e)) = Digested(Digest(s), e)
<1> DEFINE u == Append(s, e)
           l == Len(s)
<1>1. s \in Seq(Events) /\ Log(c, s) /\ n \in 0 .. l
      /\ \A k \in n .. l : Known(Digest(Prefix(s, k)), t)
  BY DEF Kept
<1>2. /\ u \in Seq(Events) /\ Len(u) = l + 1 /\ l \in Nat
      /\ \A i \in 1 .. l : u[i] = s[i]
      /\ u[l + 1] = e
  BY <1>1
<1>3. /\ \A k \in 0 .. l : Prefix(u, k) = Prefix(s, k)
      /\ Prefix(u, l + 1) = u
  BY <1>1, PrefixOfAppend
<1>4. Digest(u) = Digested(Digest(s), e)
  BY <1>1, DigestAppend
<1>5. Prefix(s, l) = s
  BY <1>1, PrefixParts
<1>6. Consistent(c, Digest(s)) /\ Settled(s)
  BY <1>1, <1>2, <1>5 DEF Log
<1>7. Consistent(c, Digest(u)) /\ Settled(u)
  BY <1>1, <1>4, <1>6, ConsistentStep, SettledStep
<1> HIDE DEF u, l
<1>8. ASSUME NEW k \in 0 .. Len(u)
      PROVE  Consistent(c, Digest(Prefix(u, k))) /\ Settled(Prefix(u, k))
  <2>1. CASE k = l + 1
    BY <2>1, <1>3, <1>7
  <2>2. CASE k # l + 1
    <3>1. k \in 0 .. l
      BY <2>2, <1>2
    <3> QED
      BY <3>1, <1>1, <1>3 DEF Log, l
  <2> QED
    BY <2>1, <2>2
<1>9. ASSUME NEW k \in 1 .. Len(u) PROVE Accepts(c, Digest(Prefix(u, k - 1)), u[k])
  <2>1. CASE k = l + 1
    <3>1. k - 1 = l /\ l \in 0 .. l
      BY <2>1, <1>2
    <3> QED
      BY <2>1, <3>1, <1>2, <1>3, <1>5
  <2>2. CASE k # l + 1
    <3>1. k \in 1 .. l /\ k - 1 \in 0 .. l
      BY <2>2, <1>2
    <3> QED
      BY <3>1, <1>1, <1>2, <1>3 DEF Log, l
  <2> QED
    BY <2>1, <2>2
<1>10. ASSUME NEW k \in n .. Len(u) PROVE Known(Digest(Prefix(u, k)), t)
  <2>1. CASE k = l + 1
    BY <2>1, <1>3, <1>4
  <2>2. CASE k # l + 1
    <3>1. k \in n .. l /\ k \in 0 .. l
      BY <2>2, <1>1, <1>2
    <3> QED
      BY <3>1, <1>1, <1>3
  <2> QED
    BY <2>1, <2>2
<1>11. n \in 0 .. Len(u)
  BY <1>1, <1>2
<1>12. Kept(c, n, u, t)
  BY <1>2, <1>8, <1>9, <1>10, <1>11 DEF Kept, Log
<1> QED
  BY <1>4, <1>12 DEF u

\* A crash keeps the first k events.
LEMMA KeptPrefix ==
  ASSUME NEW c, NEW n, NEW s, NEW t, Kept(c, n, s, t), NEW k \in n .. Len(s)
  PROVE  Kept(c, k, Prefix(s, k), t) /\ Len(Prefix(s, k)) = k
<1>1. s \in Seq(Events) /\ Log(c, s) /\ n \in 0 .. Len(s) /\ k \in 0 .. Len(s)
      /\ Known(Digest(Prefix(s, k)), t)
  BY DEF Kept
<1> DEFINE p == Prefix(s, k)
<1>2. /\ p \in Seq(Events) /\ Len(p) = k /\ k \in Nat
      /\ \A i \in 1 .. k : p[i] = s[i]
      /\ \A i \in 0 .. k : Prefix(p, i) = Prefix(s, i)
  BY <1>1, PrefixParts
<1> HIDE DEF p
<1>3. Log(c, p)
  <2>1. \A i \in 0 .. k : i \in 0 .. Len(s)
    BY <1>1
  <2>2. \A i \in 1 .. k : i \in 1 .. Len(s) /\ i - 1 \in 0 .. k
    BY <1>1
  <2> QED
    BY <1>1, <1>2, <2>1, <2>2 DEF Log
<1>4. \A i \in k .. k : Known(Digest(Prefix(p, i)), t)
  <2>1. Prefix(p, k) = Prefix(s, k)
    BY <1>2
  <2> QED
    BY <1>1, <1>2, <2>1
<1>5. k \in 0 .. k
  BY <1>2
<1> QED
  BY <1>2, <1>3, <1>4, <1>5 DEF Kept, p

\* What is known of a record all of which is durable.
LEMMA KeptNow ==
  ASSUME NEW c, NEW s, NEW t, NEW u, Kept(c, Len(s), s, t), Known(Digest(s), u)
  PROVE  Kept(c, Len(s), s, u)
<1>1. s \in Seq(Events) /\ Prefix(s, Len(s)) = s /\ Len(s) \in Nat
  BY PrefixParts DEF Kept
<1> QED
  BY <1>1 DEF Kept

\* A record is in order as a whole.
LEMMA KeptConsistent ==
  ASSUME NEW c, NEW n, NEW s, NEW t, Kept(c, n, s, t)
  PROVE  /\ s \in Seq(Events) /\ Consistent(c, Digest(s)) /\ Settled(s) /\ Known(Digest(s), t)
         /\ DigestTyped(Digest(s))
<1>1. s \in Seq(Events) /\ Log(c, s) /\ n \in 0 .. Len(s) /\ Len(s) \in Nat
  BY DEF Kept
<1>2. Prefix(s, Len(s)) = s /\ Len(s) \in 0 .. Len(s) /\ Len(s) \in n .. Len(s)
  BY <1>1, PrefixParts
<1> QED
  BY <1>1, <1>2 DEF Kept, Log, Consistent
-----------------------------------------------------------------------------
(***************************************************************************)
(* What each event adds, where it may follow.                              *)
(***************************************************************************)
SameCalls(x, d) ==
  x.begun = d.begun /\ x.answered = d.answered /\ x.iterations = d.iterations /\ x.starts = d.starts
SameActions(x, d) ==
  x.sent = d.sent /\ x.done = d.done /\ x.saved = d.saved
SameTools(x, d) ==
  SameActions(x, d) /\ x.tools = d.tools /\ x.rejects = d.rejects /\ x.muts = d.muts
    /\ x.since = d.since
SameRetries(x, d) ==
  x.corrected = d.corrected /\ x.retries = d.retries /\ x.retriesOf = d.retriesOf
SamePlan(x, d) == x.plan = d.plan /\ x.revised = d.revised

\* The attempt is started: nothing else is changed.
LEMMA StartKept ==
  ASSUME NEW c \in Setups, NEW n, NEW s, NEW t, Kept(c, n, s, t),
         NEW e \in StartEvents, ~Digest(s).ended, s = <<>>
  PROVE  /\ e \in Events /\ Kept(c, n, Append(s, e), t)
         /\ SameCalls(Digest(Append(s, e)), Digest(s)) /\ SameTools(Digest(Append(s, e)), Digest(s))
         /\ SameRetries(Digest(Append(s, e)), Digest(s)) /\ SamePlan(Digest(Append(s, e)), Digest(s))
         /\ Digest(Append(s, e)).puts = Digest(s).puts /\ ~Digest(Append(s, e)).ended
<1> DEFINE d == Digest(s)
           x == Digested(d, e)
<1>1. e \in Events /\ e.type = "attempt-started"
  BY DEF Events, StartEvents
<1>6. d.size = 0
  BY DEF Digest
<1>2. Accepts(c, d, e)
  BY <1>1, <1>6 DEF Accepts
<1>3. /\ SameCalls(x, d) /\ SameTools(x, d) /\ SamePlan(x, d)
      /\ x.puts = d.puts /\ ~x.ended
  BY <1>1 DEF Digested, SameCalls, SameTools, SameActions, SamePlan, With, Plus, Tool,
              Reject, Mutates, PutOff, Replayed
<1>4. SameRetries(x, d)
  <2>1. d.retriesOf \in [Owners \X Nat -> Nat]
    BY KeptConsistent DEF DigestTyped
  <2> QED
    BY <2>1, <1>1 DEF Digested, SameRetries, Retried, With, Plus
<1>5. Known(x, t)
  BY <1>3, KeptConsistent DEF Known, Resolved, SameTools, SameActions
<1> QED
  BY <1>1, <1>2, <1>3, <1>4, <1>5, KeptAppend

\* A call may be made, and what it adds.
MayCall(c, d, call) ==
  /\ d.begun \subseteq d.answered
  /\ call.ordinal = d.starts + 1
  /\ call.owner = "executor" => /\ call.iteration \in 1 .. c.maxIterations
                                /\ 1 .. (call.iteration - 1) \subseteq d.iterations

CallMade(x, d, call) ==
  /\ x.begun = d.begun \cup {call} /\ x.answered = d.answered
  /\ x.iterations = IF call.owner = "executor" THEN d.iterations \cup {call.iteration}
                    ELSE d.iterations
  /\ x.starts = d.starts + 1
  /\ SameTools(x, d) /\ SameRetries(x, d) /\ SamePlan(x, d)
  /\ x.puts = d.puts /\ ~x.ended

\* A model call is begun.
LEMMA CallKept ==
  ASSUME NEW c \in Setups, NEW n, NEW s, NEW t, Kept(c, n, s, t),
         NEW call \in Calls, ~Digest(s).ended, MayCall(c, Digest(s), call)
  PROVE  /\ CallStarted(call) \in Events /\ Kept(c, n, Append(s, CallStarted(call)), t)
         /\ CallMade(Digest(Append(s, CallStarted(call))), Digest(s), call)
<1> DEFINE d == Digest(s)
           e == CallStarted(call)
           x == Digested(d, e)
<1>1. e \in Events /\ e.type = "model-call-started" /\ e.call = call
  BY DEF Events, CallEvents, CallStarted
<1> HIDE DEF e
<1>2. Accepts(c, d, e)
  BY <1>1 DEF Accepts, MayCall
<1>3. /\ x.begun = d.begun \cup {call} /\ x.answered = d.answered
      /\ x.iterations = IF call.owner = "executor" THEN d.iterations \cup {call.iteration}
                        ELSE d.iterations
      /\ x.starts = d.starts + 1
      /\ SameTools(x, d) /\ SamePlan(x, d) /\ x.puts = d.puts /\ ~x.ended
  BY <1>1 DEF Digested, SameTools, SameActions, SamePlan, With, Plus, Tool,
              Reject, Mutates, PutOff, Replayed
<1>4. SameRetries(x, d)
  <2>1. d.retriesOf \in [Owners \X Nat -> Nat]
    BY KeptConsistent DEF DigestTyped
  <2> QED
    BY <2>1, <1>1 DEF Digested, SameRetries, Retried, With, Plus
<1>5. Known(x, t)
  BY <1>3, KeptConsistent DEF Known, Resolved, SameTools, SameActions
<1>6. Kept(c, n, Append(s, e), t) /\ Digest(Append(s, e)) = x
  BY <1>1, <1>2, <1>5, KeptAppend
<1> HIDE DEF x
<1>7. CallMade(x, d, call)
  BY <1>3, <1>4 DEF CallMade
<1> QED
  BY <1>1, <1>6, <1>7 DEF e

\* A model call that is open is completed.
LEMMA AnswerKept ==
  ASSUME NEW c \in Setups, NEW n, NEW s, NEW t, Kept(c, n, s, t),
         NEW call \in Calls, NEW outcome \in {"succeeded", "failed", "interrupted"},
         ~Digest(s).ended, call \in Digest(s).begun \ Digest(s).answered
  PROVE  LET e == CallCompleted(call, outcome)
             x == Digest(Append(s, e))
             d == Digest(s)
         IN  /\ e \in Events /\ Kept(c, n, Append(s, e), t)
             /\ x.begun = d.begun /\ x.answered = d.answered \cup {call}
             /\ x.begun \subseteq x.answered
             /\ x.iterations = d.iterations /\ x.starts = d.starts
             /\ SameTools(x, d) /\ SameRetries(x, d) /\ SamePlan(x, d)
             /\ x.puts = d.puts /\ ~x.ended /\ x.obliged = d.obliged
<1> DEFINE d == Digest(s)
           e == CallCompleted(call, outcome)
           x == Digested(d, e)
<1>1. e \in Events /\ e.type = "model-call-completed" /\ e.call = call
  BY DEF Events, AnswerEvents, CallCompleted
<1> HIDE DEF e
<1>2. Accepts(c, d, e)
  BY <1>1 DEF Accepts
<1>3. /\ x.begun = d.begun /\ x.answered = d.answered \cup {call}
      /\ x.iterations = d.iterations /\ x.starts = d.starts
      /\ SameTools(x, d) /\ SamePlan(x, d) /\ x.puts = d.puts /\ ~x.ended
      /\ x.obliged = d.obliged
  BY <1>1 DEF Digested, SameTools, SameActions, SamePlan, With, Plus, Tool,
              Reject, Mutates, PutOff, Replayed, Obliged
<1>4. SameRetries(x, d)
  <2>1. d.retriesOf \in [Owners \X Nat -> Nat]
    BY KeptConsistent DEF DigestTyped
  <2> QED
    BY <2>1, <1>1 DEF Digested, SameRetries, Retried, With, Plus
<1>5. Known(x, t)
  BY <1>3, KeptConsistent DEF Known, Resolved, SameTools, SameActions
<1>6. Kept(c, n, Append(s, e), t) /\ Digest(Append(s, e)) = x
  BY <1>1, <1>2, <1>5, KeptAppend
<1>7. x.begun \subseteq x.answered
  <2>1. \A y, z \in d.begun \ d.answered : y = z
    BY KeptConsistent DEF Consistent
  <2> QED
    BY <2>1, <1>3
<1> HIDE DEF x
<1> QED
  BY <1>1, <1>3, <1>4, <1>6, <1>7 DEF e

\* A decision, or a plan, is corrected within its budget.
LEMMA RecoveryKept ==
  ASSUME NEW c \in Setups, NEW n, NEW s, NEW t, Kept(c, n, s, t),
         NEW call \in Calls, NEW disposition \in {"retrying", "exhausted"},
         ~Digest(s).ended, call.iteration \in Digest(s).iterations,
         disposition = "retrying" =>
           Digest(s).retriesOf[<<call.owner, call.iteration>>] < MaxProtocolRecoveries
  PROVE  LET e == Recovery(call, disposition)
             x == Digest(Append(s, e))
             d == Digest(s)
             q == <<call.owner, call.iteration>>
         IN  /\ e \in Events /\ Kept(c, n, Append(s, e), t)
             /\ x.retries = IF disposition = "retrying" THEN d.retries + 1 ELSE d.retries
             /\ x.retriesOf = IF disposition = "retrying"
                              THEN [d.retriesOf EXCEPT ![q] = d.retriesOf[q] + 1] ELSE d.retriesOf
             /\ SameCalls(x, d) /\ SameTools(x, d) /\ SamePlan(x, d)
             /\ x.puts = d.puts /\ ~x.ended
<1> DEFINE d == Digest(s)
           e == Recovery(call, disposition)
           x == Digested(d, e)
           q == <<call.owner, call.iteration>>
<1>1. /\ e \in Events /\ e.type = "protocol-recovery" /\ e.disposition = disposition
      /\ e.owner = call.owner /\ e.iteration = call.iteration
      /\ q \in Owners \X Nat
  BY DEF Events, RecoveryEvents, Recovery, Calls
<1> HIDE DEF e
<1>2. Accepts(c, d, e)
  BY <1>1 DEF Accepts
<1>3. /\ x.retries = IF disposition = "retrying" THEN d.retries + 1 ELSE d.retries
      /\ SameCalls(x, d) /\ SameTools(x, d) /\ SamePlan(x, d) /\ x.puts = d.puts /\ ~x.ended
  BY <1>1 DEF Digested, SameCalls, SameTools, SameActions, SamePlan, With, Plus, Tool,
              Reject, Mutates, PutOff, Retried, Replayed
<1>4. x.retriesOf = IF disposition = "retrying"
                    THEN [d.retriesOf EXCEPT ![q] = d.retriesOf[q] + 1] ELSE d.retriesOf
  <2>1. d.retriesOf \in [Owners \X Nat -> Nat]
    BY KeptConsistent DEF DigestTyped
  <2>2. x.retriesOf = [p \in Owners \X Nat |->
                         Plus(d.retriesOf[p], Retried(e) /\ e.owner = p[1] /\ e.iteration = p[2])]
    BY DEF Digested
  <2>3. CASE disposition = "retrying"
    <3>1. \A p \in Owners \X Nat :
            (Retried(e) /\ e.owner = p[1] /\ e.iteration = p[2]) <=> p = q
      BY <1>1, <2>3 DEF Retried
    <3>2. \A p \in Owners \X Nat :
            Plus(d.retriesOf[p], Retried(e) /\ e.owner = p[1] /\ e.iteration = p[2])
              = IF p = q THEN d.retriesOf[q] + 1 ELSE d.retriesOf[p]
      BY <3>1 DEF Plus
    <3> QED
      BY <2>1, <2>2, <2>3, <3>2, <1>1
  <2>4. CASE disposition # "retrying"
    <3>1. \A p \in Owners \X Nat :
            Plus(d.retriesOf[p], Retried(e) /\ e.owner = p[1] /\ e.iteration = p[2])
              = d.retriesOf[p]
      BY <1>1, <2>4 DEF Retried, Plus
    <3> QED
      BY <2>1, <2>2, <2>4, <3>1
  <2> QED
    BY <2>3, <2>4
<1>5. Known(x, t)
  BY <1>3, KeptConsistent DEF Known, Resolved, SameTools, SameActions
<1>6. Kept(c, n, Append(s, e), t) /\ Digest(Append(s, e)) = x
  BY <1>1, <1>2, <1>5, KeptAppend
<1> HIDE DEF x
<1> QED
  BY <1>1, <1>3, <1>4, <1>6 DEF e

\* A finish is evaluated; it is put off within the budget.
LEMMA EvaluationKept ==
  ASSUME NEW c \in Setups, NEW n, NEW s, NEW t, Kept(c, n, s, t),
         NEW disposition \in {"accept", "terminal", "continue"}, ~Digest(s).ended,
         disposition = "continue" => Digest(s).since < MaxCompletionDeferrals
  PROVE  LET e == Evaluated(disposition)
             x == Digest(Append(s, e))
             d == Digest(s)
         IN  /\ e \in Events /\ Kept(c, n, Append(s, e), t)
             /\ x.puts = Plus(d.puts, disposition = "continue")
             /\ x.since = Plus(d.since, disposition = "continue")
             /\ SameCalls(x, d) /\ SameActions(x, d) /\ SameRetries(x, d) /\ SamePlan(x, d)
             /\ x.tools = d.tools /\ x.rejects = d.rejects /\ x.muts = d.muts
             /\ ~x.ended /\ x.obliged = d.obliged
<1> DEFINE d == Digest(s)
           e == Evaluated(disposition)
           x == Digested(d, e)
<1>1. e \in Events /\ e.type = "completion-evaluated" /\ e.disposition = disposition
  BY DEF Events, EvaluationEvents, Evaluated
<1> HIDE DEF e
<1>2. Accepts(c, d, e)
  BY <1>1 DEF Accepts
<1>3. /\ x.puts = Plus(d.puts, disposition = "continue")
      /\ x.since = Plus(d.since, disposition = "continue")
      /\ SameCalls(x, d) /\ SameActions(x, d) /\ SamePlan(x, d)
      /\ x.tools = d.tools /\ x.rejects = d.rejects /\ x.muts = d.muts
      /\ ~x.ended /\ x.obliged = d.obliged
  BY <1>1 DEF Digested, SameCalls, SameActions, SamePlan, With, Plus, Tool,
              Reject, Mutates, PutOff, Replayed, Obliged
<1>4. SameRetries(x, d)
  <2>1. d.retriesOf \in [Owners \X Nat -> Nat]
    BY KeptConsistent DEF DigestTyped
  <2> QED
    BY <2>1, <1>1 DEF Digested, SameRetries, Retried, With, Plus
<1>5. Known(x, t)
  BY <1>3, KeptConsistent DEF Known, Resolved, SameActions
<1>6. Kept(c, n, Append(s, e), t) /\ Digest(Append(s, e)) = x
  BY <1>1, <1>2, <1>5, KeptAppend
<1> HIDE DEF x
<1> QED
  BY <1>1, <1>3, <1>4, <1>6 DEF e

\* A tool call that was not made yet is dispatched.
LEMMA DispatchKept ==
  ASSUME NEW c \in Setups, NEW n, NEW s, NEW t, Kept(c, n, s, t),
         NEW action \in Actions, NEW kind \in Kinds, ~Digest(s).ended,
         action \notin Digest(s).sent, action.iteration \in Digest(s).iterations
  PROVE  LET e == Dispatched(action, kind)
             x == Digest(Append(s, e))
             d == Digest(s)
         IN  /\ e \in Events /\ Kept(c, n, Append(s, e), t)
             /\ x.sent = d.sent \cup {action} /\ x.done = d.done /\ x.saved = d.saved
             /\ action \notin d.done
             /\ SameCalls(x, d) /\ SameRetries(x, d) /\ SamePlan(x, d)
             /\ x.tools = d.tools /\ x.rejects = d.rejects /\ x.muts = d.muts
             /\ x.since = d.since /\ x.puts = d.puts /\ ~x.ended
<1> DEFINE d == Digest(s)
           e == Dispatched(action, kind)
           x == Digested(d, e)
<1>1. e \in Events /\ e.type = "tool-dispatched" /\ e.action = action
  BY DEF Events, DispatchEvents, Dispatched
<1> HIDE DEF e
<1>2. Accepts(c, d, e)
  BY <1>1 DEF Accepts
<1>3. /\ x.sent = d.sent \cup {action} /\ x.done = d.done /\ x.saved = d.saved
      /\ SameCalls(x, d) /\ SamePlan(x, d)
      /\ x.tools = d.tools /\ x.rejects = d.rejects /\ x.muts = d.muts
      /\ x.since = d.since /\ x.puts = d.puts /\ ~x.ended
  BY <1>1 DEF Digested, SameCalls, SamePlan, With, Plus, Tool,
              Reject, Mutates, PutOff, Replayed
<1>4. SameRetries(x, d)
  <2>1. d.retriesOf \in [Owners \X Nat -> Nat]
    BY KeptConsistent DEF DigestTyped
  <2> QED
    BY <2>1, <1>1 DEF Digested, SameRetries, Retried, With, Plus
<1>5. Known(x, t) /\ action \notin d.done
  <2>1. d.done \subseteq d.sent
    BY KeptConsistent DEF Consistent
  <2> QED
    BY <2>1, <1>3 DEF Known, Resolved
<1>6. Kept(c, n, Append(s, e), t) /\ Digest(Append(s, e)) = x
  BY <1>1, <1>2, <1>5, KeptAppend
<1> HIDE DEF x
<1> QED
  BY <1>1, <1>3, <1>4, <1>5, <1>6 DEF e

\* A call may have its result, and what that adds.
MayResult(d, action, r, observed, counts, t) ==
  /\ r.status # "rejected" => (counts <=> r.kind # "composition")
  /\ action \in d.sent \ d.done
  /\ counts /\ r.status # "rejected" => d.tools < MaxToolCalls
  /\ r.status = "ok" /\ r.facts = "verification" => observed = d.muts
  /\ d.sent \subseteq d.done \cup {action} =>
       t = Plus(d.muts, r.facts = "mutation" /\ r.status = "ok")

ResultMade(x, d, action, r, counts) ==
  /\ x.sent = d.sent /\ x.done = d.done \cup {action} /\ x.saved = d.saved
  /\ action \notin d.saved
  /\ x.tools = Plus(d.tools, counts /\ r.status # "rejected")
  /\ x.rejects = Plus(d.rejects, counts /\ r.status = "rejected")
  /\ x.muts = Plus(d.muts, r.facts = "mutation" /\ r.status = "ok")
  /\ x.since = 0
  /\ x.plan.revisions = d.plan.revisions
  /\ x.plan.step = Recorded(d.plan.step, d.plan.seen, r)
  /\ x.plan.seen = (d.plan.seen \/ r.facts = "retrieval")
  /\ SameCalls(x, d) /\ SameRetries(x, d)
  /\ x.puts = d.puts /\ ~x.ended

\* A dispatched tool call has its result.
LEMMA ResultKept ==
  ASSUME NEW c \in Setups, NEW n, NEW s, NEW t, Kept(c, n, s, t),
         NEW action \in Actions, NEW r \in ToolOutcomes, NEW observed \in Nat,
         NEW visible \in BOOLEAN, NEW counts \in BOOLEAN,
         ~Digest(s).ended, MayResult(Digest(s), action, r, observed, counts, t)
  PROVE  LET e == ToolResult(action, r, observed, visible, counts)
         IN  /\ e \in Events /\ Kept(c, n, Append(s, e), t)
             /\ ResultMade(Digest(Append(s, e)), Digest(s), action, r, counts)
<1> DEFINE d == Digest(s)
           e == ToolResult(action, r, observed, visible, counts)
           x == Digested(d, e)
<1>1. /\ e \in Events /\ e.type = "tool-result" /\ e.action = action /\ e.r = r
      /\ e.observed = observed /\ e.counts = counts
  <2>1. e \in ResultEvents
    BY DEF ResultEvents, ToolResult, MayResult
  <2> QED
    BY <2>1 DEF Events, ToolResult
<1> HIDE DEF e
<1>2. Accepts(c, d, e)
  BY <1>1 DEF Accepts, MayResult
<1>3. /\ x.sent = d.sent /\ x.done = d.done \cup {action} /\ x.saved = d.saved
      /\ x.tools = Plus(d.tools, counts /\ r.status # "rejected")
      /\ x.rejects = Plus(d.rejects, counts /\ r.status = "rejected")
      /\ x.muts = Plus(d.muts, r.facts = "mutation" /\ r.status = "ok")
      /\ x.since = 0 /\ SameCalls(x, d) /\ x.puts = d.puts /\ ~x.ended
  BY <1>1 DEF Digested, SameCalls, With, Plus, Tool, Reject, Mutates, PutOff
<1>4. SameRetries(x, d)
  <2>1. d.retriesOf \in [Owners \X Nat -> Nat]
    BY KeptConsistent DEF DigestTyped
  <2> QED
    BY <2>1, <1>1 DEF Digested, SameRetries, Retried, With, Plus
<1>5. Known(x, t) /\ action \notin d.saved
  <2>1. d.saved \subseteq d.done
    BY KeptConsistent DEF Consistent
  <2> QED
    BY <2>1, <1>3 DEF Known, Resolved, MayResult
<1>6. Kept(c, n, Append(s, e), t) /\ Digest(Append(s, e)) = x
  BY <1>1, <1>2, <1>5, KeptAppend
<1>7. /\ x.plan.revisions = d.plan.revisions
      /\ x.plan.step = Recorded(d.plan.step, d.plan.seen, r)
      /\ x.plan.seen = (d.plan.seen \/ r.facts = "retrieval")
  <2> DEFINE step == Recorded(d.plan.step, d.plan.seen, r)
  <2>1. x.plan = [d.plan EXCEPT !.step = step, !.seen = d.plan.seen \/ r.facts = "retrieval"]
    BY <1>1 DEF Digested, Replayed
  <2>2. d.plan \in Memories
    BY KeptConsistent DEF DigestTyped
  <2> HIDE DEF step
  <2>3. x.plan.revisions = d.plan.revisions /\ x.plan.step = step
        /\ x.plan.seen = (d.plan.seen \/ r.facts = "retrieval")
    BY <2>1, <2>2 DEF Memories
  <2> QED
    BY <2>3 DEF step
<1> HIDE DEF x
<1>8. ResultMade(x, d, action, r, counts)
  BY <1>3, <1>4, <1>5, <1>7 DEF ResultMade
<1> QED
  BY <1>1, <1>6, <1>8 DEF e

\* The worktree after a mutation is recorded.
LEMMA CheckpointKept ==
  ASSUME NEW c \in Setups, NEW n, NEW s, NEW t, Kept(c, n, s, t),
         NEW action \in Actions, NEW w \in Nat, ~Digest(s).ended,
         action \in Digest(s).done \ Digest(s).saved
  PROVE  LET e == WorktreeCheckpoint(action, w)
             x == Digest(Append(s, e))
             d == Digest(s)
         IN  /\ e \in Events /\ Kept(c, n, Append(s, e), t)
             /\ x.sent = d.sent /\ x.done = d.done /\ x.saved = d.saved \cup {action}
             /\ SameCalls(x, d) /\ SameRetries(x, d) /\ SamePlan(x, d)
             /\ x.tools = d.tools /\ x.rejects = d.rejects /\ x.muts = d.muts
             /\ x.since = d.since /\ x.puts = d.puts /\ ~x.ended
<1> DEFINE d == Digest(s)
           e == WorktreeCheckpoint(action, w)
           x == Digested(d, e)
<1>1. e \in Events /\ e.type = "worktree-checkpoint" /\ e.action = action
  BY DEF Events, CheckpointEvents, WorktreeCheckpoint
<1> HIDE DEF e
<1>2. Accepts(c, d, e)
  BY <1>1 DEF Accepts
<1>3. /\ x.sent = d.sent /\ x.done = d.done /\ x.saved = d.saved \cup {action}
      /\ SameCalls(x, d) /\ SamePlan(x, d)
      /\ x.tools = d.tools /\ x.rejects = d.rejects /\ x.muts = d.muts
      /\ x.since = d.since /\ x.puts = d.puts /\ ~x.ended
  BY <1>1 DEF Digested, SameCalls, SamePlan, With, Plus, Tool,
              Reject, Mutates, PutOff, Replayed
<1>4. SameRetries(x, d)
  <2>1. d.retriesOf \in [Owners \X Nat -> Nat]
    BY KeptConsistent DEF DigestTyped
  <2> QED
    BY <2>1, <1>1 DEF Digested, SameRetries, Retried, With, Plus
<1>5. Known(x, t)
  BY <1>3, KeptConsistent DEF Known, Resolved
<1>6. Kept(c, n, Append(s, e), t) /\ Digest(Append(s, e)) = x
  BY <1>1, <1>2, <1>5, KeptAppend
<1> HIDE DEF x
<1> QED
  BY <1>1, <1>3, <1>4, <1>6 DEF e

\* The plan is revised while revisions are left.
LEMMA PlanKept ==
  ASSUME NEW c \in Setups, NEW n, NEW s, NEW t, Kept(c, n, s, t),
         NEW plan \in Plans, NEW trigger \in Triggers, ~Digest(s).ended,
         Len(Digest(s).plan.revisions) < MaxPlanRevisions
  PROVE  LET e == PlanRevised(plan, trigger)
             x == Digest(Append(s, e))
             d == Digest(s)
             revisions == Append(d.plan.revisions, [plan |-> plan, trigger |-> trigger])
         IN  /\ e \in Events /\ Kept(c, n, Append(s, e), t)
             /\ x.plan.revisions = revisions
             /\ x.plan.step = Synchronized(d.plan.step, revisions)
             /\ x.plan.seen = d.plan.seen
             /\ SameCalls(x, d) /\ SameTools(x, d) /\ SameRetries(x, d)
             /\ x.puts = d.puts /\ ~x.ended
<1> DEFINE d == Digest(s)
           e == PlanRevised(plan, trigger)
           x == Digested(d, e)
           revisions == Append(d.plan.revisions, [plan |-> plan, trigger |-> trigger])
<1>1. e \in Events /\ e.type = "plan-revised" /\ e.plan = plan /\ e.trigger = trigger
  BY DEF Events, PlanEvents, PlanRevised
<1> HIDE DEF e
<1>2. Accepts(c, d, e)
  <2>1. d.revised < MaxPlanRevisions
    BY KeptConsistent DEF Consistent
  <2> QED
    BY <1>1, <2>1 DEF Accepts
<1>3. /\ SameCalls(x, d) /\ SameTools(x, d) /\ x.puts = d.puts /\ ~x.ended
  BY <1>1 DEF Digested, SameCalls, SameTools, SameActions, With, Plus, Tool,
              Reject, Mutates, PutOff
<1>4. SameRetries(x, d)
  <2>1. d.retriesOf \in [Owners \X Nat -> Nat]
    BY KeptConsistent DEF DigestTyped
  <2> QED
    BY <2>1, <1>1 DEF Digested, SameRetries, Retried, With, Plus
<1>5. Known(x, t)
  BY <1>3, KeptConsistent DEF Known, Resolved, SameTools, SameActions
<1>6. Kept(c, n, Append(s, e), t) /\ Digest(Append(s, e)) = x
  BY <1>1, <1>2, <1>5, KeptAppend
<1>7. /\ x.plan.revisions = revisions
      /\ x.plan.step = Synchronized(d.plan.step, revisions)
      /\ x.plan.seen = d.plan.seen
  <2> DEFINE step == Synchronized(d.plan.step, revisions)
  <2>1. x.plan = [d.plan EXCEPT !.revisions = revisions, !.step = step]
    BY <1>1 DEF Digested, Replayed
  <2>2. d.plan \in Memories
    BY KeptConsistent DEF DigestTyped
  <2> HIDE DEF step, revisions
  <2>3. x.plan.revisions = revisions /\ x.plan.step = step /\ x.plan.seen = d.plan.seen
    BY <2>1, <2>2 DEF Memories
  <2> QED
    BY <2>3 DEF step
<1> HIDE DEF x
<1> QED
  BY <1>1, <1>3, <1>4, <1>6, <1>7 DEF e

\* The attempt ends: every dispatched call has its result.
LEMMA EndKept ==
  ASSUME NEW c \in Setups, NEW n, NEW s, NEW t, Kept(c, n, s, t),
         NEW reason \in Reasons, ~Digest(s).ended, Resolved(Digest(s)),
         reason = "finished" /\ c.verification => Digest(s).obliged = "none"
  PROVE  Ended(reason) \in Events /\ Kept(c, n, Append(s, Ended(reason)), t)
<1> DEFINE d == Digest(s)
           e == Ended(reason)
           x == Digested(d, e)
<1>1. e \in Events /\ e.type = "attempt-ended" /\ e.reason = reason
  BY DEF Events, EndEvents, Ended, Reasons
<1> HIDE DEF e
<1>2. Accepts(c, d, e)
  BY <1>1 DEF Accepts
<1>3. SameActions(x, d) /\ x.muts = d.muts
  BY <1>1 DEF Digested, SameActions, With, Plus, Mutates
<1>5. Known(x, t)
  BY <1>3, KeptConsistent DEF Known, Resolved, SameActions
<1>6. Kept(c, n, Append(s, e), t)
  BY <1>1, <1>2, <1>5, KeptAppend
<1> QED
  BY <1>1, <1>6 DEF e
-----------------------------------------------------------------------------
(***************************************************************************)
(* The steps of the process.                                               *)
(***************************************************************************)
\* Record s, of which the events that are durable now are kept.
KeptHere(s, t) == Kept(setup, Len(events), s, t)

\* What holds where the process goes on.
LEMMA Ready ==
  ASSUME LoopInv, writing = <<>>, at \notin Gone
  PROVE  /\ setup \in Setups /\ events \in Seq(Events) /\ m \in Memories /\ tree \in Nat
         /\ KeptHere(events, tree) /\ Consistent(setup, Digest(events)) /\ DigestTyped(Digest(events))
         /\ Lives(setup, at, m, tree, Digest(events))
<1>1. events \o writing = events
  BY DEF LoopInv, Typed
<1>2. KeptHere(events, tree)
  BY <1>1 DEF LoopInv, KeptHere
<1>3. tree \in Nat
  BY PolicyAssumption DEF LoopInv, Typed
<1> QED
  BY <1>1, <1>2, <1>3, KeptConsistent DEF LoopInv, Typed, KeptHere

\* The invariant after a step that appends to the record.
MemoryFits(mem) ==
  /\ mem \in Memories /\ mem.recoveries <= MaxProtocolRecoveries
  /\ mem.iterations <= setup.maxIterations /\ mem.toolCalls <= MaxToolCalls

\* The process goes on with a record that is in order.
LEMMA GoesOn ==
  ASSUME LoopInv, Unmoved, NEW u, events \o writing' = u, writing' \in Seq(Events),
         KeptHere(u, tree'), MemoryFits(m'), tree' \in 0 .. MaxToolCalls,
         at' \in Awaiting \cup Between \cup Gone, at' # "start",
         at' \notin Gone => Lives(setup, at', m', tree', Digest(u))
  PROVE  LoopInv'
<1>1. setup' = setup /\ aborted' = aborted /\ events' = events /\ crashes' = crashes
  BY DEF Unmoved
<1>2. Typed'
  BY <1>1 DEF LoopInv, Typed, MemoryFits
<1>3. Kept(setup, Len(events), events \o writing, tree)'
  BY <1>1 DEF KeptHere
<1>4. (at \notin Gone => Lives(setup, at, m, tree, Digest(events \o writing)))'
  BY <1>1
<1> QED
  BY <1>2, <1>3, <1>4 DEF LoopInv

\* What the process remembers is within the policy.
LEMMA Fits == ASSUME LoopInv PROVE MemoryFits(m) /\ tree \in 0 .. MaxToolCalls
  BY DEF LoopInv, Typed, MemoryFits

\* Up to four events after a record.
LEMMA Appended ==
  ASSUME NEW s \in Seq(Events)
  PROVE  /\ s \o <<>> = s /\ <<>> \in Seq(Events)
         /\ \A e \in Events : s \o <<e>> = Append(s, e) /\ <<e>> \in Seq(Events)
         /\ \A e, f \in Events :
              s \o <<e, f>> = Append(Append(s, e), f) /\ <<e, f>> \in Seq(Events)
         /\ \A e, f, g \in Events :
              s \o <<e, f, g>> = Append(Append(Append(s, e), f), g) /\ <<e, f, g>> \in Seq(Events)
         /\ \A e, f, g, h \in Events :
              /\ s \o <<e, f, g, h>> = Append(Append(Append(Append(s, e), f), g), h)
              /\ <<e, f, g, h>> \in Seq(Events)
<1>1. s \o <<>> = s /\ <<>> \in Seq(Events)
  OBVIOUS
<1>2. \A e \in Events : s \o <<e>> = Append(s, e) /\ <<e>> \in Seq(Events)
  OBVIOUS
<1>3. \A e, f \in Events :
        s \o <<e, f>> = Append(Append(s, e), f) /\ <<e, f>> \in Seq(Events)
  OBVIOUS
<1>4. \A e, f, g \in Events :
        s \o <<e, f, g>> = Append(Append(Append(s, e), f), g) /\ <<e, f, g>> \in Seq(Events)
  OBVIOUS
<1>5. \A e, f, g, h \in Events :
        /\ s \o <<e, f, g, h>> = Append(Append(Append(Append(s, e), f), g), h)
        /\ <<e, f, g, h>> \in Seq(Events)
  OBVIOUS
<1> QED
  BY <1>1, <1>2, <1>3, <1>4, <1>5

\* A sequence of one or two events and one more.
LEMMA OneMore ==
  ASSUME NEW e \in Events, NEW f \in Events, NEW g \in Events
  PROVE  Append(<<e>>, f) = <<e, f>> /\ Append(<<e, f>>, g) = <<e, f, g>>
<1>1. Append(<<e>>, f) = <<e, f>>
  <2>1. /\ <<e>> \in Seq(Events) /\ <<e, f>> \in Seq(Events) /\ Append(<<e>>, f) \in Seq(Events)
        /\ Len(Append(<<e>>, f)) = 2 /\ Append(<<e>>, f)[1] = e /\ Append(<<e>>, f)[2] = f
    OBVIOUS
  <2>2. \A i \in 1 .. 2 : Append(<<e>>, f)[i] = <<e, f>>[i]
    BY <2>1
  <2> QED
    BY <2>1, <2>2, SeqEqual
<1>2. Append(<<e, f>>, g) = <<e, f, g>>
  <2>1. /\ <<e, f>> \in Seq(Events) /\ <<e, f, g>> \in Seq(Events)
        /\ Append(<<e, f>>, g) \in Seq(Events)
        /\ Len(Append(<<e, f>>, g)) = 3 /\ Append(<<e, f>>, g)[1] = e
        /\ Append(<<e, f>>, g)[2] = f /\ Append(<<e, f>>, g)[3] = g
    OBVIOUS
  <2>2. \A i \in 1 .. 3 : Append(<<e, f>>, g)[i] = <<e, f, g>>[i]
    BY <2>1
  <2> QED
    BY <2>1, <2>2, SeqEqual
<1> QED
  BY <1>1, <1>2

\* fail() after nothing, after one event, or after two.
LEMMA Fails0 ==
  ASSUME LoopInv, writing = <<>>, at \notin Gone \cup {"executing"},
         NEW reason \in Reasons, reason # "finished", Fail(<<>>, reason), Unmoved,
         UNCHANGED <<m, tree>>
  PROVE  LoopInv'
<1> DEFINE e == Ended(reason)
<1>1. /\ setup \in Setups /\ KeptHere(events, tree) /\ events \in Seq(Events)
      /\ ~Digest(events).ended /\ Resolved(Digest(events))
  BY Ready DEF Lives
<1>2. e \in Events /\ KeptHere(Append(events, e), tree)
  BY <1>1, EndKept DEF KeptHere
<1>3. writing' = <<e>> /\ at' = "over"
  BY DEF Fail, Go
<1> HIDE DEF e
<1>4. events \o writing' = Append(events, e) /\ writing' \in Seq(Events)
  BY <1>1, <1>2, <1>3, Appended
<1> QED
  BY <1>2, <1>3, <1>4, Fits, GoesOn DEF Gone

\* The attempt ends after one event more.
LEMMA Fails1 ==
  ASSUME LoopInv, writing = <<>>, NEW reason \in Reasons, NEW e \in Events, Fail(<<e>>, reason),
         Unmoved, UNCHANGED <<m, tree>>, KeptHere(Append(events, e), tree),
         ~Digest(Append(events, e)).ended, Resolved(Digest(Append(events, e))),
         reason = "finished" /\ setup.verification => Digest(Append(events, e)).obliged = "none"
  PROVE  LoopInv'
<1> DEFINE f == Ended(reason)
<1>1. setup \in Setups /\ events \in Seq(Events)
  BY DEF LoopInv, Typed
<1>2. f \in Events /\ KeptHere(Append(Append(events, e), f), tree)
  BY <1>1, EndKept DEF KeptHere
<1>3. writing' = Append(<<e>>, f) /\ at' = "over"
  BY DEF Fail, Go
<1> HIDE DEF f
<1>4. events \o writing' = Append(Append(events, e), f) /\ writing' \in Seq(Events)
  BY <1>1, <1>2, <1>3, OneMore, Appended
<1> QED
  BY <1>2, <1>3, <1>4, Fits, GoesOn DEF Gone

\* The attempt ends after two events more.
LEMMA Fails2 ==
  ASSUME LoopInv, writing = <<>>, NEW reason \in Reasons, NEW e \in Events, NEW f \in Events,
         Fail(<<e, f>>, reason), Unmoved, MemoryFits(m'), tree' = tree,
         KeptHere(Append(Append(events, e), f), tree),
         ~Digest(Append(Append(events, e), f)).ended,
         Resolved(Digest(Append(Append(events, e), f))),
         reason = "finished" /\ setup.verification =>
           Digest(Append(Append(events, e), f)).obliged = "none"
  PROVE  LoopInv'
<1> DEFINE g == Ended(reason)
           u == Append(Append(events, e), f)
<1>1. setup \in Setups /\ events \in Seq(Events)
  BY DEF LoopInv, Typed
<1>2. g \in Events /\ KeptHere(Append(u, g), tree)
  BY <1>1, EndKept DEF KeptHere
<1>3. writing' = Append(<<e, f>>, g) /\ at' = "over"
  BY DEF Fail, Go
<1> HIDE DEF g
<1>4. events \o writing' = Append(u, g) /\ writing' \in Seq(Events)
  BY <1>1, <1>2, <1>3, OneMore, Appended
<1> QED
  BY <1>2, <1>3, <1>4, Fits, GoesOn DEF Gone

\* The answer of the call that is open.
LEMMA AnswersOpen ==
  ASSUME LoopInv, writing = <<>>, at \in Deciding,
         NEW outcome \in {"succeeded", "failed", "interrupted"}
  PROVE  LET s == Append(events, Completed(outcome))
             x == Digest(s)
             d == Digest(events)
         IN  /\ Completed(outcome) \in Events /\ KeptHere(s, tree)
             /\ x.begun \subseteq x.answered /\ x.answered \subseteq x.begun
             /\ x.iterations = d.iterations /\ x.starts = d.starts
             /\ SameTools(x, d) /\ SameRetries(x, d) /\ SamePlan(x, d)
             /\ x.puts = d.puts /\ ~x.ended /\ x.obliged = d.obliged
             /\ Resolved(x)
<1> DEFINE call == CallId(Owner, m.iterations, m.modelCalls)
           d == Digest(events)
<1>1. /\ setup \in Setups /\ KeptHere(events, tree) /\ m \in Memories
      /\ Lives(setup, at, m, tree, d)
  BY Ready DEF Deciding, Gone
<1>2. call \in Calls
  BY <1>1 DEF CallId, Calls, Owner, Owners, Memories
<1>3. d.begun \ d.answered = {call} /\ ~d.ended /\ Resolved(d)
  BY <1>1 DEF Lives, OpenCalls, Owner, Deciding, Going
<1> HIDE DEF call
<1> DEFINE s == Append(events, CallCompleted(call, outcome))
           x == Digest(s)
<1>4. /\ CallCompleted(call, outcome) \in Events /\ KeptHere(s, tree)
      /\ x.begun = d.begun /\ x.answered = d.answered \cup {call}
      /\ x.begun \subseteq x.answered
      /\ x.iterations = d.iterations /\ x.starts = d.starts
      /\ SameTools(x, d) /\ SameRetries(x, d) /\ SamePlan(x, d)
      /\ x.puts = d.puts /\ ~x.ended /\ x.obliged = d.obliged
  BY <1>1, <1>2, <1>3, AnswerKept DEF KeptHere
<1>5. Resolved(x)
  BY <1>3, <1>4 DEF Resolved, SameTools, SameActions
<1>6. d.answered \subseteq d.begun
  BY <1>1, KeptConsistent DEF KeptHere, Consistent
<1>7. x.answered \subseteq x.begun
  BY <1>3, <1>4, <1>6
<1> QED
  BY <1>4, <1>5, <1>7 DEF Completed, call
-----------------------------------------------------------------------------
(***************************************************************************)
(* One lemma per step of the process.                                      *)
(***************************************************************************)
\* A call that is made now was not made before.
LEMMA NewCall ==
  ASSUME NEW c, NEW d, Consistent(c, d), NEW call \in Calls, call.ordinal = d.starts + 1
  PROVE  call \notin d.begun /\ call \notin d.answered
  BY DEF Consistent, DigestTyped

\* Nothing of an iteration that has not begun is in the record.
LEMMA NewIteration ==
  ASSUME NEW c, NEW d, Consistent(c, d), NEW i \in Nat, i \notin d.iterations
  PROVE  /\ \A a \in d.sent : a.iteration # i
         /\ \A o \in Owners : d.retriesOf[<<o, i>>] = 0
<1>1. \A a \in d.sent : a.iteration # i
  BY DEF Consistent
<1>2. ASSUME NEW o \in Owners PROVE d.retriesOf[<<o, i>>] = 0
  <2>1. <<o, i>> \in Owners \X Nat /\ <<o, i>>[2] = i
    OBVIOUS
  <2>2. i \notin d.corrected
    BY DEF Consistent
  <2> QED
    BY <2>1, <2>2 DEF Consistent
<1> QED
  BY <1>1, <1>2

\* The executor's step is in step.
LEMMA StaysInStep ==
  ASSUME NEW plan, InStep(plan)
  PROVE  Synchronized(plan.step, plan.revisions) = plan.step
  BY DEF InStep, Synchronized

\* An iteration asks the executor for a decision.
LEMMA StartIterationInv == ASSUME LoopInv, StartIteration PROVE LoopInv'
<1> DEFINE call == CallId("executor", m.iterations + 1, m.modelCalls + 1)
           e == CallStarted(call)
           d == Digest(events)
           s == Append(events, e)
           x == Digest(s)
<1>1. /\ writing = <<>> /\ at = "iterate" /\ at' = "deciding" /\ writing' = <<e>> /\ Unmoved
      /\ tree' = tree /\ m.iterations < setup.maxIterations
      /\ m' = [m EXCEPT !.iterations = m.iterations + 1, !.modelCalls = m.modelCalls + 1,
                        !.recoveries = 0, !.step = Synchronized(m.step, m.revisions)]
  BY DEF StartIteration, Go
<1>2. /\ setup \in Setups /\ events \in Seq(Events) /\ m \in Memories /\ tree \in Nat
      /\ KeptHere(events, tree) /\ Consistent(setup, d) /\ DigestTyped(d)
      /\ Lives(setup, "iterate", m, tree, d)
  BY <1>1, Ready DEF Gone
<1>3. /\ ~d.ended /\ Resolved(d) /\ tree = d.muts
      /\ d.iterations = 1 .. m.iterations /\ d.begun \subseteq d.answered
      /\ Counters("iterate", m, d) /\ Corrections("iterate", m, d)
      /\ PlanKnown("iterate", setup, m, d) /\ AtRestNow("iterate", m)
  BY <1>2 DEF Lives, Going, OpenCalls
<1>4. call \in Calls /\ call.owner = "executor" /\ call.iteration = m.iterations + 1
      /\ call.ordinal = d.starts + 1
  BY <1>2, <1>3 DEF CallId, Calls, Owners, Memories, Counters
<1>5. setup.maxIterations \in Nat /\ m.iterations \in Nat
  BY <1>2, SetupsAssumption DEF Memories
<1> HIDE DEF call
<1>6. /\ e \in Events /\ KeptHere(s, tree)
      /\ x.begun = d.begun \cup {call} /\ x.answered = d.answered
      /\ x.iterations = d.iterations \cup {m.iterations + 1}
      /\ x.starts = d.starts + 1
      /\ SameTools(x, d) /\ SameRetries(x, d) /\ SamePlan(x, d)
      /\ x.puts = d.puts /\ ~x.ended
  <2>1. 1 .. (call.iteration - 1) \subseteq d.iterations /\ call.iteration \in 1 .. setup.maxIterations
    BY <1>1, <1>3, <1>4, <1>5
  <2>2. Kept(setup, Len(events), events, tree)
    BY <1>2 DEF KeptHere
  <2>3. MayCall(setup, d, call)
    BY <2>1, <1>3, <1>4 DEF MayCall
  <2>4. e \in Events /\ Kept(setup, Len(events), s, tree) /\ CallMade(x, d, call)
    BY <2>2, <2>3, <1>2, <1>3, <1>4, CallKept
  <2> HIDE DEF e, x
  <2> QED
    BY <2>4, <1>4 DEF KeptHere, CallMade
<1>7. call \notin d.begun /\ call \notin d.answered /\ m.iterations + 1 \notin d.iterations
  BY <1>2, <1>3, <1>4, <1>5, NewCall
<1>8. /\ \A a \in d.sent : a.iteration # m.iterations + 1
      /\ d.retriesOf[<<"executor", m.iterations + 1>>] = 0
      /\ d.retriesOf[<<"planner", m.iterations + 1>>] = 0
  BY <1>2, <1>5, <1>7, NewIteration DEF Owners
<1> DEFINE step == Synchronized(m.step, m.revisions)
<1>9. step \in PlanSteps
  BY <1>2, SynchronizedType DEF Memories
<1> HIDE DEF step
<1>10. /\ m' \in Memories /\ m'.iterations = m.iterations + 1 /\ m'.modelCalls = m.modelCalls + 1
       /\ m'.recoveries = 0 /\ m'.step = step /\ m'.toolCalls = m.toolCalls
       /\ m'.rejectedToolCalls = m.rejectedToolCalls
       /\ m'.protocolRecoveries = m.protocolRecoveries
       /\ m'.completionDeferrals = m.completionDeferrals /\ m'.consecutive = m.consecutive
       /\ m'.requests = m.requests /\ m'.index = m.index /\ m'.result = m.result
       /\ m'.terminal = m.terminal /\ m'.trigger = m.trigger /\ m'.revisions = m.revisions
       /\ m'.seen = m.seen
  <2>1. m' = [m EXCEPT !.iterations = m.iterations + 1, !.modelCalls = m.modelCalls + 1,
                       !.recoveries = 0, !.step = step]
    BY <1>1 DEF step
  <2> DEFINE i == m.iterations + 1
             j == m.modelCalls + 1
             z == 0
  <2>2. i \in Nat /\ j \in Nat /\ z \in Nat
    BY <1>2 DEF Memories
  <2> HIDE DEF i, j, z
  <2>3. [m EXCEPT !.iterations = i, !.modelCalls = j, !.recoveries = z, !.step = step] \in Memories
    BY <1>2, <1>9, <2>2 DEF Memories
  <2> QED
    BY <2>1, <2>3, <1>2 DEF Memories, i, j, z
<1>11. MemoryFits(m') /\ tree' \in 0 .. MaxToolCalls
  BY <1>1, <1>5, <1>10, Fits, PolicyAssumption DEF MemoryFits
<1>12. x.iterations = 1 .. m'.iterations /\ x.begun \ x.answered = {call}
  BY <1>3, <1>5, <1>6, <1>7, <1>10
<1>13. ToolCallsMade("deciding", m', x)
  BY <1>8, <1>6, <1>10 DEF ToolCallsMade, SameTools, SameActions
<1>14. Counters("deciding", m', x)
  BY <1>3, <1>6, <1>10, <1>12 DEF Counters, SameTools, SameRetries, SamePlan
<1>15. Corrections("deciding", m', x)
  BY <1>8, <1>6, <1>10, <1>5, PolicyAssumption DEF Corrections, SameRetries, Going
<1>16. PlanKnown("deciding", setup, m', x)
  <2>1. d.plan.step = m.step /\ d.plan.revisions = m.revisions => step = m.step
    BY <1>2, StaysInStep DEF Consistent, step
  <2> QED
    BY <2>1, <1>3, <1>6, <1>10 DEF PlanKnown, SamePlan, Counters
<1>17. AtRestNow("deciding", m')
  BY <1>3, <1>10 DEF AtRestNow, Going
<1>18. OpenCalls("deciding", m') = {call}
  BY <1>10 DEF OpenCalls, call
<1>19. Lives(setup, "deciding", m', tree, x)
  BY <1>3, <1>6, <1>12, <1>13, <1>14, <1>15, <1>16, <1>17, <1>18
     DEF Lives, Resolved, SameTools, SameActions, Going
<1> HIDE DEF e, x
<1>20. events \o writing' = s /\ writing' \in Seq(Events)
  BY <1>1, <1>2, <1>6, Appended
<1> QED
  BY <1>1, <1>6, <1>11, <1>19, <1>20, GoesOn DEF x, Awaiting, Gone

\* What is remembered after an answer that was dealt with.
LEMMA AtRestType ==
  ASSUME NEW mem \in Memories
  PROVE  LET new == AtRest(mem)
         IN  /\ new \in Memories /\ new.iterations = mem.iterations
             /\ new.modelCalls = mem.modelCalls
             /\ new.recoveries = 0 /\ new.step = mem.step /\ new.toolCalls = mem.toolCalls
             /\ new.rejectedToolCalls = mem.rejectedToolCalls
             /\ new.protocolRecoveries = mem.protocolRecoveries
             /\ new.completionDeferrals = mem.completionDeferrals
             /\ new.consecutive = mem.consecutive
             /\ new.requests = <<>> /\ new.index = 0 /\ new.result = mem.result
             /\ new.terminal = mem.terminal /\ new.trigger = "none"
             /\ new.revisions = mem.revisions /\ new.seen = mem.seen
<1> DEFINE z == 0
           none == "none"
           empty == <<>>
<1>1. z \in Nat /\ none \in Triggers /\ empty \in Seq(Kinds)
  BY DEF Triggers
<1>2. AtRest(mem) = [mem EXCEPT !.trigger = none, !.requests = empty, !.index = z, !.recoveries = z]
  BY DEF AtRest
<1> HIDE DEF z, none, empty
<1>3. AtRest(mem) \in Memories
  BY <1>1, <1>2 DEF Memories
<1>4. /\ AtRest(mem).recoveries = z /\ AtRest(mem).index = z /\ AtRest(mem).requests = empty
      /\ AtRest(mem).trigger = none
  BY <1>2 DEF Memories
<1>5. /\ AtRest(mem).iterations = mem.iterations
      /\ AtRest(mem).modelCalls = mem.modelCalls
      /\ AtRest(mem).step = mem.step /\ AtRest(mem).toolCalls = mem.toolCalls
      /\ AtRest(mem).rejectedToolCalls = mem.rejectedToolCalls
      /\ AtRest(mem).protocolRecoveries = mem.protocolRecoveries
      /\ AtRest(mem).completionDeferrals = mem.completionDeferrals
      /\ AtRest(mem).consecutive = mem.consecutive
      /\ AtRest(mem).result = mem.result
      /\ AtRest(mem).terminal = mem.terminal
      /\ AtRest(mem).revisions = mem.revisions /\ AtRest(mem).seen = mem.seen
  BY <1>2 DEF Memories
<1> QED
  BY <1>3, <1>4, <1>5 DEF z, none, empty

\* The attempt ends.
LEMMA IterationLimitInv == ASSUME LoopInv, IterationLimit PROVE LoopInv'
  BY Fails0 DEF IterationLimit, Fail, Go, Gone, Reasons

\* The attempt ends when what was cancelled has ended.
LEMMA EndTimedOutInv == ASSUME LoopInv, EndTimedOut PROVE LoopInv'
  BY Fails0 DEF EndTimedOut, Fail, Go, Gone, Reasons

\* The attempt ends after a batch that was refused.
LEMMA AllRefusedInv == ASSUME LoopInv, AllRefused PROVE LoopInv'
  BY Fails0 DEF AllRefused, Fail, Go, Gone, Reasons

\* The attempt ends on a repeated pattern.
LEMMA EndStuckInv == ASSUME LoopInv, EndStuck PROVE LoopInv'
  BY Fails0 DEF EndStuck, Fail, Go, Gone, Reasons

\* The attempt ends on one rejected call too many.
LEMMA SettleLimitInv == ASSUME LoopInv, SettleLimit PROVE LoopInv'
<1> DEFINE reason == IF m.terminal # "none" THEN m.terminal ELSE "rejected-tool-limit"
<1>1. writing = <<>> /\ at = "settling" /\ Fail(<<>>, reason) /\ Unmoved /\ UNCHANGED <<m, tree>>
  BY DEF SettleLimit, Fail, Go
<1>2. reason \in Reasons /\ reason # "finished"
  <2>1. m \in Memories
    BY DEF LoopInv, Typed
  <2> QED
    BY <2>1 DEF Memories, Reasons
<1> HIDE DEF reason
<1> QED
  BY <1>1, <1>2, Fails0 DEF Gone

\* The signal is seen.
LEMMA TimeOutInv == ASSUME LoopInv, TimeOut PROVE LoopInv'
<1>1. /\ writing = <<>> /\ at \in {"iterate", "settling"} /\ at' = "cancelling" /\ writing' = <<>>
      /\ Unmoved /\ UNCHANGED <<m, tree>>
  BY DEF TimeOut, SeesAbort, Go
<1>2. /\ events \in Seq(Events) /\ KeptHere(events, tree)
      /\ Lives(setup, at, m, tree, Digest(events))
  BY <1>1, Ready DEF Gone
<1>3. Lives(setup, "cancelling", m, tree, Digest(events))
  BY <1>1, <1>2 DEF Lives, Going
<1>4. events \o writing' = events /\ writing' \in Seq(Events)
  BY <1>1, <1>2, Appended
<1> QED
  BY <1>1, <1>2, <1>3, <1>4, Fits, GoesOn DEF Awaiting

\* The run throws: the record stays as it is.
LEMMA TerminationUnconfirmedInv == ASSUME LoopInv, TerminationUnconfirmed PROVE LoopInv'
<1>1. /\ writing = <<>> /\ at \in {"cancelling", "executing"} /\ at' = "threw" /\ writing' = <<>>
      /\ m' = Fresh /\ aborted' = FALSE /\ UNCHANGED <<setup, events, tree, crashes>>
  BY DEF TerminationUnconfirmed, Go
<1>2. Kept(setup, Len(events), events \o writing, tree)'
  BY <1>1 DEF LoopInv
<1>3. /\ m' \in Memories /\ m'.recoveries <= MaxProtocolRecoveries
      /\ m'.iterations <= setup.maxIterations /\ m'.toolCalls <= MaxToolCalls
  <2>1. setup.maxIterations \in Nat
    BY SetupsAssumption DEF LoopInv, Typed
  <2> QED
    BY <1>1, <2>1, FreshType, PolicyAssumption DEF Fresh
<1>4. Typed'
  BY <1>1, <1>3 DEF LoopInv, Typed, Gone
<1> QED
  BY <1>1, <1>2, <1>4 DEF LoopInv, Gone

\* The calls of an answer were all carried out.
LEMMA BatchDoneInv == ASSUME LoopInv, BatchDone PROVE LoopInv'
<1> DEFINE d == Digest(events)
<1>1. /\ writing = <<>> /\ at = "tools" /\ at' = "iterate" /\ writing' = <<>>
      /\ Unmoved /\ tree' = tree /\ m' = AtRest(m) /\ m.requests = <<>> /\ m.trigger = "none"
  BY DEF BatchDone, Go
<1>2. /\ setup \in Setups /\ events \in Seq(Events) /\ m \in Memories /\ KeptHere(events, tree)
      /\ Lives(setup, "tools", m, tree, d)
  BY <1>1, Ready DEF Gone
<1>3. /\ ~d.ended /\ Resolved(d) /\ tree = d.muts
      /\ d.iterations = 1 .. m.iterations /\ d.begun \ d.answered = {}
      /\ Counters("tools", m, d) /\ Corrections("tools", m, d) /\ ToolCallsMade("tools", m, d)
      /\ PlanKnown("tools", setup, m, d) /\ AtRestNow("tools", m)
  BY <1>2 DEF Lives, Going, OpenCalls
<1>4. /\ m' \in Memories /\ m'.iterations = m.iterations /\ m'.modelCalls = m.modelCalls
      /\ m'.recoveries = 0 /\ m'.step = m.step /\ m'.toolCalls = m.toolCalls
      /\ m'.rejectedToolCalls = m.rejectedToolCalls
      /\ m'.protocolRecoveries = m.protocolRecoveries
      /\ m'.completionDeferrals = m.completionDeferrals /\ m'.consecutive = m.consecutive
      /\ m'.requests = <<>> /\ m'.index = 0 /\ m'.result = m.result
      /\ m'.terminal = m.terminal /\ m'.trigger = "none" /\ m'.revisions = m.revisions
      /\ m'.seen = m.seen
  BY <1>1, <1>2, AtRestType
<1>5. MemoryFits(m') /\ tree' \in 0 .. MaxToolCalls
  BY <1>1, <1>4, Fits, PolicyAssumption DEF MemoryFits
<1>6. ToolCallsMade("iterate", m', d)
  BY DEF ToolCallsMade
<1>7. d.since = 0
  BY <1>1, <1>3 DEF ToolCallsMade
<1>8. Counters("iterate", m', d)
  BY <1>3, <1>4, <1>7 DEF Counters
<1>9. Corrections("iterate", m', d)
  BY <1>4, PolicyAssumption DEF Corrections, Going
<1>10. PlanKnown("iterate", setup, m', d)
  BY <1>3, <1>4 DEF PlanKnown
<1>11. AtRestNow("iterate", m')
  BY <1>3, <1>4 DEF AtRestNow, Going
<1>12. Lives(setup, "iterate", m', tree, d)
  BY <1>3, <1>4, <1>6, <1>8, <1>9, <1>10, <1>11 DEF Lives, Going, OpenCalls
<1>13. events \o writing' = events /\ writing' \in Seq(Events)
  BY <1>1, <1>2, Appended
<1> QED
  BY <1>1, <1>2, <1>5, <1>12, <1>13, GoesOn DEF Between, Gone

\* The provider fails, or is interrupted, or answers without a tool call.
LEMMA AnswerEnds ==
  ASSUME LoopInv, at \in Deciding, NEW outcome \in {"succeeded", "failed", "interrupted"},
         NEW reason \in Reasons, reason # "finished",
         Fail(<<Completed(outcome)>>, reason), Unmoved, UNCHANGED <<m, tree>>
  PROVE  LoopInv'
<1> DEFINE e == Completed(outcome)
<1>1. writing = <<>>
  BY DEF Fail, Go
<1>2. /\ e \in Events /\ KeptHere(Append(events, e), tree)
      /\ ~Digest(Append(events, e)).ended /\ Resolved(Digest(Append(events, e)))
  BY <1>1, AnswersOpen
<1>3. Fail(<<e>>, reason)
  OBVIOUS
<1> HIDE DEF e
<1> QED
  BY <1>1, <1>2, <1>3, Fails1

\* The provider fails.
LEMMA ProviderFailsInv == ASSUME LoopInv, ProviderFails PROVE LoopInv'
  BY AnswerEnds DEF ProviderFails, Deciding, Reasons

\* The answer holds no tool call.
LEMMA DecideNothingInv ==
  ASSUME LoopInv, NEW reason \in {"model-failed", "invalid-decision"}, DecideNothing(reason)
  PROVE  LoopInv'
  BY AnswerEnds DEF DecideNothing, Deciding, Reasons

\* The deadline interrupts a call.
LEMMA InterruptedInv == ASSUME LoopInv, Interrupted PROVE LoopInv'
<1> DEFINE e == Completed("interrupted")
           s == Append(events, e)
<1>1. /\ writing = <<>> /\ at \in Deciding /\ at' = "cancelling" /\ writing' = <<e>>
      /\ Unmoved /\ UNCHANGED <<m, tree>>
  BY DEF Interrupted, Go, Deciding
<1>2. /\ e \in Events /\ KeptHere(s, tree) /\ ~Digest(s).ended /\ Resolved(Digest(s))
      /\ SameTools(Digest(s), Digest(events))
  BY <1>1, AnswersOpen
<1>3. events \in Seq(Events) /\ tree = Digest(events).muts
  BY <1>1, Ready DEF Lives, Deciding, Gone
<1>4. Lives(setup, "cancelling", m, tree, Digest(s))
  BY <1>2, <1>3 DEF Lives, Going, SameTools
<1> HIDE DEF e
<1>5. events \o writing' = s /\ writing' \in Seq(Events)
  BY <1>1, <1>2, <1>3, Appended
<1> QED
  BY <1>1, <1>2, <1>4, <1>5, Fits, GoesOn DEF Awaiting

\* A finish that is accepted, or one too many that is not.
LEMMA FinishEnds ==
  ASSUME LoopInv, at = "deciding", NEW disposition \in {"accept", "terminal"},
         NEW reason \in Reasons,
         Fail(<<Completed("succeeded"), Evaluated(disposition)>>, reason),
         Unmoved, UNCHANGED <<m, tree>>,
         reason = "finished" /\ setup.verification => Digest(events).obliged = "none"
  PROVE  LoopInv'
<1> DEFINE e == Completed("succeeded")
           f == Evaluated(disposition)
           d == Digest(events)
           s == Append(events, e)
           x == Digest(s)
           y == Digest(Append(s, f))
<1>1. writing = <<>> /\ at \in Deciding /\ setup \in Setups
  BY DEF Fail, Go, Deciding, LoopInv, Typed
<1>2. /\ e \in Events /\ KeptHere(s, tree) /\ ~x.ended /\ Resolved(x) /\ x.obliged = d.obliged
  BY <1>1, AnswersOpen
<1>3. Fail(<<e, f>>, reason)
  OBVIOUS
<1> HIDE DEF e
<1>4. /\ f \in Events /\ KeptHere(Append(s, f), tree) /\ SameActions(y, x)
      /\ ~y.ended /\ y.obliged = x.obliged
  BY <1>1, <1>2, EvaluationKept DEF KeptHere
<1>5. Resolved(y)
  BY <1>2, <1>4 DEF Resolved, SameActions
<1>6. MemoryFits(m') /\ tree' = tree
  BY Fits
<1> HIDE DEF f
<1> QED
  BY <1>1, <1>2, <1>3, <1>4, <1>5, <1>6, Fails2

\* A finish is accepted only without an obligation.
LEMMA FinishAcceptedInv == ASSUME LoopInv, FinishAccepted PROVE LoopInv'
<1>1. at = "deciding" /\ Fail(<<Completed("succeeded"), Evaluated("accept")>>, "finished")
      /\ Unmoved /\ UNCHANGED <<m, tree>> /\ Disposition = "accept"
  BY DEF FinishAccepted
<1>2. setup.verification => Digest(events).obliged = "none"
  <2>1. IncompleteReason = "none"
    BY <1>1 DEF Disposition
  <2>2. CompletionCheckpoint = "none"
    BY <2>1 DEF IncompleteReason
  <2> QED
    BY <2>2 DEF CompletionCheckpoint, Digest, Obligation
<1> QED
  BY <1>1, <1>2, FinishEnds DEF Reasons

\* A finish is one too many.
LEMMA FinishTerminalInv == ASSUME LoopInv, FinishTerminal PROVE LoopInv'
  BY FinishEnds DEF FinishTerminal, Reasons

\* A finish is put off.
LEMMA FinishDeferredInv == ASSUME LoopInv, FinishDeferred PROVE LoopInv'
<1> DEFINE e == Completed("succeeded")
           f == Evaluated("continue")
           d == Digest(events)
           s == Append(events, e)
           x == Digest(s)
           u == Append(s, f)
           y == Digest(u)
<1>1. /\ writing = <<>> /\ at = "deciding" /\ at' = "iterate" /\ writing' = <<e, f>> /\ Unmoved
      /\ tree' = tree /\ Disposition = "continue"
      /\ m' = [m EXCEPT !.consecutive = m.consecutive + 1,
                        !.completionDeferrals = m.completionDeferrals + 1]
  BY DEF FinishDeferred, Go
<1>2. /\ setup \in Setups /\ events \in Seq(Events) /\ m \in Memories
      /\ Lives(setup, "deciding", m, tree, d)
  BY <1>1, Ready DEF Gone
<1>3. /\ tree = d.muts /\ d.iterations = 1 .. m.iterations
      /\ Counters("deciding", m, d) /\ Corrections("deciding", m, d)
      /\ PlanKnown("deciding", setup, m, d) /\ AtRestNow("deciding", m)
  BY <1>2 DEF Lives, Going
<1>4. /\ e \in Events /\ KeptHere(s, tree) /\ x.begun \subseteq x.answered
      /\ x.iterations = d.iterations /\ x.starts = d.starts
      /\ SameTools(x, d) /\ SameRetries(x, d) /\ SamePlan(x, d)
      /\ x.puts = d.puts /\ ~x.ended /\ Resolved(x)
  BY <1>1, AnswersOpen DEF Deciding
<1>5. /\ f \in Events /\ KeptHere(u, tree)
      /\ y.puts = x.puts + 1 /\ y.since = x.since + 1
      /\ SameCalls(y, x) /\ SameActions(y, x) /\ SameRetries(y, x) /\ SamePlan(y, x)
      /\ y.tools = x.tools /\ y.rejects = x.rejects /\ y.muts = x.muts /\ ~y.ended
  <2>1. x.since < MaxCompletionDeferrals
    <3>1. ~(m.consecutive + 1 > MaxCompletionDeferrals)
      BY <1>1 DEF Disposition
    <3>2. m.consecutive = x.since /\ m.consecutive \in Nat
      BY <1>2, <1>3, <1>4 DEF Counters, SameTools, Memories
    <3> QED
      BY <3>1, <3>2, PolicyAssumption
  <2> HIDE DEF e
  <2> QED
    BY <1>2, <1>4, <2>1, EvaluationKept DEF KeptHere, Plus
<1>6. /\ m' \in Memories /\ m'.iterations = m.iterations /\ m'.modelCalls = m.modelCalls
      /\ m'.recoveries = m.recoveries /\ m'.step = m.step /\ m'.toolCalls = m.toolCalls
      /\ m'.rejectedToolCalls = m.rejectedToolCalls
      /\ m'.protocolRecoveries = m.protocolRecoveries
      /\ m'.completionDeferrals = m.completionDeferrals + 1
      /\ m'.consecutive = m.consecutive + 1
      /\ m'.requests = m.requests /\ m'.index = m.index /\ m'.result = m.result
      /\ m'.terminal = m.terminal /\ m'.trigger = m.trigger /\ m'.revisions = m.revisions
      /\ m'.seen = m.seen
  <2> DEFINE i == m.consecutive + 1
             j == m.completionDeferrals + 1
  <2>1. i \in Nat /\ j \in Nat
    BY <1>2 DEF Memories
  <2>2. m' = [m EXCEPT !.consecutive = i, !.completionDeferrals = j]
    BY <1>1
  <2> HIDE DEF i, j
  <2>3. m' \in Memories
    BY <1>2, <2>1, <2>2 DEF Memories
  <2> QED
    BY <2>2, <2>3, <1>2 DEF Memories, i, j
<1>7. MemoryFits(m') /\ tree' \in 0 .. MaxToolCalls
  BY <1>1, <1>6, Fits DEF MemoryFits
<1>8. Counters("iterate", m', y)
  BY <1>3, <1>4, <1>5, <1>6 DEF Counters, SameTools, SameCalls, SameRetries, SamePlan
<1>9. Corrections("iterate", m', y) /\ ToolCallsMade("iterate", m', y)
  BY <1>3, <1>6 DEF Corrections, Going, ToolCallsMade
<1>10. PlanKnown("iterate", setup, m', y)
  BY <1>3, <1>4, <1>5, <1>6 DEF PlanKnown, SamePlan
<1>11. AtRestNow("iterate", m')
  BY <1>3, <1>6 DEF AtRestNow, Going
<1>12. Resolved(y) /\ y.begun \ y.answered = {} /\ y.iterations = 1 .. m'.iterations
       /\ y.muts = tree
  BY <1>3, <1>4, <1>5, <1>6 DEF Resolved, SameActions, SameCalls, SameTools
<1>13. Lives(setup, "iterate", m', tree, y)
  BY <1>5, <1>8, <1>9, <1>10, <1>11, <1>12 DEF Lives, Going, OpenCalls
<1> HIDE DEF e, f, y
<1>14. events \o writing' = u /\ writing' \in Seq(Events)
  BY <1>1, <1>2, <1>4, <1>5, Appended
<1> QED
  BY <1>1, <1>5, <1>7, <1>13, <1>14, GoesOn DEF y, Between, Gone

\* The tool calls of an answer are carried out, or refused together.
LEMMA DecideToolsInv ==
  ASSUME LoopInv, NEW requests \in Seq(Kinds), requests # <<>>, DecideTools(requests)
  PROVE  LoopInv'
<1> DEFINE e == Completed("succeeded")
           d == Digest(events)
           s == Append(events, e)
           x == Digest(s)
<1>1. /\ writing = <<>> /\ at = "deciding" /\ at' = "tools" /\ writing' = <<e>> /\ Unmoved
      /\ tree' = tree
      /\ m' = [m EXCEPT !.consecutive = 0, !.requests = requests, !.index = 1, !.trigger = "none"]
  BY DEF DecideTools, Go
<1>2. /\ setup \in Setups /\ events \in Seq(Events) /\ m \in Memories
      /\ Lives(setup, "deciding", m, tree, d)
  BY <1>1, Ready DEF Gone
<1>3. /\ tree = d.muts /\ d.iterations = 1 .. m.iterations /\ ToolCallsMade("deciding", m, d)
      /\ Counters("deciding", m, d) /\ Corrections("deciding", m, d)
      /\ PlanKnown("deciding", setup, m, d) /\ AtRestNow("deciding", m)
  BY <1>2 DEF Lives, Going
<1>4. /\ e \in Events /\ KeptHere(s, tree) /\ x.begun \subseteq x.answered
      /\ x.iterations = d.iterations /\ x.starts = d.starts
      /\ SameTools(x, d) /\ SameRetries(x, d) /\ SamePlan(x, d)
      /\ x.puts = d.puts /\ ~x.ended /\ Resolved(x)
  BY <1>1, AnswersOpen DEF Deciding
<1>5. /\ m' \in Memories /\ m'.iterations = m.iterations /\ m'.modelCalls = m.modelCalls
      /\ m'.recoveries = m.recoveries /\ m'.step = m.step /\ m'.toolCalls = m.toolCalls
      /\ m'.rejectedToolCalls = m.rejectedToolCalls
      /\ m'.protocolRecoveries = m.protocolRecoveries
      /\ m'.completionDeferrals = m.completionDeferrals /\ m'.consecutive = 0
      /\ m'.requests = requests /\ m'.index = 1 /\ m'.result = m.result
      /\ m'.terminal = m.terminal /\ m'.trigger = "none" /\ m'.revisions = m.revisions
      /\ m'.seen = m.seen
  <2> DEFINE z == 0
             one == 1
             none == "none"
  <2>1. z \in Nat /\ one \in Nat /\ none \in Triggers
    BY DEF Triggers
  <2>2. m' = [m EXCEPT !.consecutive = z, !.requests = requests, !.index = one, !.trigger = none]
    BY <1>1
  <2> HIDE DEF z, one, none
  <2>3. m' \in Memories
    BY <1>2, <2>1, <2>2 DEF Memories
  <2> QED
    BY <2>2, <2>3, <1>2 DEF Memories, z, one, none
<1>6. MemoryFits(m') /\ tree' \in 0 .. MaxToolCalls
  BY <1>1, <1>5, Fits DEF MemoryFits
<1>7. Counters("tools", m', x)
  BY <1>3, <1>4, <1>5 DEF Counters, SameTools, SameRetries, SamePlan
<1>8. Corrections("tools", m', x)
  BY <1>3, <1>4, <1>5 DEF Corrections, SameRetries, Going
<1>9. ToolCallsMade("tools", m', x)
  <2>1. m'.iterations >= 1 /\ m'.iterations = m.iterations
    BY <1>3, <1>5 DEF Corrections, Going
  <2> QED
    BY <2>1, <1>3, <1>4, <1>5 DEF ToolCallsMade, SameTools, SameActions
<1>10. PlanKnown("tools", setup, m', x)
  BY <1>3, <1>4, <1>5 DEF PlanKnown, SamePlan
<1>11. AtRestNow("tools", m')
  BY <1>3, <1>5 DEF AtRestNow, Going
<1>12. x.begun \ x.answered = {} /\ x.iterations = 1 .. m'.iterations /\ x.muts = tree
  BY <1>3, <1>4, <1>5 DEF SameTools
<1>13. Lives(setup, "tools", m', tree, x)
  BY <1>4, <1>7, <1>8, <1>9, <1>10, <1>11, <1>12 DEF Lives, Going, OpenCalls
<1> HIDE DEF e, x
<1>14. events \o writing' = s /\ writing' \in Seq(Events)
  BY <1>1, <1>2, <1>4, Appended
<1> QED
  BY <1>1, <1>4, <1>6, <1>13, <1>14, GoesOn DEF x, Between, Gone

\* An answer over the budget: its calls will be refused.
LEMMA RefuseBatchInv ==
  ASSUME LoopInv, NEW requests \in Seq(Kinds), RefuseBatch(requests)
  PROVE  LoopInv'
<1> DEFINE e == Completed("succeeded")
           d == Digest(events)
           s == Append(events, e)
           x == Digest(s)
<1>1. /\ writing = <<>> /\ at = "deciding" /\ at' = "refusing" /\ writing' = <<e>> /\ Unmoved
      /\ tree' = tree
      /\ m' = [m EXCEPT !.consecutive = 0, !.requests = requests, !.index = 1]
  BY DEF RefuseBatch, Go
<1>2. /\ setup \in Setups /\ events \in Seq(Events) /\ m \in Memories
      /\ Lives(setup, "deciding", m, tree, d)
  BY <1>1, Ready DEF Gone
<1>3. /\ tree = d.muts /\ d.iterations = 1 .. m.iterations /\ ToolCallsMade("deciding", m, d)
      /\ m.iterations >= 1
  BY <1>2 DEF Lives, Going, Corrections
<1>4. /\ e \in Events /\ KeptHere(s, tree) /\ x.begun \subseteq x.answered
      /\ x.iterations = d.iterations /\ SameTools(x, d) /\ ~x.ended /\ Resolved(x)
  BY <1>1, AnswersOpen DEF Deciding
<1>5. /\ m' \in Memories /\ m'.iterations = m.iterations /\ m'.recoveries = m.recoveries
      /\ m'.toolCalls = m.toolCalls /\ m'.index = 1
  <2> DEFINE z == 0
             one == 1
  <2>1. z \in Nat /\ one \in Nat
    OBVIOUS
  <2>2. m' = [m EXCEPT !.consecutive = z, !.requests = requests, !.index = one]
    BY <1>1
  <2> HIDE DEF z, one
  <2>3. m' \in Memories
    BY <1>2, <2>1, <2>2 DEF Memories
  <2> QED
    BY <2>2, <2>3, <1>2 DEF Memories, one
<1>6. MemoryFits(m') /\ tree' \in 0 .. MaxToolCalls
  BY <1>1, <1>5, Fits DEF MemoryFits
<1>7. ToolCallsMade("refusing", m', x)
  BY <1>3, <1>4, <1>5 DEF ToolCallsMade, SameTools, SameActions
<1>8. x.begun \ x.answered = {} /\ x.iterations = 1 .. m'.iterations /\ x.muts = tree
  BY <1>3, <1>4, <1>5 DEF SameTools
<1>9. Lives(setup, "refusing", m', tree, x)
  BY <1>4, <1>7, <1>8 DEF Lives, Going, OpenCalls
<1> HIDE DEF e, x
<1>10. events \o writing' = s /\ writing' \in Seq(Events)
  BY <1>1, <1>2, <1>4, Appended
<1> QED
  BY <1>1, <1>4, <1>6, <1>9, <1>10, GoesOn DEF x, Between, Gone

\* A call that failed is corrected, or given up.
LEMMA Recovers ==
  ASSUME LoopInv, writing = <<>>, at \in Deciding, NEW disposition \in {"retrying", "exhausted"},
         disposition = "retrying" => CanRetry
  PROVE  LET call == CallId(Owner, m.iterations, m.modelCalls)
             f == Recovery(call, disposition)
             s == Append(events, Completed("failed"))
             x == Digest(Append(s, f))
             d == Digest(events)
             q == <<Owner, m.iterations>>
         IN  /\ f \in Events /\ KeptHere(Append(s, f), tree) /\ ~x.ended
             /\ x.begun \subseteq x.answered /\ x.iterations = d.iterations /\ x.starts = d.starts
             /\ SameTools(x, d) /\ SamePlan(x, d) /\ x.puts = d.puts
             /\ x.retries = IF disposition = "retrying" THEN d.retries + 1 ELSE d.retries
             /\ x.retriesOf = IF disposition = "retrying"
                              THEN [d.retriesOf EXCEPT ![q] = d.retriesOf[q] + 1] ELSE d.retriesOf
<1> DEFINE call == CallId(Owner, m.iterations, m.modelCalls)
           e == Completed("failed")
           f == Recovery(call, disposition)
           s == Append(events, e)
           d == Digest(events)
           y == Digest(s)
           x == Digest(Append(s, f))
           q == <<Owner, m.iterations>>
<1>1. /\ setup \in Setups /\ m \in Memories /\ Lives(setup, at, m, tree, d)
  BY Ready DEF Deciding, Gone
<1>2. /\ e \in Events /\ KeptHere(s, tree) /\ y.begun \subseteq y.answered
      /\ y.iterations = d.iterations /\ y.starts = d.starts
      /\ SameTools(y, d) /\ SameRetries(y, d) /\ SamePlan(y, d) /\ y.puts = d.puts /\ ~y.ended
  BY AnswersOpen
<1>3. d.iterations = 1 .. m.iterations /\ m.iterations >= 1 /\ m.iterations \in Nat
      /\ d.retriesOf[q] = m.recoveries
  BY <1>1 DEF Lives, Corrections, Going, Deciding, Owner, Memories
<1>4. call \in Calls /\ call.owner = Owner /\ call.iteration = m.iterations
  BY <1>1 DEF CallId, Calls, Owner, Owners, Memories
<1>5. call.iteration \in y.iterations /\ <<call.owner, call.iteration>> = q
  BY <1>2, <1>3, <1>4
<1>6. disposition = "retrying" =>
        y.retriesOf[<<call.owner, call.iteration>>] < MaxProtocolRecoveries
  BY <1>2, <1>3, <1>5 DEF SameRetries, CanRetry
<1> HIDE DEF call, e, q
<1>7. /\ f \in Events /\ KeptHere(Append(s, f), tree)
      /\ x.retries = IF disposition = "retrying" THEN y.retries + 1 ELSE y.retries
      /\ x.retriesOf = IF disposition = "retrying"
                       THEN [y.retriesOf EXCEPT ![q] = y.retriesOf[q] + 1] ELSE y.retriesOf
      /\ SameCalls(x, y) /\ SameTools(x, y) /\ SamePlan(x, y)
      /\ x.puts = y.puts /\ ~x.ended
  <2>1. Kept(setup, Len(events), s, tree)
    BY <1>2 DEF KeptHere
  <2> QED
    BY <2>1, <1>1, <1>2, <1>4, <1>5, <1>6, RecoveryKept DEF KeptHere
<1> HIDE DEF f, s
<1>8. /\ x.begun \subseteq x.answered /\ x.iterations = d.iterations /\ x.starts = d.starts
      /\ SameTools(x, d) /\ SamePlan(x, d) /\ x.puts = d.puts
      /\ x.retries = IF disposition = "retrying" THEN d.retries + 1 ELSE d.retries
      /\ x.retriesOf = IF disposition = "retrying"
                       THEN [d.retriesOf EXCEPT ![q] = d.retriesOf[q] + 1] ELSE d.retriesOf
  BY <1>2, <1>7 DEF SameCalls, SameTools, SameActions, SamePlan, SameRetries
<1> QED
  BY <1>7, <1>8 DEF call, e, f, s, q

\* The corrections of a decision are used up.
LEMMA GiveUpInv == ASSUME LoopInv, GiveUp PROVE LoopInv'
<1> DEFINE call == CallId(Owner, m.iterations, m.modelCalls)
           e == Completed("failed")
           f == Recovery(call, "exhausted")
           s == Append(events, e)
           x == Digest(Append(s, f))
<1>1. /\ writing = <<>> /\ at \in Deciding /\ Fail(<<e, f>>, "model-failed")
      /\ Unmoved /\ UNCHANGED <<m, tree>>
  BY DEF GiveUp, Fail, Go, Deciding
<1>2. e \in Events
  BY <1>1, AnswersOpen
<1>3. /\ f \in Events /\ KeptHere(Append(s, f), tree) /\ ~x.ended
      /\ SameTools(x, Digest(events))
  BY <1>1, Recovers
<1>4. Resolved(x)
  <2>1. Resolved(Digest(events))
    BY <1>1, Ready DEF Lives, Deciding, Gone
  <2> QED
    BY <1>3, <2>1 DEF Resolved, SameTools, SameActions
<1>5. "model-failed" \in Reasons /\ MemoryFits(m') /\ tree' = tree
  BY <1>1, Fits DEF Reasons
<1> HIDE DEF e, f
<1> QED
  BY <1>1, <1>2, <1>3, <1>4, <1>5, Fails2

\* A decision is asked for again.
LEMMA RetryInv == ASSUME LoopInv, Retry PROVE LoopInv'
<1> DEFINE call == CallId(Owner, m.iterations, m.modelCalls)
           next == CallId(Owner, m.iterations, m.modelCalls + 1)
           e == Completed("failed")
           f == Recovery(call, "retrying")
           g == CallStarted(next)
           q == <<Owner, m.iterations>>
           s == Append(events, e)
           u == Append(s, f)
           v == Append(u, g)
           d == Digest(events)
           y == Digest(u)
           x == Digest(v)
<1>1. /\ writing = <<>> /\ at \in Deciding /\ CanRetry
      /\ writing' = <<e, f, g>> /\ at' = at /\ Unmoved /\ tree' = tree
      /\ m' = [m EXCEPT !.recoveries = m.recoveries + 1,
                        !.protocolRecoveries = m.protocolRecoveries + 1,
                        !.modelCalls = m.modelCalls + 1]
  BY DEF Retry, Go, Deciding
<1>2. /\ setup \in Setups /\ events \in Seq(Events) /\ m \in Memories
      /\ DigestTyped(d) /\ Lives(setup, at, m, tree, d)
  BY <1>1, Ready DEF Deciding, Gone
<1>3. /\ tree = d.muts /\ Resolved(d) /\ d.iterations = 1 .. m.iterations
      /\ ToolCallsMade(at, m, d) /\ Counters(at, m, d) /\ Corrections(at, m, d)
      /\ PlanKnown(at, setup, m, d) /\ AtRestNow(at, m)
  BY <1>1, <1>2 DEF Lives, Going, Deciding
<1>4. /\ m.iterations \in Nat /\ m.iterations >= 1 /\ m.recoveries < MaxProtocolRecoveries
      /\ m.recoveries \in Nat /\ m.modelCalls \in Nat /\ m.protocolRecoveries \in Nat
      /\ m.modelCalls = d.starts /\ m.iterations \in 1 .. setup.maxIterations
  <2>1. setup.maxIterations \in Nat /\ m.iterations <= setup.maxIterations
    BY <1>2, Fits, SetupsAssumption DEF MemoryFits
  <2> QED
    BY <1>1, <1>2, <1>3, <2>1 DEF CanRetry, Memories, Corrections, Going, Deciding, Counters
<1>5. e \in Events
  BY <1>1, AnswersOpen
<1>6. /\ f \in Events /\ KeptHere(u, tree) /\ ~y.ended
      /\ y.begun \subseteq y.answered /\ y.iterations = d.iterations /\ y.starts = d.starts
      /\ SameTools(y, d) /\ SamePlan(y, d) /\ y.puts = d.puts /\ y.retries = d.retries + 1
      /\ y.retriesOf = [d.retriesOf EXCEPT ![q] = d.retriesOf[q] + 1]
  BY <1>1, Recovers
<1>7. /\ next \in Calls /\ next.owner = Owner /\ next.iteration = m.iterations
      /\ next.ordinal = y.starts + 1
  BY <1>4, <1>6 DEF CallId, Calls, Owner, Owners
<1> HIDE DEF next, e, f, q, s
<1>8. /\ g \in Events /\ KeptHere(v, tree)
      /\ x.begun = y.begun \cup {next} /\ x.answered = y.answered
      /\ x.iterations = IF next.owner = "executor" THEN y.iterations \cup {next.iteration}
                        ELSE y.iterations
      /\ x.starts = y.starts + 1
      /\ SameTools(x, y) /\ SameRetries(x, y) /\ SamePlan(x, y) /\ x.puts = y.puts /\ ~x.ended
  <2>1. Kept(setup, Len(events), u, tree)
    BY <1>6 DEF KeptHere
  <2>2. MayCall(setup, y, next)
    BY <1>3, <1>4, <1>6, <1>7 DEF MayCall
  <2>3. g \in Events /\ Kept(setup, Len(events), v, tree) /\ CallMade(x, y, next)
    BY <2>1, <2>2, <1>2, <1>6, <1>7, CallKept
  <2> HIDE DEF g, x, y
  <2> QED
    BY <2>3 DEF KeptHere, CallMade
<1>9. next \notin y.answered
  <2>1. Consistent(setup, y)
    BY <1>2, <1>6, KeptConsistent DEF KeptHere
  <2> QED
    BY <2>1, <1>7, NewCall
<1>10. /\ m' \in Memories /\ m'.iterations = m.iterations /\ m'.modelCalls = m.modelCalls + 1
       /\ m'.recoveries = m.recoveries + 1 /\ m'.step = m.step /\ m'.toolCalls = m.toolCalls
       /\ m'.rejectedToolCalls = m.rejectedToolCalls
       /\ m'.protocolRecoveries = m.protocolRecoveries + 1
       /\ m'.completionDeferrals = m.completionDeferrals /\ m'.consecutive = m.consecutive
       /\ m'.requests = m.requests /\ m'.index = m.index /\ m'.result = m.result
       /\ m'.terminal = m.terminal /\ m'.trigger = m.trigger /\ m'.revisions = m.revisions
       /\ m'.seen = m.seen
  <2> DEFINE i == m.recoveries + 1
             j == m.protocolRecoveries + 1
             k == m.modelCalls + 1
  <2>1. i \in Nat /\ j \in Nat /\ k \in Nat
    BY <1>4
  <2>2. m' = [m EXCEPT !.recoveries = i, !.protocolRecoveries = j, !.modelCalls = k]
    BY <1>1
  <2> HIDE DEF i, j, k
  <2>3. m' \in Memories
    BY <1>2, <2>1, <2>2 DEF Memories
  <2> QED
    BY <2>2, <2>3, <1>2 DEF Memories, i, j, k
<1>11. MemoryFits(m') /\ tree' \in 0 .. MaxToolCalls
  BY <1>1, <1>4, <1>10, Fits, PolicyAssumption DEF MemoryFits
<1>12. /\ SameTools(x, d) /\ SamePlan(x, d) /\ x.puts = d.puts /\ x.retries = d.retries + 1
       /\ x.retriesOf = [d.retriesOf EXCEPT ![q] = d.retriesOf[q] + 1] /\ x.starts = d.starts + 1
  BY <1>6, <1>8 DEF SameTools, SameActions, SamePlan, SameRetries
<1>13. x.iterations = 1 .. m'.iterations /\ x.begun \ x.answered = {next}
  <2>1. x.iterations = y.iterations
    <3>1. next.iteration \in y.iterations
      BY <1>3, <1>4, <1>6, <1>7
    <3> QED
      BY <3>1, <1>8
  <2>2. x.begun \ x.answered = {next}
    BY <1>6, <1>8, <1>9
  <2> QED
    BY <2>1, <2>2, <1>3, <1>6, <1>10
<1>14. OpenCalls(at, m') = {next}
  BY <1>1, <1>10 DEF OpenCalls, next, Owner, Deciding
<1>15. ToolCallsMade(at, m', x)
  BY <1>1, <1>3, <1>10, <1>12 DEF ToolCallsMade, SameTools, SameActions, Deciding
<1>16. Counters(at, m', x)
  BY <1>3, <1>10, <1>12, <1>13 DEF Counters, SameTools, SamePlan
<1>17. Corrections(at, m', x)
  <2>1. /\ x.retriesOf[<<Owner, m.iterations>>] = d.retriesOf[<<Owner, m.iterations>>] + 1
        /\ Owner = "executor" => x.retriesOf[<<"planner", m.iterations>>]
                                   = d.retriesOf[<<"planner", m.iterations>>]
    <3>1. d.retriesOf \in [Owners \X Nat -> Nat]
      BY <1>2 DEF DigestTyped
    <3>2. <<"planner", m.iterations>> \in Owners \X Nat /\ q \in Owners \X Nat
      BY <1>4 DEF q, Owners, Owner
    <3>3. Owner = "executor" => q # <<"planner", m.iterations>>
      BY DEF q
    <3> QED
      BY <3>1, <3>2, <3>3, <1>12 DEF q
  <2>2. CASE at = "deciding"
    <3>1. /\ d.retriesOf[<<"executor", m.iterations>>] = m.recoveries
          /\ d.retriesOf[<<"planner", m.iterations>>] = 0
      BY <2>2, <1>3 DEF Corrections, Going
    <3>2. /\ x.retriesOf[<<"executor", m'.iterations>>] = m'.recoveries
          /\ x.retriesOf[<<"planner", m'.iterations>>] = 0
      BY <2>1, <2>2, <3>1, <1>10 DEF Owner
    <3> QED
      BY <2>2, <3>2, <1>4, <1>10, PolicyAssumption DEF Corrections, Going
  <2>3. CASE at = "planning"
    <3>1. /\ d.retriesOf[<<"planner", m.iterations>>] = m.recoveries
          /\ Len(m.revisions) < MaxPlanRevisions
      BY <2>3, <1>3 DEF Corrections, Going
    <3>2. x.retriesOf[<<"planner", m'.iterations>>] = m'.recoveries
      BY <2>1, <2>3, <3>1, <1>10 DEF Owner
    <3>3. m'.iterations \in x.iterations
      BY <1>4, <1>10, <1>13
    <3> QED
      BY <2>3, <3>1, <3>2, <3>3, <1>4, <1>10, PolicyAssumption DEF Corrections, Going
  <2> QED
    BY <2>2, <2>3, <1>1 DEF Deciding
<1>18. PlanKnown(at, setup, m', x)
  BY <1>1, <1>3, <1>10, <1>12 DEF PlanKnown, SamePlan, Deciding
<1>19. AtRestNow(at, m')
  BY <1>3, <1>10 DEF AtRestNow
<1>20. Resolved(x) /\ x.muts = tree
  BY <1>3, <1>12 DEF Resolved, SameTools, SameActions
<1>21. Lives(setup, at, m', tree, x)
  BY <1>1, <1>8, <1>13, <1>14, <1>15, <1>16, <1>17, <1>18, <1>19, <1>20 DEF Lives, Deciding
<1> HIDE DEF g, x
<1>22. events \o writing' = v /\ writing' \in Seq(Events)
  BY <1>1, <1>2, <1>5, <1>6, <1>8, Appended DEF s
<1> QED
  BY <1>1, <1>8, <1>11, <1>21, <1>22, GoesOn DEF x, Deciding, Awaiting, Gone

\* The planner is asked, or answers at once that no revision is left.
LEMMA AskPlannerInv == ASSUME LoopInv, AskPlanner PROVE LoopInv'
<1> DEFINE call == CallId("planner", m.iterations, m.modelCalls + 1)
           e == CallStarted(call)
           f == CallCompleted(call, "succeeded")
           d == Digest(events)
           s == Append(events, e)
           x == Digest(s)
           u == Append(s, f)
           y == Digest(u)
<1>1. /\ writing = <<>> /\ at = "tools" /\ m.requests = <<>> /\ Unmoved /\ tree' = tree
      /\ \/ /\ Len(m.revisions) < MaxPlanRevisions /\ at' = "planning" /\ writing' = <<e>>
            /\ m' = [m EXCEPT !.modelCalls = m.modelCalls + 1, !.recoveries = 0]
         \/ /\ at' = "iterate" /\ writing' = <<e, f>>
            /\ m' = [AtRest(m) EXCEPT !.modelCalls = AtRest(m).modelCalls + 1]
  BY DEF AskPlanner, Go
<1>2. /\ setup \in Setups /\ events \in Seq(Events) /\ m \in Memories /\ KeptHere(events, tree)
      /\ Consistent(setup, d) /\ Lives(setup, "tools", m, tree, d)
  BY <1>1, Ready DEF Gone
<1>3. /\ ~d.ended /\ Resolved(d) /\ tree = d.muts
      /\ d.iterations = 1 .. m.iterations /\ d.begun \ d.answered = {}
      /\ Counters("tools", m, d) /\ Corrections("tools", m, d) /\ ToolCallsMade("tools", m, d)
      /\ PlanKnown("tools", setup, m, d) /\ AtRestNow("tools", m)
  BY <1>2 DEF Lives, Going, OpenCalls
<1>4. /\ m.iterations \in Nat /\ m.iterations >= 1 /\ m.modelCalls \in Nat
      /\ m.modelCalls = d.starts /\ d.since = 0
      /\ d.retriesOf[<<"planner", m.iterations>>] = 0
  BY <1>1, <1>2, <1>3 DEF Memories, Corrections, Going, Counters, ToolCallsMade
<1>5. call \in Calls /\ call.owner = "planner" /\ call.ordinal = d.starts + 1
  BY <1>4 DEF CallId, Calls, Owners
<1> HIDE DEF call
<1>6. /\ e \in Events /\ KeptHere(s, tree) /\ x.begun = d.begun \cup {call} /\ x.answered = d.answered
      /\ x.iterations = d.iterations /\ x.starts = d.starts + 1
      /\ SameTools(x, d) /\ SameRetries(x, d) /\ SamePlan(x, d)
      /\ x.puts = d.puts /\ ~x.ended
  <2>1. Kept(setup, Len(events), events, tree)
    BY <1>2 DEF KeptHere
  <2>2. MayCall(setup, d, call)
    BY <1>3, <1>5 DEF MayCall
  <2>3. e \in Events /\ Kept(setup, Len(events), s, tree) /\ CallMade(x, d, call)
    BY <2>1, <2>2, <1>2, <1>3, <1>5, CallKept
  <2> HIDE DEF e, x
  <2> QED
    BY <2>3, <1>5 DEF KeptHere, CallMade
<1>7. call \notin d.answered
  BY <1>2, <1>5, NewCall
<1>8. CASE /\ Len(m.revisions) < MaxPlanRevisions /\ at' = "planning" /\ writing' = <<e>>
           /\ m' = [m EXCEPT !.modelCalls = m.modelCalls + 1, !.recoveries = 0]
  <2>1. /\ m' \in Memories /\ m'.iterations = m.iterations /\ m'.modelCalls = m.modelCalls + 1
        /\ m'.recoveries = 0 /\ m'.step = m.step /\ m'.toolCalls = m.toolCalls
        /\ m'.rejectedToolCalls = m.rejectedToolCalls
        /\ m'.protocolRecoveries = m.protocolRecoveries
        /\ m'.completionDeferrals = m.completionDeferrals /\ m'.consecutive = m.consecutive
        /\ m'.requests = m.requests /\ m'.index = m.index /\ m'.result = m.result
        /\ m'.terminal = m.terminal /\ m'.trigger = m.trigger /\ m'.revisions = m.revisions
        /\ m'.seen = m.seen
    <3> DEFINE k == m.modelCalls + 1
               z == 0
    <3>1. k \in Nat /\ z \in Nat
      BY <1>4
    <3>2. m' = [m EXCEPT !.modelCalls = k, !.recoveries = z]
      BY <1>8
    <3> HIDE DEF k, z
    <3>3. m' \in Memories
      BY <1>2, <3>1, <3>2 DEF Memories
    <3> QED
      BY <3>2, <3>3, <1>2 DEF Memories, k, z
  <2>2. MemoryFits(m') /\ tree' \in 0 .. MaxToolCalls
    BY <1>1, <2>1, Fits, PolicyAssumption DEF MemoryFits
  <2>3. x.begun \ x.answered = {call} /\ OpenCalls("planning", m') = {call}
    BY <1>3, <1>6, <1>7, <2>1 DEF OpenCalls, call
  <2>4. ToolCallsMade("planning", m', x)
    BY <1>4, <1>6 DEF ToolCallsMade, SameTools
  <2>5. Counters("planning", m', x)
    BY <1>3, <1>6, <2>1 DEF Counters, SameTools, SamePlan, SameRetries
  <2>6. Corrections("planning", m', x)
    <3>1. m'.iterations \in x.iterations
      BY <1>3, <1>4, <1>6, <2>1
    <3> QED
      BY <3>1, <1>8, <1>4, <1>6, <2>1, PolicyAssumption DEF Corrections, SameRetries, Going
  <2>7. PlanKnown("planning", setup, m', x)
    BY <1>3, <1>6, <2>1 DEF PlanKnown, SamePlan
  <2>8. AtRestNow("planning", m')
    BY <1>3, <2>1 DEF AtRestNow, Going
  <2>9. Resolved(x) /\ x.muts = tree /\ x.iterations = 1 .. m'.iterations
    BY <1>3, <1>6, <2>1 DEF Resolved, SameTools, SameActions
  <2>10. Lives(setup, "planning", m', tree, x)
    BY <1>6, <2>3, <2>4, <2>5, <2>6, <2>7, <2>8, <2>9 DEF Lives, Going
  <2> HIDE DEF e, x
  <2>11. events \o writing' = s /\ writing' \in Seq(Events)
    BY <1>2, <1>6, <1>8, Appended
  <2> QED
    BY <1>1, <1>6, <1>8, <2>2, <2>10, <2>11, GoesOn DEF x, Awaiting, Gone
<1>9. CASE /\ at' = "iterate" /\ writing' = <<e, f>>
           /\ m' = [AtRest(m) EXCEPT !.modelCalls = AtRest(m).modelCalls + 1]
  <2>1. /\ f \in Events /\ KeptHere(u, tree) /\ y.begun \subseteq y.answered
        /\ y.iterations = x.iterations /\ y.starts = x.starts
        /\ SameTools(y, x) /\ SameRetries(y, x) /\ SamePlan(y, x)
        /\ y.puts = x.puts /\ ~y.ended
    <3>1. call \in x.begun \ x.answered /\ Kept(setup, Len(events), s, tree)
      BY <1>6, <1>7 DEF KeptHere
    <3> HIDE DEF s
    <3> QED
      BY <3>1, <1>2, <1>5, <1>6, AnswerKept, SMTT(60) DEF KeptHere
  <2>2. /\ m' \in Memories /\ m'.iterations = m.iterations /\ m'.modelCalls = m.modelCalls + 1
        /\ m'.recoveries = 0 /\ m'.step = m.step /\ m'.toolCalls = m.toolCalls
        /\ m'.rejectedToolCalls = m.rejectedToolCalls
        /\ m'.protocolRecoveries = m.protocolRecoveries
        /\ m'.completionDeferrals = m.completionDeferrals /\ m'.consecutive = m.consecutive
        /\ m'.requests = <<>> /\ m'.index = 0 /\ m'.result = m.result
        /\ m'.terminal = m.terminal /\ m'.trigger = "none" /\ m'.revisions = m.revisions
        /\ m'.seen = m.seen
    <3> DEFINE mem == AtRest(m)
               k == m.modelCalls + 1
    <3>1. /\ mem \in Memories /\ mem.iterations = m.iterations
          /\ mem.modelCalls = m.modelCalls
          /\ mem.recoveries = 0 /\ mem.step = m.step /\ mem.toolCalls = m.toolCalls
          /\ mem.rejectedToolCalls = m.rejectedToolCalls
          /\ mem.protocolRecoveries = m.protocolRecoveries
          /\ mem.completionDeferrals = m.completionDeferrals
          /\ mem.consecutive = m.consecutive
          /\ mem.requests = <<>> /\ mem.index = 0 /\ mem.result = m.result
          /\ mem.terminal = m.terminal /\ mem.trigger = "none"
          /\ mem.revisions = m.revisions /\ mem.seen = m.seen
      BY <1>2, AtRestType
    <3>2. k \in Nat
      BY <1>4
    <3> HIDE DEF mem
    <3>3. m' = [mem EXCEPT !.modelCalls = k]
      BY <1>9, <3>1 DEF mem
    <3> HIDE DEF k
    <3>4. m' \in Memories
      BY <3>1, <3>2, <3>3 DEF Memories
    <3> QED
      BY <3>1, <3>3, <3>4 DEF Memories, k
  <2>3. MemoryFits(m') /\ tree' \in 0 .. MaxToolCalls
    BY <1>1, <2>2, Fits, PolicyAssumption DEF MemoryFits
  <2>4. Counters("iterate", m', y)
    BY <1>3, <1>4, <1>6, <2>1, <2>2 DEF Counters, SameTools, SamePlan, SameRetries
  <2>5. Corrections("iterate", m', y) /\ ToolCallsMade("iterate", m', y)
    BY <2>2, PolicyAssumption DEF Corrections, Going, ToolCallsMade
  <2>6. PlanKnown("iterate", setup, m', y)
    BY <1>3, <1>6, <2>1, <2>2 DEF PlanKnown, SamePlan
  <2>7. AtRestNow("iterate", m')
    BY <1>3, <2>2 DEF AtRestNow, Going
  <2>8. /\ Resolved(y) /\ y.muts = tree /\ y.iterations = 1 .. m'.iterations
        /\ y.begun \ y.answered = {}
    BY <1>3, <1>6, <2>1, <2>2 DEF Resolved, SameTools, SameActions
  <2>9. Lives(setup, "iterate", m', tree, y)
    BY <2>1, <2>4, <2>5, <2>6, <2>7, <2>8 DEF Lives, Going, OpenCalls
  <2> HIDE DEF e, f, y
  <2>10. events \o writing' = u /\ writing' \in Seq(Events)
    BY <1>2, <1>6, <1>9, <2>1, Appended
  <2> QED
    BY <1>1, <1>9, <2>1, <2>3, <2>9, <2>10, GoesOn DEF y, Between, Gone
<1> QED
  BY <1>1, <1>8, <1>9

\* The planner's answer.
LEMMA RevisePlanInv == ASSUME LoopInv, NEW plan \in Plans, RevisePlan(plan) PROVE LoopInv'
<1> DEFINE revisions == Append(m.revisions, [plan |-> plan, trigger |-> m.trigger])
           e == Completed("succeeded")
           f == PlanRevised(plan, m.trigger)
           d == Digest(events)
           s == Append(events, e)
           x == Digest(s)
           u == Append(s, f)
           y == Digest(u)
<1>1. /\ writing = <<>> /\ at = "planning" /\ at' = "iterate" /\ writing' = <<e, f>> /\ Unmoved
      /\ tree' = tree
      /\ m' = [AtRest(m) EXCEPT !.revisions = revisions,
                                !.step = Synchronized(AtRest(m).step, revisions)]
  BY DEF RevisePlan, Go
<1>2. /\ setup \in Setups /\ events \in Seq(Events) /\ m \in Memories
      /\ Lives(setup, "planning", m, tree, d)
  BY <1>1, Ready DEF Gone
<1>3. /\ tree = d.muts /\ d.iterations = 1 .. m.iterations
      /\ Counters("planning", m, d) /\ Corrections("planning", m, d)
      /\ ToolCallsMade("planning", m, d)
      /\ PlanKnown("planning", setup, m, d) /\ AtRestNow("planning", m)
  BY <1>2 DEF Lives, Going
<1>4. /\ e \in Events /\ KeptHere(s, tree) /\ x.begun \subseteq x.answered
      /\ x.iterations = d.iterations /\ x.starts = d.starts
      /\ SameTools(x, d) /\ SameRetries(x, d) /\ SamePlan(x, d)
      /\ x.puts = d.puts /\ ~x.ended /\ Resolved(x)
  BY <1>1, AnswersOpen DEF Deciding
<1>5. /\ m.trigger \in Triggers /\ d.since = 0 /\ Len(m.revisions) < MaxPlanRevisions
      /\ x.plan.revisions = m.revisions /\ x.plan.step = d.plan.step /\ x.plan.seen = m.seen
      /\ setup.presentation = "native" => x.plan.step = m.step
  BY <1>2, <1>3, <1>4 DEF Memories, ToolCallsMade, Corrections, Counters, SamePlan, PlanKnown
<1> HIDE DEF e, s
<1>6. /\ f \in Events /\ KeptHere(u, tree)
      /\ y.plan.revisions = revisions
      /\ y.plan.step = Synchronized(x.plan.step, revisions)
      /\ y.plan.seen = x.plan.seen
      /\ SameCalls(y, x) /\ SameTools(y, x) /\ SameRetries(y, x)
      /\ y.puts = x.puts /\ ~y.ended
  <2>1. Kept(setup, Len(events), s, tree) /\ Len(x.plan.revisions) < MaxPlanRevisions
    BY <1>4, <1>5 DEF KeptHere
  <2>2. /\ f \in Events /\ Kept(setup, Len(events), u, tree)
        /\ y.plan.revisions = Append(x.plan.revisions, [plan |-> plan, trigger |-> m.trigger])
        /\ y.plan.step = Synchronized(x.plan.step,
                           Append(x.plan.revisions, [plan |-> plan, trigger |-> m.trigger]))
        /\ y.plan.seen = x.plan.seen
        /\ SameCalls(y, x) /\ SameTools(y, x) /\ SameRetries(y, x)
        /\ y.puts = x.puts /\ ~y.ended
    BY <2>1, <1>2, <1>4, <1>5, PlanKept, SMTT(60)
  <2> QED
    BY <2>2, <1>5 DEF KeptHere
<1> DEFINE step == Synchronized(m.step, revisions)
<1>7. /\ revisions \in Revisions /\ step \in PlanSteps
  <2>1. revisions \in Revisions
    <3>1. m.revisions \in Revisions
      BY <1>2 DEF Memories
    <3> QED
      BY <3>1, <1>5 DEF Revisions
  <2>2. m.step \in PlanSteps
    BY <1>2 DEF Memories
  <2> HIDE DEF revisions
  <2> QED
    BY <2>1, <2>2, SynchronizedType
<1> HIDE DEF revisions, step
<1>8. /\ m' \in Memories /\ m'.iterations = m.iterations /\ m'.modelCalls = m.modelCalls
      /\ m'.recoveries = 0 /\ m'.step = step /\ m'.toolCalls = m.toolCalls
      /\ m'.rejectedToolCalls = m.rejectedToolCalls
      /\ m'.protocolRecoveries = m.protocolRecoveries
      /\ m'.completionDeferrals = m.completionDeferrals /\ m'.consecutive = m.consecutive
      /\ m'.requests = <<>> /\ m'.index = 0 /\ m'.result = m.result
      /\ m'.terminal = m.terminal /\ m'.trigger = "none" /\ m'.revisions = revisions
      /\ m'.seen = m.seen
  <2> DEFINE mem == AtRest(m)
  <2>1. /\ mem \in Memories /\ mem.iterations = m.iterations
        /\ mem.modelCalls = m.modelCalls
        /\ mem.recoveries = 0 /\ mem.step = m.step /\ mem.toolCalls = m.toolCalls
        /\ mem.rejectedToolCalls = m.rejectedToolCalls
        /\ mem.protocolRecoveries = m.protocolRecoveries
        /\ mem.completionDeferrals = m.completionDeferrals
        /\ mem.consecutive = m.consecutive
        /\ mem.requests = <<>> /\ mem.index = 0 /\ mem.result = m.result
        /\ mem.terminal = m.terminal /\ mem.trigger = "none"
        /\ mem.revisions = m.revisions /\ mem.seen = m.seen
    BY <1>2, AtRestType
  <2> HIDE DEF mem
  <2>2. m' = [mem EXCEPT !.revisions = revisions, !.step = step]
    BY <1>1, <2>1 DEF mem, step
  <2>3. m' \in Memories
    BY <1>7, <2>1, <2>2 DEF Memories
  <2> QED
    BY <2>1, <2>2, <2>3 DEF Memories
<1>9. MemoryFits(m') /\ tree' \in 0 .. MaxToolCalls
  BY <1>1, <1>8, Fits, PolicyAssumption DEF MemoryFits
<1>10. Counters("iterate", m', y)
  BY <1>3, <1>4, <1>5, <1>6, <1>8 DEF Counters, SameCalls, SameTools, SameRetries
<1>11. Corrections("iterate", m', y) /\ ToolCallsMade("iterate", m', y)
  BY <1>8, PolicyAssumption DEF Corrections, Going, ToolCallsMade
<1>12. PlanKnown("iterate", setup, m', y)
  BY <1>5, <1>6, <1>8 DEF PlanKnown, step
<1>13. AtRestNow("iterate", m')
  BY <1>3, <1>8 DEF AtRestNow, Going
<1>14. /\ Resolved(y) /\ y.muts = tree /\ y.iterations = 1 .. m'.iterations
       /\ y.begun \ y.answered = {}
  BY <1>3, <1>4, <1>6, <1>8 DEF Resolved, SameTools, SameActions, SameCalls
<1>15. Lives(setup, "iterate", m', tree, y)
  BY <1>6, <1>10, <1>11, <1>12, <1>13, <1>14 DEF Lives, Going, OpenCalls
<1> HIDE DEF f, y
<1>16. events \o writing' = u /\ writing' \in Seq(Events)
  BY <1>1, <1>2, <1>4, <1>6, Appended DEF s
<1> QED
  BY <1>1, <1>6, <1>9, <1>15, <1>16, GoesOn DEF y, Between, Gone

\* What stays as it is while an answer is dealt with.
SameMemory(new, mem) ==
  /\ new.iterations = mem.iterations /\ new.modelCalls = mem.modelCalls
  /\ new.recoveries = mem.recoveries /\ new.protocolRecoveries = mem.protocolRecoveries
  /\ new.completionDeferrals = mem.completionDeferrals /\ new.consecutive = mem.consecutive
  /\ new.revisions = mem.revisions

\* What is remembered of a result: its count, and the result.
LEMMA CountedType ==
  ASSUME NEW mem \in Memories, NEW r \in ToolOutcomes
  PROVE  LET new == Counted(mem, r)
         IN  /\ new \in Memories /\ SameMemory(new, mem)
             /\ new.toolCalls = Plus(mem.toolCalls, r.status # "rejected")
             /\ new.rejectedToolCalls = Plus(mem.rejectedToolCalls, r.status = "rejected")
             /\ new.requests = mem.requests /\ new.index = mem.index
             /\ new.result = mem.result /\ new.terminal = mem.terminal
             /\ new.trigger = mem.trigger /\ new.step = mem.step /\ new.seen = mem.seen
<1> DEFINE new == Counted(mem, r)
           i == mem.rejectedToolCalls + 1
           j == mem.toolCalls + 1
<1>1. i \in Nat /\ j \in Nat
  BY DEF Memories
<1>2. new = IF r.status = "rejected" THEN [mem EXCEPT !.rejectedToolCalls = i]
            ELSE [mem EXCEPT !.toolCalls = j]
  BY DEF Counted
<1> HIDE DEF i, j, new
<1>3. [mem EXCEPT !.rejectedToolCalls = i] \in Memories /\ [mem EXCEPT !.toolCalls = j] \in Memories
  BY <1>1 DEF Memories
<1>4. new \in Memories
  BY <1>2, <1>3
<1>5. CASE r.status = "rejected"
  BY <1>2, <1>4, <1>5 DEF Memories, SameMemory, Plus, i, new
<1>6. CASE r.status # "rejected"
  BY <1>2, <1>4, <1>6 DEF Memories, SameMemory, Plus, j, new
<1> QED
  BY <1>5, <1>6

\* A result that is remembered.
LEMMA ResultType ==
  ASSUME NEW mem \in Memories, NEW r \in ToolOutcomes
  PROVE  LET new == [mem EXCEPT !.result = r]
         IN  /\ new \in Memories /\ SameMemory(new, mem)
             /\ new.toolCalls = mem.toolCalls /\ new.rejectedToolCalls = mem.rejectedToolCalls
             /\ new.requests = mem.requests /\ new.index = mem.index
             /\ new.result = r /\ new.terminal = mem.terminal
             /\ new.trigger = mem.trigger /\ new.step = mem.step /\ new.seen = mem.seen
<1>1. [mem EXCEPT !.result = r] \in Memories
  <2> DEFINE S == ToolOutcomes \cup {NoResult}
  <2>1. r \in S
    OBVIOUS
  <2>2. Memories = [iterations : Nat, toolCalls : Nat, rejectedToolCalls : Nat,
   protocolRecoveries : Nat,
   completionDeferrals : Nat, consecutive : Nat, modelCalls : Nat, recoveries : Nat,
   requests : Seq(Kinds), index : Nat, result : S,
   terminal : {"none", "rejected-tool-limit"}, trigger : Triggers,
   revisions : Revisions, step : PlanSteps, seen : BOOLEAN]
    BY DEF Memories
  <2> HIDE DEF S
  <2> QED
    BY <2>1, <2>2
<1> QED
  BY <1>1 DEF Memories, SameMemory

\* The plan executor's record of a result, and the replanning it asks for.
LEMMA FollowedType ==
  ASSUME NEW mem \in Memories, NEW r \in ToolOutcomes
  PROVE  LET new == Followed(mem, r)
         IN  /\ new \in Memories /\ SameMemory(new, mem)
             /\ new.toolCalls = mem.toolCalls /\ new.rejectedToolCalls = mem.rejectedToolCalls
             /\ new.requests = mem.requests /\ new.index = mem.index
             /\ new.result = mem.result /\ new.terminal = mem.terminal
             /\ new.step = Recorded(mem.step, mem.seen, r)
             /\ new.seen = (mem.seen \/ r.facts = "retrieval")
<1> DEFINE new == Followed(mem, r)
           candidate == TriggerFor(r)
           replan == StepTrigger(mem.step, mem.seen, r)
           trigger == IF candidate # "none" THEN candidate
                      ELSE IF mem.trigger = "none" THEN replan ELSE mem.trigger
           step == Recorded(mem.step, mem.seen, r)
           seen == mem.seen \/ r.facts = "retrieval"
<1>1. candidate \in Triggers /\ replan \in Triggers
  BY DEF TriggerFor, StepTrigger, Triggers
<1>2. trigger \in Triggers
  BY <1>1 DEF Memories
<1>3. step \in PlanSteps /\ seen \in BOOLEAN
  BY RecordedType DEF Memories
<1>4. new = [mem EXCEPT !.trigger = trigger, !.step = step, !.seen = seen]
  BY DEF Followed
<1> HIDE DEF candidate, replan, trigger, step, seen, new
<1>5. new \in Memories
  BY <1>2, <1>3, <1>4 DEF Memories
<1>6. /\ SameMemory(new, mem)
      /\ new.toolCalls = mem.toolCalls /\ new.rejectedToolCalls = mem.rejectedToolCalls
      /\ new.requests = mem.requests /\ new.index = mem.index
      /\ new.result = mem.result /\ new.terminal = mem.terminal
  BY <1>4 DEF Memories, SameMemory
<1>7. new.step = step /\ new.seen = seen
  BY <1>4 DEF Memories
<1> QED
  BY <1>5, <1>6, <1>7 DEF new, step, seen

\* The next of the calls.
LEMMA NextRequestType ==
  ASSUME NEW mem \in Memories, mem.requests # <<>>
  PROVE  LET new == NextRequest(mem)
         IN  /\ new \in Memories /\ SameMemory(new, mem)
             /\ new.toolCalls = mem.toolCalls /\ new.rejectedToolCalls = mem.rejectedToolCalls
             /\ new.index = mem.index + 1 /\ new.result = NoResult
             /\ new.terminal = mem.terminal
             /\ new.trigger = mem.trigger /\ new.step = mem.step /\ new.seen = mem.seen
<1> DEFINE new == NextRequest(mem)
           rest == Tail(mem.requests)
           i == mem.index + 1
           none == NoResult
<1>1. rest \in Seq(Kinds) /\ i \in Nat
  BY DEF Memories
<1>2. new = [mem EXCEPT !.requests = rest, !.index = i, !.result = none]
  BY DEF NextRequest
<1>3. none \in ToolOutcomes \cup {NoResult}
  OBVIOUS
<1> HIDE DEF rest, i, none, new
<1>4. new \in Memories
  <2> DEFINE S == ToolOutcomes \cup {NoResult}
  <2>1. none \in S
    BY <1>3
  <2>2. Memories = [iterations : Nat, toolCalls : Nat, rejectedToolCalls : Nat,
   protocolRecoveries : Nat,
   completionDeferrals : Nat, consecutive : Nat, modelCalls : Nat, recoveries : Nat,
   requests : Seq(Kinds), index : Nat, result : S,
   terminal : {"none", "rejected-tool-limit"}, trigger : Triggers,
   revisions : Revisions, step : PlanSteps, seen : BOOLEAN]
    BY DEF Memories
  <2> HIDE DEF S
  <2> QED
    BY <2>1, <2>2, <1>1, <1>2
<1>5. /\ SameMemory(new, mem)
      /\ new.toolCalls = mem.toolCalls /\ new.rejectedToolCalls = mem.rejectedToolCalls
      /\ new.index = i /\ new.result = none
      /\ new.terminal = mem.terminal
      /\ new.trigger = mem.trigger /\ new.step = mem.step /\ new.seen = mem.seen
  BY <1>2 DEF Memories, SameMemory
<1> QED
  BY <1>4, <1>5 DEF new, i, none

\* The tool call that comes next has not been dispatched.
LEMMA NextCall ==
  ASSUME LoopInv, writing = <<>>, at \in {"tools", "refusing"}, m.requests # <<>>
  PROVE  /\ setup \in Setups /\ events \in Seq(Events) /\ m \in Memories /\ tree \in Nat
         /\ KeptHere(events, tree) /\ Consistent(setup, Digest(events))
         /\ Lives(setup, at, m, tree, Digest(events))
         /\ Action \in Actions /\ Head(m.requests) \in Kinds
         /\ Action \notin Digest(events).sent /\ Action.iteration \in Digest(events).iterations
         /\ Action.index = m.index /\ Action.iteration = m.iterations
<1>1. /\ setup \in Setups /\ events \in Seq(Events) /\ m \in Memories /\ tree \in Nat
      /\ KeptHere(events, tree) /\ Consistent(setup, Digest(events))
      /\ Lives(setup, at, m, tree, Digest(events))
  BY Ready DEF Gone
<1>2. Action \in Actions /\ Action.index = m.index /\ Action.iteration = m.iterations
  BY <1>1 DEF Action, Actions, Memories
<1>3. Head(m.requests) \in Kinds
  BY <1>1 DEF Memories
<1>4. /\ Digest(events).iterations = 1 .. m.iterations /\ m.iterations >= 1
      /\ m.iterations \in Nat /\ m.index \in Nat
      /\ \A a \in Digest(events).sent : a.iteration = m.iterations => a.index < m.index
  BY <1>1 DEF Lives, Going, ToolCallsMade, Memories
<1>5. Action \notin Digest(events).sent /\ Action.iteration \in Digest(events).iterations
  BY <1>2, <1>4
<1> QED
  BY <1>1, <1>2, <1>3, <1>5

\* A call that is dispatched and rejected at once.
LEMMA Rejected ==
  ASSUME LoopInv, writing = <<>>, at \in {"tools", "refusing"}, m.requests # <<>>,
         NEW r \in ToolOutcomes, r.status = "rejected"
  PROVE  LET e == Dispatched(Action, Head(m.requests))
             f == ToolResult(Action, r, 0, TRUE, TRUE)
             u == Append(Append(events, e), f)
             x == Digest(u)
             d == Digest(events)
         IN  /\ e \in Events /\ f \in Events /\ KeptHere(u, tree)
             /\ x.sent = d.sent \cup {Action} /\ Resolved(x) /\ ~x.ended
             /\ x.tools = d.tools /\ x.rejects = d.rejects + 1 /\ x.muts = d.muts
             /\ x.since = 0 /\ x.puts = d.puts
             /\ x.plan.revisions = d.plan.revisions
             /\ x.plan.step = Recorded(d.plan.step, d.plan.seen, r)
             /\ x.plan.seen = (d.plan.seen \/ r.facts = "retrieval")
             /\ SameCalls(x, d) /\ SameRetries(x, d)
<1> DEFINE kind == Head(m.requests)
           e == Dispatched(Action, kind)
           f == ToolResult(Action, r, 0, TRUE, TRUE)
           d == Digest(events)
           s == Append(events, e)
           y == Digest(s)
           u == Append(s, f)
           x == Digest(u)
<1>1. /\ setup \in Setups /\ KeptHere(events, tree) /\ tree \in Nat
      /\ Action \in Actions /\ kind \in Kinds
      /\ Action \notin d.sent /\ Action.iteration \in d.iterations
      /\ Consistent(setup, d) /\ Lives(setup, at, m, tree, d)
  BY NextCall
<1>2. ~d.ended /\ d.sent \subseteq d.done /\ d.done \subseteq d.sent /\ tree = d.muts
  BY <1>1 DEF Lives, Resolved, Consistent
<1> HIDE DEF kind
<1>3. /\ e \in Events /\ Kept(setup, Len(events), s, tree)
      /\ y.sent = d.sent \cup {Action} /\ y.done = d.done /\ y.saved = d.saved
      /\ Action \notin d.done
      /\ SameCalls(y, d) /\ SameRetries(y, d) /\ SamePlan(y, d)
      /\ y.tools = d.tools /\ y.rejects = d.rejects /\ y.muts = d.muts
      /\ y.since = d.since /\ y.puts = d.puts /\ ~y.ended
  <2>1. Kept(setup, Len(events), events, tree)
    BY <1>1 DEF KeptHere
  <2> QED
    BY <2>1, <1>1, <1>2, DispatchKept
<1>4. MayResult(y, Action, r, 0, TRUE, tree)
  BY <1>2, <1>3 DEF MayResult, Plus
<1> HIDE DEF e, s
<1>5. f \in Events /\ Kept(setup, Len(events), u, tree) /\ ResultMade(x, y, Action, r, TRUE)
  BY <1>1, <1>3, <1>4, ResultKept
<1> HIDE DEF f, u, x, y
<1>6. /\ x.sent = d.sent \cup {Action} /\ x.done = d.done \cup {Action} /\ ~x.ended
      /\ x.tools = d.tools /\ x.rejects = d.rejects + 1 /\ x.muts = d.muts
      /\ x.since = 0 /\ x.puts = d.puts
  BY <1>3, <1>5 DEF ResultMade, Plus
<1>7. /\ x.plan.revisions = d.plan.revisions
      /\ x.plan.step = Recorded(d.plan.step, d.plan.seen, r)
      /\ x.plan.seen = (d.plan.seen \/ r.facts = "retrieval")
      /\ SameCalls(x, d) /\ SameRetries(x, d)
  BY <1>3, <1>5 DEF ResultMade, SamePlan, SameCalls, SameRetries
<1>8. Resolved(x)
  BY <1>2, <1>6 DEF Resolved
<1> QED
  BY <1>3, <1>5, <1>6, <1>7, <1>8 DEF kind, e, f, s, u, x, KeptHere

\* The result of a refused call.
LEMMA RefusedType ==
  ASSUME NEW kind \in Kinds
  PROVE  Refused(kind) \in ToolOutcomes /\ Refused(kind).status = "rejected"
  BY DEF Refused, Result, ToolOutcomes, Sound, Kinds

\* The next call of a refused answer.
LEMMA RefuseNextInv == ASSUME LoopInv, RefuseNext PROVE LoopInv'
<1> DEFINE kind == Head(m.requests)
           r == Refused(kind)
           e == Dispatched(Action, kind)
           f == ToolResult(Action, r, 0, TRUE, TRUE)
           d == Digest(events)
           u == Append(Append(events, e), f)
           x == Digest(u)
<1>1. /\ writing = <<>> /\ at = "refusing" /\ m.requests # <<>> /\ at' = "refusing"
      /\ writing' = <<e, f>> /\ Unmoved /\ tree' = tree
      /\ m' = [m EXCEPT !.requests = Tail(m.requests), !.index = m.index + 1,
                        !.rejectedToolCalls = m.rejectedToolCalls + 1]
  BY DEF RefuseNext, Go, RefuseRequest
<1>2. /\ setup \in Setups /\ events \in Seq(Events) /\ m \in Memories /\ kind \in Kinds
      /\ Lives(setup, "refusing", m, tree, d)
      /\ Action.index = m.index /\ Action.iteration = m.iterations
  BY <1>1, NextCall
<1>3. /\ tree = d.muts /\ d.iterations = 1 .. m.iterations /\ ToolCallsMade("refusing", m, d)
      /\ d.begun \ d.answered = {}
  BY <1>2 DEF Lives, Going, OpenCalls
<1>4. /\ e \in Events /\ f \in Events /\ KeptHere(u, tree)
      /\ x.sent = d.sent \cup {Action} /\ Resolved(x) /\ ~x.ended /\ x.muts = d.muts
      /\ SameCalls(x, d)
  <2>1. r \in ToolOutcomes /\ r.status = "rejected"
    BY <1>2, RefusedType
  <2> HIDE DEF r
  <2> QED
    BY <1>1, <2>1, Rejected
<1>5. /\ m' \in Memories /\ m'.iterations = m.iterations /\ m'.recoveries = m.recoveries
      /\ m'.toolCalls = m.toolCalls /\ m'.index = m.index + 1
  <2> DEFINE rest == Tail(m.requests)
             i == m.index + 1
             j == m.rejectedToolCalls + 1
  <2>1. rest \in Seq(Kinds) /\ i \in Nat /\ j \in Nat
    BY <1>1, <1>2 DEF Memories
  <2>2. m' = [m EXCEPT !.requests = rest, !.index = i, !.rejectedToolCalls = j]
    BY <1>1
  <2> HIDE DEF rest, i, j
  <2>3. m' \in Memories
    BY <1>2, <2>1, <2>2 DEF Memories
  <2> QED
    BY <2>2, <2>3, <1>2 DEF Memories, i
<1>6. MemoryFits(m') /\ tree' \in 0 .. MaxToolCalls
  BY <1>1, <1>5, Fits DEF MemoryFits
<1> HIDE DEF e, f, x, kind
<1>7. ToolCallsMade("refusing", m', x)
  <2>1. m.index \in Nat /\ m.index >= 1 /\ m.iterations >= 1
        /\ \A a \in d.sent : a.iteration = m.iterations => a.index < m.index
    BY <1>2, <1>3 DEF ToolCallsMade, Memories
  <2>2. \A a \in d.sent : a.index \in Nat
    BY Ready, <1>1 DEF DigestTyped, Actions, Gone
  <2>3. \A a \in x.sent : a.iteration = m'.iterations => a.index < m'.index
    BY <2>1, <2>2, <1>2, <1>4, <1>5
  <2> QED
    BY <2>1, <2>3, <1>5 DEF ToolCallsMade
<1>8. x.begun \ x.answered = {} /\ x.iterations = 1 .. m'.iterations /\ x.muts = tree
  BY <1>3, <1>4, <1>5 DEF SameCalls
<1>9. Lives(setup, "refusing", m', tree, x)
  BY <1>4, <1>7, <1>8 DEF Lives, Going, OpenCalls
<1>10. events \o writing' = u /\ writing' \in Seq(Events)
  BY <1>1, <1>2, <1>4, Appended
<1> QED
  BY <1>1, <1>4, <1>6, <1>9, <1>10, GoesOn DEF x, Between, Gone

\* A call over the budget is refused, and the attempt ends.
LEMMA RefuseToolInv == ASSUME LoopInv, RefuseTool PROVE LoopInv'
<1> DEFINE kind == Head(m.requests)
           r == Refused(kind)
           e == Dispatched(Action, kind)
           f == ToolResult(Action, r, 0, TRUE, TRUE)
           u == Append(Append(events, e), f)
<1>1. /\ writing = <<>> /\ at = "tools" /\ m.requests # <<>> /\ Fail(<<e, f>>, "tool-limit")
      /\ Unmoved /\ tree' = tree
      /\ m' = [m EXCEPT !.rejectedToolCalls = m.rejectedToolCalls + 1]
  BY DEF RefuseTool, Fail, Go, RefuseRequest
<1>2. m \in Memories /\ kind \in Kinds
  BY <1>1, NextCall
<1>3. /\ e \in Events /\ f \in Events /\ KeptHere(u, tree)
      /\ Resolved(Digest(u)) /\ ~Digest(u).ended
  <2>1. r \in ToolOutcomes /\ r.status = "rejected"
    BY <1>2, RefusedType
  <2> HIDE DEF r
  <2> QED
    BY <1>1, <2>1, Rejected
<1>4. MemoryFits(m')
  <2> DEFINE j == m.rejectedToolCalls + 1
  <2>1. j \in Nat
    BY <1>2 DEF Memories
  <2>2. m' = [m EXCEPT !.rejectedToolCalls = j]
    BY <1>1
  <2> HIDE DEF j
  <2>3. m' \in Memories /\ m'.recoveries = m.recoveries /\ m'.iterations = m.iterations
        /\ m'.toolCalls = m.toolCalls
    BY <1>2, <2>1, <2>2 DEF Memories
  <2> QED
    BY <2>3, Fits DEF MemoryFits
<1>5. "tool-limit" \in Reasons /\ "tool-limit" # "finished"
  BY DEF Reasons
<1> HIDE DEF e, f
<1> QED
  BY <1>1, <1>3, <1>4, <1>5, Fails2

\* A call is dispatched.
LEMMA DispatchToolInv == ASSUME LoopInv, DispatchTool PROVE LoopInv'
<1> DEFINE kind == Head(m.requests)
           e == Dispatched(Action, kind)
           d == Digest(events)
           s == Append(events, e)
           x == Digest(s)
<1>1. /\ writing = <<>> /\ at = "tools" /\ m.requests # <<>> /\ at' = "executing"
      /\ writing' = <<e>> /\ Unmoved /\ tree' = tree /\ m' = m
      /\ ~(m.toolCalls >= MaxToolCalls)
  BY DEF DispatchTool, Go, BudgetSpent
<1>2. /\ setup \in Setups /\ events \in Seq(Events) /\ m \in Memories /\ kind \in Kinds
      /\ KeptHere(events, tree) /\ Consistent(setup, d) /\ Lives(setup, "tools", m, tree, d)
      /\ Action \in Actions /\ Action \notin d.sent /\ Action.iteration \in d.iterations
  BY <1>1, NextCall
<1>3. /\ ~d.ended /\ d.sent \subseteq d.done /\ d.done \subseteq d.sent /\ tree = d.muts
      /\ d.iterations = 1 .. m.iterations /\ d.begun \ d.answered = {}
      /\ Counters("tools", m, d) /\ Corrections("tools", m, d) /\ ToolCallsMade("tools", m, d)
      /\ PlanKnown("tools", setup, m, d) /\ AtRestNow("tools", m)
  BY <1>2 DEF Lives, Going, OpenCalls, Resolved, Consistent
<1> HIDE DEF kind
<1>4. /\ e \in Events /\ Kept(setup, Len(events), s, tree)
      /\ x.sent = d.sent \cup {Action} /\ x.done = d.done /\ x.saved = d.saved
      /\ Action \notin d.done
      /\ SameCalls(x, d) /\ SameRetries(x, d) /\ SamePlan(x, d)
      /\ x.tools = d.tools /\ x.rejects = d.rejects /\ x.muts = d.muts
      /\ x.since = d.since /\ x.puts = d.puts /\ ~x.ended
  <2>1. Kept(setup, Len(events), events, tree)
    BY <1>2 DEF KeptHere
  <2>2. /\ setup \in Setups /\ kind \in Kinds /\ ~d.ended
        /\ Action \in Actions /\ Action \notin d.sent /\ Action.iteration \in d.iterations
    BY <1>2, <1>3 DEF kind
  <2> QED
    BY <2>1, <2>2, DispatchKept
<1> HIDE DEF e, x
<1>5. ToolCallsMade("executing", m, x)
  <2>1. x.sent \ x.done = {Action} /\ Action \in x.sent
    BY <1>3, <1>4
  <2>2. \A a \in x.sent : a.iteration = m.iterations => a.index < m.index \/ a = Action
    BY <1>3, <1>4 DEF ToolCallsMade
  <2>3. m.toolCalls < MaxToolCalls
    BY <1>1, <1>2, PolicyAssumption DEF Memories
  <2>4. /\ m.index >= 1 /\ m.iterations >= 1
        /\ m.index > 1 => x.since = 0
    BY <1>3, <1>4 DEF ToolCallsMade
  <2> QED
    BY <2>1, <2>2, <2>3, <2>4, <1>1 DEF ToolCallsMade, Action
<1>6. Counters("executing", m, x)
  BY <1>3, <1>4 DEF Counters, SameCalls, SameRetries, SamePlan
<1>7. Corrections("executing", m, x)
  BY <1>3, <1>4 DEF Corrections, SameRetries, Going
<1>8. PlanKnown("executing", setup, m, x) /\ AtRestNow("executing", m)
  BY <1>3, <1>4 DEF PlanKnown, SamePlan, AtRestNow, Going
<1>9. x.begun \ x.answered = {} /\ x.iterations = 1 .. m.iterations /\ x.muts = tree
  BY <1>3, <1>4 DEF SameCalls
<1>10. Lives(setup, "executing", m, tree, x)
  BY <1>4, <1>5, <1>6, <1>7, <1>8, <1>9 DEF Lives, Going, OpenCalls
<1>11. events \o writing' = s /\ writing' \in Seq(Events)
  BY <1>1, <1>2, <1>4, Appended
<1> QED
  BY <1>1, <1>4, <1>10, <1>11, Fits, GoesOn DEF x, Awaiting, Gone, KeptHere

\* Of a tool that is not part of the presentation.
LEMMA DispatchUnavailableInv == ASSUME LoopInv, DispatchUnavailable PROVE LoopInv'
<1> DEFINE kind == Head(m.requests)
           r == Result(kind, "rejected", "none", "other")
           e == Dispatched(Action, kind)
           f == ToolResult(Action, r, 0, TRUE, TRUE)
           d == Digest(events)
           u == Append(Append(events, e), f)
           x == Digest(u)
<1>1. /\ writing = <<>> /\ at = "tools" /\ m.requests # <<>> /\ at' = "settling"
      /\ writing' = <<e, f>> /\ Unmoved /\ tree' = tree
      /\ m' = [Counted(m, r) EXCEPT !.result = r]
  BY DEF DispatchUnavailable, Go
<1>2. /\ setup \in Setups /\ events \in Seq(Events) /\ m \in Memories /\ kind \in Kinds
      /\ Lives(setup, "tools", m, tree, d) /\ Consistent(setup, d)
      /\ Action.index = m.index /\ Action.iteration = m.iterations
  BY <1>1, NextCall
<1>3. /\ tree = d.muts /\ d.iterations = 1 .. m.iterations /\ d.begun \ d.answered = {}
      /\ Counters("tools", m, d) /\ Corrections("tools", m, d) /\ ToolCallsMade("tools", m, d)
      /\ PlanKnown("tools", setup, m, d)
  BY <1>2 DEF Lives, Going, OpenCalls
<1>4. r \in ToolOutcomes /\ r.status = "rejected"
  BY <1>2 DEF Result, ToolOutcomes, Sound, Kinds
<1> HIDE DEF kind, r
<1>5. /\ e \in Events /\ f \in Events /\ KeptHere(u, tree)
      /\ x.sent = d.sent \cup {Action} /\ Resolved(x) /\ ~x.ended
      /\ x.tools = d.tools /\ x.rejects = d.rejects + 1 /\ x.muts = d.muts
      /\ x.since = 0 /\ x.puts = d.puts
      /\ x.plan.revisions = d.plan.revisions
      /\ x.plan.step = Recorded(d.plan.step, d.plan.seen, r)
      /\ x.plan.seen = (d.plan.seen \/ r.facts = "retrieval")
      /\ SameCalls(x, d) /\ SameRetries(x, d)
  BY <1>1, <1>4, Rejected DEF kind
<1>6. /\ m' \in Memories /\ SameMemory(m', m) /\ m'.toolCalls = m.toolCalls
      /\ m'.rejectedToolCalls = m.rejectedToolCalls + 1
      /\ m'.requests = m.requests /\ m'.index = m.index /\ m'.result = r
      /\ m'.step = m.step /\ m'.seen = m.seen
  <2> DEFINE mem == Counted(m, r)
  <2>1. /\ mem \in Memories /\ SameMemory(mem, m) /\ mem.toolCalls = m.toolCalls
        /\ mem.rejectedToolCalls = m.rejectedToolCalls + 1
        /\ mem.requests = m.requests /\ mem.index = m.index
        /\ mem.step = m.step /\ mem.seen = m.seen
    BY <1>2, <1>4, CountedType DEF Plus
  <2> HIDE DEF mem
  <2>2. m' = [mem EXCEPT !.result = r]
    BY <1>1 DEF mem
  <2> QED
    BY <2>1, <2>2, <1>4, ResultType DEF SameMemory
<1>7. MemoryFits(m') /\ tree' \in 0 .. MaxToolCalls
  BY <1>1, <1>6, Fits DEF MemoryFits, SameMemory
<1> HIDE DEF e, f, x
<1>8. ToolCallsMade("settling", m', x)
  <2>1. /\ m.index >= 1 /\ m.iterations >= 1 /\ m.index \in Nat
        /\ \A a \in d.sent : a.iteration = m.iterations => a.index < m.index
    BY <1>2, <1>3 DEF ToolCallsMade, Memories
  <2>2. \A a \in d.sent : a.index \in Nat
    BY <1>2 DEF Consistent, DigestTyped, Actions
  <2>3. \A a \in x.sent : a.iteration = m.iterations => a.index <= m.index
    BY <2>1, <2>2, <1>2, <1>5
  <2> QED
    BY <2>1, <2>3, <1>1, <1>5, <1>6 DEF ToolCallsMade, SameMemory
<1>9. Counters("settling", m', x)
  BY <1>3, <1>5, <1>6 DEF Counters, SameCalls, SameRetries, SameMemory
<1>10. Corrections("settling", m', x)
  BY <1>3, <1>5, <1>6 DEF Corrections, SameRetries, Going, SameMemory
<1>11. PlanKnown("settling", setup, m', x)
  BY <1>3, <1>4, <1>5, <1>6 DEF PlanKnown
<1>12. AtRestNow("settling", m')
  BY DEF AtRestNow
<1>13. x.begun \ x.answered = {} /\ x.iterations = 1 .. m'.iterations /\ x.muts = tree
  BY <1>3, <1>5, <1>6 DEF SameCalls, SameMemory
<1>14. Lives(setup, "settling", m', tree, x)
  BY <1>5, <1>8, <1>9, <1>10, <1>11, <1>12, <1>13 DEF Lives, Going, OpenCalls
<1>15. events \o writing' = u /\ writing' \in Seq(Events)
  BY <1>1, <1>2, <1>5, Appended
<1> QED
  BY <1>1, <1>5, <1>7, <1>14, <1>15, GoesOn DEF x, Between, Gone

\* What is known while a call is carried out.
LEMMA Executing ==
  ASSUME LoopInv, writing = <<>>, at = "executing"
  PROVE  LET d == Digest(events)
         IN  /\ setup \in Setups /\ events \in Seq(Events) /\ m \in Memories /\ tree \in Nat
             /\ Kept(setup, Len(events), events, tree) /\ Consistent(setup, d)
             /\ Action \in Actions /\ Action.index = m.index /\ Action.iteration = m.iterations
             /\ Action \in d.sent \ d.done /\ d.sent = d.done \cup {Action} /\ ~d.ended
             /\ d.done \subseteq d.sent /\ Action \notin d.done
             /\ Action.iteration \in d.iterations
             /\ tree = d.muts
             /\ d.iterations = 1 .. m.iterations /\ d.begun \ d.answered = {}
             /\ Counters("executing", m, d) /\ Corrections("executing", m, d)
             /\ ToolCallsMade("executing", m, d)
             /\ PlanKnown("executing", setup, m, d) /\ AtRestNow("executing", m)
             /\ d.tools = m.toolCalls /\ m.toolCalls < MaxToolCalls
             /\ m.requests # <<>> /\ Head(m.requests) \in Kinds
             /\ \A a \in d.sent : a.iteration = m.iterations => a.index <= m.index
<1> DEFINE d == Digest(events)
<1>1. /\ setup \in Setups /\ events \in Seq(Events) /\ m \in Memories /\ tree \in Nat
      /\ Kept(setup, Len(events), events, tree) /\ Consistent(setup, d)
      /\ Lives(setup, "executing", m, tree, d)
  BY Ready DEF Gone, KeptHere
<1>2. /\ ~d.ended /\ tree = d.muts
      /\ d.iterations = 1 .. m.iterations /\ d.begun \ d.answered = {}
      /\ Counters("executing", m, d) /\ Corrections("executing", m, d)
      /\ ToolCallsMade("executing", m, d)
      /\ PlanKnown("executing", setup, m, d) /\ AtRestNow("executing", m)
  BY <1>1 DEF Lives, Going, OpenCalls
<1>3. Action \in Actions /\ Action.index = m.index /\ Action.iteration = m.iterations
  BY <1>1 DEF Action, Actions, Memories
<1>4. /\ Action \in d.sent /\ d.sent \ d.done = {Action}
      /\ m.toolCalls < MaxToolCalls /\ m.requests # <<>>
      /\ m.iterations >= 1
      /\ \A a \in d.sent : a.iteration = m.iterations => a.index < m.index \/ a = Action
  BY <1>2 DEF ToolCallsMade, Action
<1>5. d.done \subseteq d.sent /\ d.sent \subseteq Actions
  BY <1>1 DEF Consistent, DigestTyped
<1>6. \A a \in d.sent : a.iteration = m.iterations => a.index <= m.index
  <2>1. m.index \in Nat /\ \A a \in d.sent : a.index \in Nat
    BY <1>1, <1>5 DEF Actions, Memories
  <2> QED
    BY <2>1, <1>3, <1>4
<1>7. Head(m.requests) \in Kinds
  BY <1>1, <1>4 DEF Memories
<1>8. d.tools = m.toolCalls
  BY <1>2 DEF Counters
<1>9. Action.iteration \in d.iterations
  BY <1>1, <1>2, <1>3, <1>4 DEF Memories
<1>10. Action \in d.sent \ d.done /\ d.sent = d.done \cup {Action} /\ Action \notin d.done
  BY <1>4, <1>5
<1> QED
  BY <1>1, <1>2, <1>3, <1>4, <1>5, <1>6, <1>7, <1>8, <1>9, <1>10

\* What a tool that was executed answers.
LEMMA ResultsType ==
  ASSUME NEW kind \in Kinds, NEW r \in Results(kind)
  PROVE  r \in ToolOutcomes /\ r.kind # "composition"
<1>1. CASE kind = "retrieval"
  BY <1>1 DEF Results, Result, ToolOutcomes, Sound, Kinds
<1>2. CASE kind = "mutation"
  <2>1. \/ \E s \in {"ok", "rejected"} : r = Result(kind, s, "none", kind)
        \/ r = Result(kind, "error", "none", "other")
    BY <1>2 DEF Results
  <2> QED
    BY <2>1, <1>2 DEF Result, ToolOutcomes, Sound, Kinds
<1>3. CASE kind = "verification"
  <2>1. \/ \E o \in {"passed", "failed"} : r = Result(kind, "ok", o, kind)
        \/ r = Result(kind, "rejected", "not-run", kind)
    BY <1>3 DEF Results
  <2> QED
    BY <2>1, <1>3 DEF Result, ToolOutcomes, Sound, Kinds
<1>4. CASE kind = "composition"
  BY <1>4 DEF Results
<1> QED
  BY <1>1, <1>2, <1>3, <1>4 DEF Kinds

\* The worktree after a result, and what the result shows of it.
LEMMA AfterType ==
  ASSUME tree \in Nat, NEW r \in ToolOutcomes
  PROVE  /\ After(r) \in Nat /\ Observed(r) \in Nat
         /\ After(r) = Plus(tree, r.facts = "mutation" /\ r.status = "ok")
         /\ r.status = "ok" /\ r.facts = "verification" => Observed(r) = tree
  BY DEF After, Observed, Plus

\* The worktree has changed as often as accepted calls did, at the most.
LEMMA TreeFits ==
  ASSUME NEW c \in Setups, NEW n, NEW s, NEW t, Kept(c, n, s, t), Resolved(Digest(s))
  PROVE  t \in 0 .. MaxToolCalls
<1>1. Consistent(c, Digest(s)) /\ Known(Digest(s), t)
  BY KeptConsistent
<1> QED
  BY <1>1, PolicyAssumption DEF Consistent, DigestTyped, Known

\* The stages after a result are alike, but for the checkpoint.
LEMMA HasResult ==
  ASSUME LoopInv, writing = <<>>, at = "executing", NEW w \in {"checkpointing", "settling"},
         NEW mem \in Memories, NEW r \in ToolOutcomes, NEW x, NEW t,
         SameMemory(mem, m), mem.requests = m.requests, mem.index = m.index, mem.result = r,
         mem.toolCalls = x.tools, mem.rejectedToolCalls = x.rejects,
         ~x.ended, Resolved(x), x.muts = t, x.since = 0,
         SameCalls(x, Digest(events)), SameRetries(x, Digest(events)),
         x.puts = Digest(events).puts, x.plan.revisions = Digest(events).plan.revisions,
         w = "checkpointing" => Action \in x.done \ x.saved,
         \A a \in x.sent : a.iteration = m.iterations => a.index <= m.index,
         PlanKnown("settling", setup, mem, x)
  PROVE  Lives(setup, w, mem, t, x)
<1> DEFINE d == Digest(events)
<1>1. /\ d.iterations = 1 .. m.iterations /\ d.begun \ d.answered = {}
      /\ Counters("executing", m, d) /\ Corrections("executing", m, d)
      /\ ToolCallsMade("executing", m, d)
  BY Executing
<1>2. ToolCallsMade(w, mem, x)
  <2>1. m.index >= 1 /\ m.iterations >= 1 /\ m.requests # <<>>
    BY <1>1 DEF ToolCallsMade
  <2>2. w = "checkpointing" =>
          [iteration |-> mem.iterations, index |-> mem.index, nested |-> 0] \in x.done \ x.saved
    BY DEF Action, SameMemory
  <2> QED
    BY <2>1, <2>2 DEF ToolCallsMade, SameMemory
<1>3. Counters(w, mem, x)
  BY <1>1 DEF Counters, SameCalls, SameRetries, SameMemory
<1>4. Corrections(w, mem, x)
  BY <1>1 DEF Corrections, SameRetries, Going, SameMemory
<1>5. PlanKnown(w, setup, mem, x) /\ AtRestNow(w, mem)
  BY DEF PlanKnown, AtRestNow, Going
<1>6. x.begun \ x.answered = {} /\ x.iterations = 1 .. mem.iterations
  BY <1>1 DEF SameCalls, SameMemory
<1> QED
  BY <1>2, <1>3, <1>4, <1>5, <1>6 DEF Lives, Going, OpenCalls

\* A tool is executed.
LEMMA ExecuteToolInv ==
  ASSUME LoopInv, NEW r, ExecuteTool(r)
  PROVE  LoopInv'
<1> DEFINE kind == Head(m.requests)
           e == ToolResult(Action, r, Observed(r), TRUE, TRUE)
           d == Digest(events)
           s == Append(events, e)
           x == Digest(s)
           w == IF setup.durable /\ r.facts = "mutation" /\ ~aborted THEN "checkpointing"
                ELSE "settling"
<1>1. /\ writing = <<>> /\ at = "executing" /\ r \in Results(kind) /\ tree' = After(r)
      /\ m' = [Counted(m, r) EXCEPT !.result = r] /\ writing' = <<e>> /\ at' = w /\ Unmoved
  BY DEF ExecuteTool, Go
<1>2. /\ setup \in Setups /\ events \in Seq(Events) /\ m \in Memories /\ tree \in Nat
      /\ Kept(setup, Len(events), events, tree)
      /\ Action \in Actions
      /\ Action \in d.sent /\ d.sent = d.done \cup {Action} /\ ~d.ended /\ Action \notin d.done
      /\ tree = d.muts /\ kind \in Kinds
      /\ PlanKnown("executing", setup, m, d) /\ d.tools = m.toolCalls
      /\ m.toolCalls < MaxToolCalls /\ d.rejects = m.rejectedToolCalls
      /\ \A a \in d.sent : a.iteration = m.iterations => a.index <= m.index
  BY <1>1, Executing DEF Counters
<1>3. r \in ToolOutcomes /\ r.kind # "composition"
  BY <1>1, <1>2, ResultsType
<1>4. /\ After(r) \in Nat /\ Observed(r) \in Nat
      /\ After(r) = Plus(tree, r.facts = "mutation" /\ r.status = "ok")
      /\ r.status = "ok" /\ r.facts = "verification" => Observed(r) = tree
  BY <1>2, <1>3, AfterType
<1>5. /\ e \in Events /\ Kept(setup, Len(events), s, After(r))
      /\ ResultMade(x, d, Action, r, TRUE)
  <2>1. Kept(setup, Len(events), events, After(r))
    BY <1>2, KeptNow DEF Known, Resolved
  <2>2. MayResult(d, Action, r, Observed(r), TRUE, After(r))
    BY <1>2, <1>3, <1>4 DEF MayResult
  <2> QED
    BY <2>1, <2>2, <1>2, <1>3, <1>4, ResultKept
<1> HIDE DEF e, x, w, kind
<1>6. /\ m' \in Memories /\ SameMemory(m', m)
      /\ m'.toolCalls = Plus(m.toolCalls, r.status # "rejected")
      /\ m'.rejectedToolCalls = Plus(m.rejectedToolCalls, r.status = "rejected")
      /\ m'.requests = m.requests /\ m'.index = m.index /\ m'.result = r
      /\ m'.step = m.step /\ m'.seen = m.seen
  <2> DEFINE mem == Counted(m, r)
  <2>1. /\ mem \in Memories /\ SameMemory(mem, m)
        /\ mem.toolCalls = Plus(m.toolCalls, r.status # "rejected")
        /\ mem.rejectedToolCalls = Plus(m.rejectedToolCalls, r.status = "rejected")
        /\ mem.requests = m.requests /\ mem.index = m.index
        /\ mem.step = m.step /\ mem.seen = m.seen
    BY <1>2, <1>3, CountedType
  <2> HIDE DEF mem
  <2>2. m' = [mem EXCEPT !.result = r]
    BY <1>1 DEF mem
  <2> QED
    BY <2>1, <2>2, <1>3, ResultType DEF SameMemory
<1>7. Resolved(x)
  BY <1>2, <1>5 DEF Resolved, ResultMade
<1>8. MemoryFits(m')
  <2>1. m'.toolCalls <= MaxToolCalls
    <3>1. m.toolCalls \in Nat
      BY <1>2 DEF Memories
    <3> QED
      BY <3>1, <1>2, <1>6, PolicyAssumption DEF Plus
  <2> QED
    BY <2>1, <1>6, Fits DEF MemoryFits, SameMemory
<1>9. tree' \in 0 .. MaxToolCalls
  BY <1>1, <1>2, <1>5, <1>7, TreeFits DEF x
<1>10. Lives(setup, w, m', After(r), x)
  <2>1. m'.toolCalls = x.tools /\ m'.rejectedToolCalls = x.rejects /\ x.muts = After(r)
    BY <1>2, <1>4, <1>5, <1>6 DEF ResultMade
  <2>2. PlanKnown("settling", setup, m', x)
    BY <1>2, <1>3, <1>5, <1>6 DEF PlanKnown, ResultMade
  <2>3. /\ ~x.ended /\ x.since = 0 /\ SameCalls(x, d) /\ SameRetries(x, d)
        /\ x.puts = d.puts /\ x.plan.revisions = d.plan.revisions
        /\ Action \in x.done \ x.saved
        /\ \A a \in x.sent : a.iteration = m.iterations => a.index <= m.index
    BY <1>2, <1>5 DEF ResultMade
  <2>4. w \in {"checkpointing", "settling"}
    BY DEF w
  <2> QED
    BY <2>1, <2>2, <2>3, <2>4, <1>1, <1>3, <1>6, <1>7, HasResult
<1>11. events \o writing' = s /\ writing' \in Seq(Events)
  BY <1>1, <1>2, <1>5, Appended
<1>12. w \in Awaiting \cup Between /\ w # "start"
  BY DEF w, Awaiting, Between
<1> QED
  BY <1>1, <1>5, <1>8, <1>9, <1>10, <1>11, <1>12, GoesOn DEF x, KeptHere

\* A composition without a nested call.
LEMMA ComposeAloneInv ==
  ASSUME LoopInv, NEW status \in {"ok", "error", "rejected"}, ComposeAlone(status)
  PROVE  LoopInv'
<1> DEFINE r == Result("composition", status, "none", "other")
           counts == status = "rejected"
           e == ToolResult(Action, r, 0, TRUE, counts)
           d == Digest(events)
           s == Append(events, e)
           x == Digest(s)
           mem == IF status = "rejected" THEN Counted(m, r) ELSE m
<1>1. /\ writing = <<>> /\ at = "executing" /\ Composition(Head(m.requests)) /\ tree' = tree
      /\ m' = [mem EXCEPT !.result = r] /\ writing' = <<e>> /\ at' = "settling" /\ Unmoved
  BY DEF ComposeAlone, Go
<1>2. /\ setup \in Setups /\ events \in Seq(Events) /\ m \in Memories /\ tree \in Nat
      /\ Kept(setup, Len(events), events, tree)
      /\ Action \in Actions
      /\ Action \in d.sent /\ d.sent = d.done \cup {Action} /\ ~d.ended /\ Action \notin d.done
      /\ tree = d.muts
      /\ PlanKnown("executing", setup, m, d) /\ d.tools = m.toolCalls
      /\ d.rejects = m.rejectedToolCalls
      /\ \A a \in d.sent : a.iteration = m.iterations => a.index <= m.index
  BY <1>1, Executing DEF Counters
<1>3. /\ r \in ToolOutcomes /\ r.status = status /\ r.kind = "composition" /\ r.facts = "other"
      /\ counts \in BOOLEAN
  BY DEF Result, ToolOutcomes, Sound, Kinds
<1>4. setup.presentation = "code"
  BY <1>1 DEF Composition, Offered
<1> HIDE DEF r
<1>5. e \in Events /\ Kept(setup, Len(events), s, tree) /\ ResultMade(x, d, Action, r, counts)
  <2>1. MayResult(d, Action, r, 0, counts, tree)
    BY <1>2, <1>3 DEF MayResult, Plus
  <2>2. setup \in Setups /\ ~d.ended /\ Action \in Actions /\ counts \in BOOLEAN
        /\ 0 \in Nat /\ TRUE \in BOOLEAN /\ r \in ToolOutcomes
        /\ Kept(setup, Len(events), events, tree)
    BY <1>2, <1>3
  <2> HIDE DEF counts
  <2> QED
    BY <2>1, <2>2, ResultKept
<1> HIDE DEF e, x
<1>6. /\ m' \in Memories /\ SameMemory(m', m) /\ m'.toolCalls = m.toolCalls
      /\ m'.rejectedToolCalls = Plus(m.rejectedToolCalls, counts)
      /\ m'.requests = m.requests /\ m'.index = m.index /\ m'.result = r
      /\ m'.step = m.step /\ m'.seen = m.seen
  <2>1. /\ mem \in Memories /\ SameMemory(mem, m) /\ mem.toolCalls = m.toolCalls
        /\ mem.rejectedToolCalls = Plus(m.rejectedToolCalls, counts)
        /\ mem.requests = m.requests /\ mem.index = m.index
        /\ mem.step = m.step /\ mem.seen = m.seen
    <3>1. CASE status = "rejected"
      BY <3>1, <1>2, <1>3, CountedType DEF Plus
    <3>2. CASE status # "rejected"
      BY <3>2, <1>2 DEF SameMemory, Plus
    <3> QED
      BY <3>1, <3>2
  <2> HIDE DEF mem
  <2> QED
    BY <2>1, <1>1, <1>3, ResultType DEF SameMemory
<1>7. Resolved(x)
  BY <1>2, <1>5 DEF Resolved, ResultMade
<1>8. MemoryFits(m') /\ tree' \in 0 .. MaxToolCalls
  BY <1>1, <1>6, Fits DEF MemoryFits, SameMemory
<1>9. Lives(setup, "settling", m', tree, x)
  <2>1. m'.toolCalls = x.tools /\ m'.rejectedToolCalls = x.rejects /\ x.muts = tree
    BY <1>2, <1>3, <1>5, <1>6 DEF ResultMade, Plus
  <2>2. PlanKnown("settling", setup, m', x)
    BY <1>2, <1>3, <1>4, <1>5, <1>6 DEF PlanKnown, ResultMade
  <2>3. /\ ~x.ended /\ x.since = 0 /\ SameCalls(x, d) /\ SameRetries(x, d)
        /\ x.puts = d.puts /\ x.plan.revisions = d.plan.revisions
        /\ \A a \in x.sent : a.iteration = m.iterations => a.index <= m.index
    BY <1>2, <1>5 DEF ResultMade
  <2> QED
    BY <2>1, <2>2, <2>3, <1>1, <1>3, <1>6, <1>7, HasResult
<1>10. events \o writing' = s /\ writing' \in Seq(Events)
  BY <1>1, <1>2, <1>5, Appended
<1> QED
  BY <1>1, <1>5, <1>8, <1>9, <1>10, GoesOn DEF x, KeptHere, Between, Gone

\* The worktree is recorded after a mutation.
LEMMA CheckpointInv == ASSUME LoopInv, Checkpoint PROVE LoopInv'
<1> DEFINE e == WorktreeCheckpoint(Action, tree)
           d == Digest(events)
           s == Append(events, e)
           x == Digest(s)
<1>1. /\ writing = <<>> /\ at = "checkpointing" /\ at' = "settling" /\ writing' = <<e>>
      /\ Unmoved /\ tree' = tree /\ m' = m
  BY DEF Checkpoint, Go
<1>2. /\ setup \in Setups /\ events \in Seq(Events) /\ m \in Memories /\ tree \in Nat
      /\ Kept(setup, Len(events), events, tree) /\ Lives(setup, "checkpointing", m, tree, d)
  BY <1>1, Ready DEF Gone, KeptHere
<1>3. /\ ~d.ended /\ Resolved(d) /\ tree = d.muts
      /\ d.iterations = 1 .. m.iterations /\ d.begun \ d.answered = {}
      /\ Counters("checkpointing", m, d) /\ Corrections("checkpointing", m, d)
      /\ ToolCallsMade("checkpointing", m, d)
      /\ PlanKnown("checkpointing", setup, m, d)
  BY <1>2 DEF Lives, Going, OpenCalls
<1>4. Action \in Actions /\ Action \in d.done \ d.saved
  <2>1. Action \in Actions
    BY <1>2 DEF Action, Actions, Memories
  <2> QED
    BY <2>1, <1>3 DEF ToolCallsMade, Action
<1>5. /\ e \in Events /\ Kept(setup, Len(events), s, tree)
      /\ x.sent = d.sent /\ x.done = d.done
      /\ SameCalls(x, d) /\ SameRetries(x, d) /\ SamePlan(x, d)
      /\ x.tools = d.tools /\ x.rejects = d.rejects /\ x.muts = d.muts
      /\ x.since = d.since /\ x.puts = d.puts /\ ~x.ended
  <2>1. setup \in Setups /\ tree \in Nat /\ ~d.ended
    BY <1>2, <1>3
  <2>2. Kept(setup, Len(events), events, tree)
    BY <1>2
  <2> QED
    BY <2>1, <2>2, <1>4, CheckpointKept
<1> HIDE DEF e, x
<1>6. ToolCallsMade("settling", m, x)
  BY <1>3, <1>5 DEF ToolCallsMade
<1>7. Counters("settling", m, x)
  BY <1>3, <1>5 DEF Counters, SameCalls, SameRetries, SamePlan
<1>8. Corrections("settling", m, x)
  BY <1>3, <1>5 DEF Corrections, SameRetries, Going
<1>9. PlanKnown("settling", setup, m, x) /\ AtRestNow("settling", m)
  BY <1>3, <1>5 DEF PlanKnown, SamePlan, AtRestNow, Going
<1>10. /\ Resolved(x) /\ x.begun \ x.answered = {} /\ x.iterations = 1 .. m.iterations
       /\ x.muts = tree
  BY <1>3, <1>5 DEF SameCalls, Resolved
<1>11. Lives(setup, "settling", m, tree, x)
  BY <1>5, <1>6, <1>7, <1>8, <1>9, <1>10 DEF Lives, Going, OpenCalls
<1>12. events \o writing' = s /\ writing' \in Seq(Events)
  BY <1>1, <1>2, <1>5, Appended
<1> QED
  BY <1>1, <1>5, <1>11, <1>12, Fits, GoesOn DEF x, Between, Gone, KeptHere

\* A nested call: its dispatch, its result and, of a mutation, its checkpoint.
LEMMA Nested ==
  ASSUME LoopInv, writing = <<>>, at = "executing", NEW n \in ToolOutcomes,
         n.kind # "composition", NEW saves \in BOOLEAN
  PROVE  LET e == Dispatched(NestedAction, n.kind)
             f == ToolResult(NestedAction, n, Observed(n), FALSE, TRUE)
             g == WorktreeCheckpoint(NestedAction, After(n))
             u == Append(Append(events, e), f)
             s == IF saves THEN Append(u, g) ELSE u
             x == Digest(s)
             d == Digest(events)
         IN  /\ e \in Events /\ f \in Events /\ g \in Events
             /\ Kept(setup, Len(events), s, After(n))
             /\ x.sent = d.sent \cup {NestedAction} /\ x.done = d.done \cup {NestedAction}
             /\ NestedAction # Action /\ NestedAction.index = m.index
             /\ x.tools = Plus(d.tools, n.status # "rejected")
             /\ x.rejects = Plus(d.rejects, n.status = "rejected")
             /\ x.muts = After(n)
             /\ x.plan.revisions = d.plan.revisions
             /\ x.plan.seen = (d.plan.seen \/ n.facts = "retrieval")
             /\ SameCalls(x, d) /\ SameRetries(x, d) /\ x.puts = d.puts /\ ~x.ended
<1> DEFINE e == Dispatched(NestedAction, n.kind)
           f == ToolResult(NestedAction, n, Observed(n), FALSE, TRUE)
           g == WorktreeCheckpoint(NestedAction, After(n))
           d == Digest(events)
           r == Append(events, e)
           z == Digest(r)
           u == Append(r, f)
           y == Digest(u)
           s == IF saves THEN Append(u, g) ELSE u
           x == Digest(s)
<1>1. /\ setup \in Setups /\ events \in Seq(Events) /\ m \in Memories /\ tree \in Nat
      /\ Kept(setup, Len(events), events, tree) /\ Consistent(setup, d)
      /\ Action \in Actions /\ Action.index = m.index /\ Action.iteration = m.iterations
      /\ Action \in d.sent /\ Action \notin d.done /\ ~d.ended /\ tree = d.muts
      /\ Action.iteration \in d.iterations
      /\ ToolCallsMade("executing", m, d)
      /\ d.tools = m.toolCalls /\ m.toolCalls < MaxToolCalls
  BY Executing
<1>2. /\ NestedAction \in Actions /\ NestedAction # Action /\ NestedAction.nested = 1
      /\ NestedAction.index = m.index /\ NestedAction.iteration = m.iterations
  <2>1. Action.nested = 0
    BY DEF Action
  <2>2. NestedAction.nested = 1 /\ NestedAction \in Actions
        /\ NestedAction.index = m.index /\ NestedAction.iteration = m.iterations
    BY <1>1 DEF NestedAction, Actions
  <2> QED
    BY <2>1, <2>2
<1>3. NestedAction \notin d.sent
  <2>1. \A a \in d.sent : a.iteration = m.iterations => a.index < m.index \/ a = Action
    BY <1>1 DEF ToolCallsMade, Action
  <2>2. m.index \in Nat
    BY <1>1 DEF Memories
  <2> QED
    BY <2>1, <2>2, <1>2
<1>4. /\ After(n) \in Nat /\ Observed(n) \in Nat
      /\ After(n) = Plus(tree, n.facts = "mutation" /\ n.status = "ok")
      /\ n.status = "ok" /\ n.facts = "verification" => Observed(n) = tree
  BY <1>1, AfterType
<1>5. n.kind \in Kinds
  BY DEF ToolOutcomes
<1> DEFINE t == After(n)
<1> HIDE DEF t
<1>6. /\ e \in Events /\ Kept(setup, Len(events), r, t)
      /\ z.sent = d.sent \cup {NestedAction} /\ z.done = d.done /\ z.saved = d.saved
      /\ SameCalls(z, d) /\ SameRetries(z, d) /\ SamePlan(z, d)
      /\ z.tools = d.tools /\ z.rejects = d.rejects /\ z.muts = d.muts
      /\ z.puts = d.puts /\ ~z.ended
  <2>1. Kept(setup, Len(events), events, t)
    BY <1>1, KeptNow DEF Known, Resolved
  <2>2. NestedAction.iteration \in d.iterations /\ setup \in Setups /\ ~d.ended
    BY <1>1, <1>2
  <2> QED
    BY <2>1, <2>2, <1>2, <1>3, <1>5, DispatchKept
<1> HIDE DEF e, r
<1>7. f \in Events /\ Kept(setup, Len(events), u, t) /\ ResultMade(y, z, NestedAction, n, TRUE)
  <2>1. MayResult(z, NestedAction, n, Observed(n), TRUE, t)
    <3>1. NestedAction \in z.sent \ z.done /\ ~(z.sent \subseteq z.done \cup {NestedAction})
      <4>1. d.done \subseteq d.sent
        BY <1>1 DEF Consistent
      <4> QED
        BY <4>1, <1>1, <1>2, <1>3, <1>6
    <3> QED
      BY <3>1, <1>1, <1>4, <1>6 DEF MayResult
  <2>2. setup \in Setups /\ ~z.ended /\ NestedAction \in Actions /\ Observed(n) \in Nat
        /\ FALSE \in BOOLEAN /\ TRUE \in BOOLEAN /\ Kept(setup, Len(events), r, t)
    BY <1>1, <1>2, <1>4, <1>6
  <2> QED
    BY <2>1, <2>2, ResultKept
<1> HIDE DEF f, u, z
<1>8. /\ y.sent = d.sent \cup {NestedAction} /\ y.done = d.done \cup {NestedAction}
      /\ NestedAction \in y.done \ y.saved
      /\ y.tools = Plus(d.tools, n.status # "rejected")
      /\ y.rejects = Plus(d.rejects, n.status = "rejected")
      /\ y.muts = t
      /\ y.plan.revisions = d.plan.revisions
      /\ y.plan.seen = (d.plan.seen \/ n.facts = "retrieval")
      /\ SameCalls(y, d) /\ SameRetries(y, d) /\ y.puts = d.puts /\ ~y.ended
  <2>1. y.muts = t
    BY <1>1, <1>4, <1>6, <1>7 DEF ResultMade, t
  <2> QED
    BY <2>1, <1>6, <1>7 DEF ResultMade, SameCalls, SameRetries, SamePlan
<1>9. CASE ~saves
  <2>1. s = u /\ x = y
    BY <1>9
  <2>2. g \in Events
    BY <1>2, <1>4 DEF Events, CheckpointEvents, WorktreeCheckpoint
  <2> QED
    BY <2>1, <2>2, <1>2, <1>6, <1>7, <1>8 DEF e, f, r, u, t
<1>10. CASE saves
  <2>1. s = Append(u, g)
    BY <1>10
  <2> DEFINE v == Digest(Append(u, g))
  <2>2. /\ g \in Events /\ Kept(setup, Len(events), Append(u, g), t)
        /\ v.sent = y.sent /\ v.done = y.done
        /\ SameCalls(v, y) /\ SameRetries(v, y) /\ SamePlan(v, y)
        /\ v.tools = y.tools /\ v.rejects = y.rejects /\ v.muts = y.muts
        /\ v.puts = y.puts /\ ~v.ended
    <3>1. /\ setup \in Setups /\ ~y.ended /\ NestedAction \in Actions /\ After(n) \in Nat
          /\ NestedAction \in y.done \ y.saved /\ Kept(setup, Len(events), u, t)
      BY <1>1, <1>2, <1>4, <1>7, <1>8
    <3> QED
      BY <3>1, CheckpointKept
  <2> HIDE DEF g
  <2>3. /\ v.sent = d.sent \cup {NestedAction} /\ v.done = d.done \cup {NestedAction}
        /\ v.tools = Plus(d.tools, n.status # "rejected")
        /\ v.rejects = Plus(d.rejects, n.status = "rejected")
        /\ v.muts = t
        /\ v.plan.revisions = d.plan.revisions
        /\ v.plan.seen = (d.plan.seen \/ n.facts = "retrieval")
        /\ SameCalls(v, d) /\ SameRetries(v, d) /\ v.puts = d.puts /\ ~v.ended
    BY <2>2, <1>8 DEF SameCalls, SameRetries, SamePlan
  <2> HIDE DEF y
  <2> QED
    BY <2>1, <2>2, <2>3, <1>2, <1>6, <1>7 DEF e, f, g, r, u, t
<1> QED
  BY <1>9, <1>10

\* The events of a composition.
LEMMA Joined ==
  ASSUME NEW e \in Events, NEW f \in Events, NEW g \in Events, NEW h \in Events
  PROVE  /\ <<e, f>> \o <<g>> \o <<h>> = <<e, f, g, h>>
         /\ <<e, f>> \o <<>> \o <<h>> = <<e, f, h>>
<1>1. <<e, f>> \o <<g>> \o <<h>> = <<e, f, g, h>>
  <2> DEFINE s == <<e, f>> \o <<g>> \o <<h>>
  <2>1. /\ s \in Seq(Events) /\ <<e, f, g, h>> \in Seq(Events) /\ Len(s) = 4
        /\ s[1] = e /\ s[2] = f /\ s[3] = g /\ s[4] = h
    OBVIOUS
  <2> HIDE DEF s
  <2>2. \A i \in 1 .. 4 : s[i] = <<e, f, g, h>>[i]
    BY <2>1
  <2>3. s = <<e, f, g, h>>
    BY <2>1, <2>2, SeqEqual
  <2> QED
    BY <2>3 DEF s
<1>2. <<e, f>> \o <<>> \o <<h>> = <<e, f, h>>
  <2> DEFINE s == <<e, f>> \o <<>> \o <<h>>
  <2>1. /\ s \in Seq(Events) /\ <<e, f, h>> \in Seq(Events) /\ Len(s) = 3
        /\ s[1] = e /\ s[2] = f /\ s[3] = h
    OBVIOUS
  <2> HIDE DEF s
  <2>2. \A i \in 1 .. 3 : s[i] = <<e, f, h>>[i]
    BY <2>1
  <2>3. s = <<e, f, h>>
    BY <2>1, <2>2, SeqEqual
  <2> QED
    BY <2>3 DEF s
<1> QED
  BY <1>1, <1>2

\* A composition with a nested call.
LEMMA ComposeInv ==
  ASSUME LoopInv, NEW kind \in Kinds, NEW n \in Results(kind), NEW status \in {"ok", "error"},
         Compose(n, status)
  PROVE  LoopInv'
<1> DEFINE r == Result("composition", status, "none", "other")
           saves == setup.durable /\ n.facts = "mutation"
           e == Dispatched(NestedAction, n.kind)
           f == ToolResult(NestedAction, n, Observed(n), FALSE, TRUE)
           g == WorktreeCheckpoint(NestedAction, After(n))
           h == ToolResult(Action, r, 0, TRUE, FALSE)
           t == After(n)
           d == Digest(events)
           u == Append(Append(events, e), f)
           s == IF saves THEN Append(u, g) ELSE u
           y == Digest(s)
           v == Append(s, h)
           x == Digest(v)
           terminal == IF n.status = "rejected"
                            /\ Counted(m, n).rejectedToolCalls >= MaxRejectedToolCalls
                       THEN "rejected-tool-limit" ELSE "none"
<1>1. /\ writing = <<>> /\ at = "executing" /\ Composition(Head(m.requests)) /\ tree' = t
      /\ m' = [Followed(Counted(m, n), n) EXCEPT !.result = r, !.terminal = terminal]
      /\ writing' = <<e, f>> \o (IF saves THEN <<g>> ELSE <<>>) \o <<h>>
      /\ at' = "settling" /\ Unmoved
  BY DEF Compose, Go
<1>2. /\ setup \in Setups /\ events \in Seq(Events) /\ m \in Memories /\ tree \in Nat
      /\ Action \in Actions /\ Action.index = m.index
      /\ Action \in d.sent /\ d.sent = d.done \cup {Action} /\ Action \notin d.done
      /\ PlanKnown("executing", setup, m, d) /\ d.tools = m.toolCalls
      /\ m.toolCalls < MaxToolCalls /\ d.rejects = m.rejectedToolCalls
      /\ \A a \in d.sent : a.iteration = m.iterations => a.index <= m.index
  BY <1>1, Executing DEF Counters
<1>3. n \in ToolOutcomes /\ n.kind # "composition"
  BY ResultsType
<1>4. /\ r \in ToolOutcomes /\ r.status = status /\ r.status # "rejected"
      /\ r.kind = "composition" /\ r.facts = "other"
  BY DEF Result, ToolOutcomes, Sound, Kinds
<1>5. saves \in BOOLEAN
  BY <1>2, SetupsAssumption
<1>6. setup.presentation = "code"
  BY <1>1 DEF Composition, Offered
<1> HIDE DEF r, saves
<1>7. /\ e \in Events /\ f \in Events /\ g \in Events
      /\ Kept(setup, Len(events), s, t)
      /\ y.sent = d.sent \cup {NestedAction} /\ y.done = d.done \cup {NestedAction}
      /\ NestedAction # Action /\ NestedAction.index = m.index
      /\ y.tools = Plus(d.tools, n.status # "rejected")
      /\ y.rejects = Plus(d.rejects, n.status = "rejected")
      /\ y.muts = t
      /\ y.plan.revisions = d.plan.revisions
      /\ y.plan.seen = (d.plan.seen \/ n.facts = "retrieval")
      /\ SameCalls(y, d) /\ SameRetries(y, d) /\ y.puts = d.puts /\ ~y.ended
  BY <1>1, <1>3, <1>5, Nested
<1> HIDE DEF e, f, g, t
<1>8. s \in Seq(Events)
  BY <1>7, KeptConsistent
<1>9. h \in Events /\ Kept(setup, Len(events), v, t) /\ ResultMade(x, y, Action, r, FALSE)
  <2> HIDE DEF s
  <2>1. MayResult(y, Action, r, 0, FALSE, t)
    BY <1>2, <1>4, <1>7 DEF MayResult, Plus
  <2>2. setup \in Setups /\ ~y.ended /\ 0 \in Nat /\ TRUE \in BOOLEAN /\ FALSE \in BOOLEAN
    BY <1>2, <1>7
  <2> QED
    BY <2>1, <2>2, <1>2, <1>4, <1>7, ResultKept
<1> HIDE DEF h
<1>10. events \o writing' = v /\ writing' \in Seq(Events)
  <2>1. CASE saves
    <3>1. writing' = <<e, f>> \o <<g>> \o <<h>> /\ v = Append(Append(u, g), h)
      BY <2>1, <1>1
    <3>2. writing' = <<e, f, g, h>>
      <4>1. e \in Events /\ f \in Events /\ g \in Events /\ h \in Events
        BY <1>7, <1>9
      <4>2. <<e, f>> \o <<g>> \o <<h>> = <<e, f, g, h>>
        BY <4>1, Joined
      <4> QED
        BY <3>1, <4>2
    <3>3. writing' \in Seq(Events) /\ events \o writing' = Append(Append(u, g), h)
      BY <3>2, <1>2, <1>7, <1>9, Appended
    <3> QED
      BY <3>1, <3>3
  <2>2. CASE ~saves
    <3>1. writing' = <<e, f>> \o <<>> \o <<h>> /\ v = Append(u, h)
      BY <2>2, <1>1
    <3>2. writing' = <<e, f, h>>
      <4>1. e \in Events /\ f \in Events /\ g \in Events /\ h \in Events
        BY <1>7, <1>9
      <4>2. <<e, f>> \o <<>> \o <<h>> = <<e, f, h>>
        BY <4>1, Joined
      <4> QED
        BY <3>1, <4>2
    <3>3. writing' \in Seq(Events) /\ events \o writing' = Append(u, h)
      BY <3>2, <1>2, <1>7, <1>9, Appended
    <3> QED
      BY <3>1, <3>3
  <2> QED
    BY <2>1, <2>2
<1> HIDE DEF s, v, x, y
<1>11. /\ m' \in Memories /\ SameMemory(m', m)
       /\ m'.toolCalls = Plus(m.toolCalls, n.status # "rejected")
       /\ m'.rejectedToolCalls = Plus(m.rejectedToolCalls, n.status = "rejected")
       /\ m'.requests = m.requests /\ m'.index = m.index /\ m'.result = r
       /\ m'.seen = (m.seen \/ n.facts = "retrieval")
  <2> DEFINE counted == Counted(m, n)
             mem == Followed(counted, n)
             new == [mem EXCEPT !.result = r]
  <2>1. /\ counted \in Memories /\ SameMemory(counted, m)
        /\ counted.toolCalls = Plus(m.toolCalls, n.status # "rejected")
        /\ counted.rejectedToolCalls = Plus(m.rejectedToolCalls, n.status = "rejected")
        /\ counted.requests = m.requests /\ counted.index = m.index
        /\ counted.seen = m.seen
    BY <1>2, <1>3, CountedType
  <2>2. m' = [mem EXCEPT !.result = r, !.terminal = terminal]
        /\ terminal \in {"none", "rejected-tool-limit"}
    BY <1>1
  <2> HIDE DEF counted, terminal
  <2>3. /\ mem \in Memories /\ SameMemory(mem, counted)
        /\ mem.toolCalls = counted.toolCalls /\ mem.rejectedToolCalls = counted.rejectedToolCalls
        /\ mem.requests = counted.requests /\ mem.index = counted.index
        /\ mem.seen = (counted.seen \/ n.facts = "retrieval")
    BY <1>3, <2>1, FollowedType
  <2> HIDE DEF mem
  <2>4. /\ new \in Memories /\ SameMemory(new, mem)
        /\ new.toolCalls = mem.toolCalls /\ new.rejectedToolCalls = mem.rejectedToolCalls
        /\ new.requests = mem.requests /\ new.index = mem.index
        /\ new.result = r /\ new.seen = mem.seen
    BY <1>4, <2>3, ResultType
  <2>5. m' = [new EXCEPT !.terminal = terminal]
    BY <2>2, <2>3 DEF Memories
  <2> HIDE DEF new
  <2>6. m' \in Memories
    BY <2>2, <2>4, <2>5 DEF Memories
  <2>7. /\ SameMemory(m', new) /\ m'.toolCalls = new.toolCalls
        /\ m'.rejectedToolCalls = new.rejectedToolCalls
        /\ m'.requests = new.requests /\ m'.index = new.index
        /\ m'.result = new.result /\ m'.seen = new.seen
    BY <2>4, <2>5 DEF Memories, SameMemory
  <2> QED
    BY <2>1, <2>3, <2>4, <2>6, <2>7 DEF SameMemory
<1>12. Resolved(x)
  BY <1>2, <1>7, <1>9 DEF Resolved, ResultMade
<1>13. MemoryFits(m')
  <2>1. m'.toolCalls <= MaxToolCalls
    <3>1. m.toolCalls \in Nat
      BY <1>2 DEF Memories
    <3> QED
      BY <3>1, <1>2, <1>11, PolicyAssumption DEF Plus
  <2> QED
    BY <2>1, <1>11, Fits DEF MemoryFits, SameMemory
<1>14. tree' \in 0 .. MaxToolCalls
  BY <1>1, <1>2, <1>9, <1>12, TreeFits DEF x
<1>15. Lives(setup, "settling", m', t, x)
  <2>1. m'.toolCalls = x.tools /\ m'.rejectedToolCalls = x.rejects /\ x.muts = t
    BY <1>2, <1>4, <1>7, <1>9, <1>11 DEF ResultMade, Plus
  <2>2. PlanKnown("settling", setup, m', x)
    BY <1>2, <1>4, <1>6, <1>7, <1>9, <1>11 DEF PlanKnown, ResultMade
  <2>3. /\ ~x.ended /\ x.since = 0 /\ SameCalls(x, d) /\ SameRetries(x, d)
        /\ x.puts = d.puts /\ x.plan.revisions = d.plan.revisions
    BY <1>7, <1>9 DEF ResultMade, SameCalls, SameRetries
  <2>4. \A a \in x.sent : a.iteration = m.iterations => a.index <= m.index
    <3>1. x.sent = d.sent \cup {NestedAction} /\ m.index \in Nat
      BY <1>2, <1>7, <1>9 DEF ResultMade, Memories
    <3> QED
      BY <3>1, <1>2, <1>7
  <2> QED
    BY <2>1, <2>2, <2>3, <2>4, <1>1, <1>4, <1>11, <1>12, HasResult
<1> QED
  BY <1>1, <1>9, <1>10, <1>13, <1>14, <1>15, GoesOn DEF x, KeptHere, Between, Gone

\* A result is dealt with.
LEMMA SettleInv == ASSUME LoopInv, Settle PROVE LoopInv'
<1> DEFINE r == m.result
           mem == IF Composition(r.kind) THEN m ELSE Followed(m, r)
           d == Digest(events)
<1>1. /\ writing = <<>> /\ at = "settling" /\ at' = "tools" /\ writing' = <<>> /\ Unmoved
      /\ tree' = tree /\ m.terminal = "none" /\ m' = NextRequest(mem)
  BY DEF Settle, Go
<1>2. /\ setup \in Setups /\ events \in Seq(Events) /\ m \in Memories
      /\ KeptHere(events, tree) /\ Lives(setup, "settling", m, tree, d)
  BY <1>1, Ready DEF Gone
<1>3. /\ ~d.ended /\ Resolved(d) /\ tree = d.muts
      /\ d.iterations = 1 .. m.iterations /\ d.begun \ d.answered = {}
      /\ Counters("settling", m, d) /\ Corrections("settling", m, d)
      /\ ToolCallsMade("settling", m, d) /\ PlanKnown("settling", setup, m, d)
  BY <1>2 DEF Lives, Going, OpenCalls
<1>4. /\ r \in ToolOutcomes /\ d.plan.seen = (m.seen \/ r.facts = "retrieval")
      /\ setup.presentation = "native" => d.plan.step = Recorded(m.step, m.seen, r)
  BY <1>3 DEF PlanKnown
<1>5. /\ mem \in Memories /\ SameMemory(mem, m)
      /\ mem.toolCalls = m.toolCalls /\ mem.rejectedToolCalls = m.rejectedToolCalls
      /\ mem.requests = m.requests /\ mem.index = m.index
      /\ mem.terminal = m.terminal
      /\ mem.seen = d.plan.seen
      /\ setup.presentation = "native" => mem.step = d.plan.step
  <2>1. CASE Composition(r.kind)
    <3>1. r.facts # "retrieval" /\ setup.presentation = "code"
      BY <2>1, <1>4 DEF Composition, Offered, ToolOutcomes, Sound
    <3> QED
      BY <2>1, <3>1, <1>2, <1>4 DEF SameMemory, Memories
  <2>2. CASE ~Composition(r.kind)
    <3> HIDE DEF r
    <3>1. /\ Followed(m, r) \in Memories /\ SameMemory(Followed(m, r), m)
          /\ Followed(m, r).toolCalls = m.toolCalls
          /\ Followed(m, r).rejectedToolCalls = m.rejectedToolCalls
          /\ Followed(m, r).requests = m.requests /\ Followed(m, r).index = m.index
          /\ Followed(m, r).terminal = m.terminal
          /\ Followed(m, r).step = Recorded(m.step, m.seen, r)
          /\ Followed(m, r).seen = (m.seen \/ r.facts = "retrieval")
      BY <1>2, <1>4, FollowedType
    <3> QED
      BY <2>2, <3>1, <1>4
  <2> QED
    BY <2>1, <2>2
<1> HIDE DEF mem, r
<1>6. /\ m' \in Memories /\ SameMemory(m', m)
      /\ m'.toolCalls = m.toolCalls /\ m'.rejectedToolCalls = m.rejectedToolCalls
      /\ m'.index = m.index + 1 /\ m'.result = NoResult
      /\ m'.terminal = m.terminal
      /\ m'.seen = d.plan.seen
      /\ setup.presentation = "native" => m'.step = d.plan.step
  <2>1. mem.requests # <<>>
    BY <1>3, <1>5 DEF ToolCallsMade
  <2> QED
    BY <2>1, <1>1, <1>5, NextRequestType DEF SameMemory
<1>7. MemoryFits(m') /\ tree' \in 0 .. MaxToolCalls
  BY <1>1, <1>6, Fits DEF MemoryFits, SameMemory
<1>8. ToolCallsMade("tools", m', d)
  <2>1. /\ m.index >= 1 /\ m.iterations >= 1 /\ m.index \in Nat /\ d.since = 0
        /\ \A a \in d.sent : a.iteration = m.iterations => a.index <= m.index
    BY <1>2, <1>3 DEF ToolCallsMade, Memories
  <2>2. \A a \in d.sent : a.index \in Nat
    BY <1>1, Ready DEF DigestTyped, Actions, Gone
  <2> QED
    BY <2>1, <2>2, <1>6 DEF ToolCallsMade, SameMemory
<1>9. Counters("tools", m', d)
  BY <1>3, <1>6 DEF Counters, SameMemory
<1>10. Corrections("tools", m', d)
  BY <1>3, <1>6 DEF Corrections, Going, SameMemory
<1>11. PlanKnown("tools", setup, m', d)
  BY <1>6 DEF PlanKnown
<1>12. AtRestNow("tools", m')
  BY <1>1, <1>6 DEF AtRestNow, Going
<1>13. Lives(setup, "tools", m', tree, d)
  BY <1>3, <1>6, <1>8, <1>9, <1>10, <1>11, <1>12 DEF Lives, Going, OpenCalls, SameMemory
<1>14. events \o writing' = events /\ writing' \in Seq(Events)
  BY <1>1, <1>2, Appended
<1> QED
  BY <1>1, <1>2, <1>7, <1>13, <1>14, GoesOn DEF Between, Gone

\* What is found in a record is found in a prefix of it, up to its length.
LEMMA PrefixAt ==
  ASSUME NEW s \in Seq(Events), NEW k \in 0 .. Len(s)
  PROVE  /\ \A type : At(Prefix(s, k), type) = {i \in At(s, type) : i <= k}
         /\ \A i \in DOMAIN s : i <= k => Prefix(s, k)[i] = s[i]
<1>1. /\ Prefix(s, k) \in Seq(Events) /\ Len(Prefix(s, k)) = k
      /\ \A i \in 1 .. k : Prefix(s, k)[i] = s[i]
  BY PrefixParts
<1>2. DOMAIN s = 1 .. Len(s) /\ DOMAIN Prefix(s, k) = 1 .. k /\ Len(s) \in Nat
  BY <1>1
<1> QED
  BY <1>1, <1>2 DEF At

\* Each event of a record was accepted after those before it.
LEMMA Accepted ==
  ASSUME NEW c, NEW n, NEW s, NEW t, Kept(c, n, s, t), NEW i \in DOMAIN s
  PROVE  /\ i \in 1 .. Len(s) /\ s[i] \in Events /\ i - 1 \in 0 .. Len(s)
         /\ s \in Seq(Events)
         /\ Accepts(c, Digest(Prefix(s, i - 1)), s[i])
         /\ Consistent(c, Digest(Prefix(s, i - 1)))
<1>1. s \in Seq(Events) /\ Log(c, s)
  BY DEF Kept
<1>2. i \in 1 .. Len(s) /\ s[i] \in Events /\ i - 1 \in 0 .. Len(s)
  BY <1>1
<1> QED
  BY <1>1, <1>2 DEF Log

\* The calls and the actions of an earlier event are in the digest of a prefix.
LEMMA PrefixDigest ==
  ASSUME NEW s \in Seq(Events), NEW k \in 0 .. Len(s)
  PROVE  LET d == Digest(Prefix(s, k))
         IN  /\ d.begun    = {s[i].call : i \in {j \in At(s, "model-call-started") : j <= k}}
             /\ d.answered = {s[i].call : i \in {j \in At(s, "model-call-completed") : j <= k}}
             /\ d.sent     = {s[i].action : i \in {j \in At(s, "tool-dispatched") : j <= k}}
             /\ d.done     = {s[i].action : i \in {j \in At(s, "tool-result") : j <= k}}
             /\ d.saved    = {s[i].action : i \in {j \in At(s, "worktree-checkpoint") : j <= k}}
             /\ d.ended    = ({j \in At(s, "attempt-ended") : j <= k} # {})
             /\ d.starts   = Cardinality({j \in At(s, "model-call-started") : j <= k})
<1> DEFINE p == Prefix(s, k)
<1>1. /\ \A type : At(p, type) = {i \in At(s, type) : i <= k}
      /\ \A i \in DOMAIN s : i <= k => p[i] = s[i]
  BY PrefixAt
<1>2. \A type : At(s, type) \subseteq DOMAIN s
  BY DEF At
<1> HIDE DEF p
<1>3. \A type : \A i \in At(p, type) : p[i] = s[i]
  BY <1>1, <1>2
<1>4. /\ Digest(p).begun    = {p[i].call : i \in At(p, "model-call-started")}
      /\ Digest(p).answered = {p[i].call : i \in At(p, "model-call-completed")}
      /\ Digest(p).sent     = {p[i].action : i \in At(p, "tool-dispatched")}
      /\ Digest(p).done     = {p[i].action : i \in At(p, "tool-result")}
      /\ Digest(p).saved    = {p[i].action : i \in At(p, "worktree-checkpoint")}
      /\ Digest(p).ended    = (At(p, "attempt-ended") # {})
      /\ Digest(p).starts   = Cardinality(At(p, "model-call-started"))
  BY DEF Digest
<1>5. Digest(p).begun = {s[i].call : i \in {j \in At(s, "model-call-started") : j <= k}}
  BY <1>1, <1>3, <1>4
<1>6. Digest(p).answered = {s[i].call : i \in {j \in At(s, "model-call-completed") : j <= k}}
  BY <1>1, <1>3, <1>4
<1>7. Digest(p).sent = {s[i].action : i \in {j \in At(s, "tool-dispatched") : j <= k}}
  BY <1>1, <1>3, <1>4
<1>8. Digest(p).done = {s[i].action : i \in {j \in At(s, "tool-result") : j <= k}}
  BY <1>1, <1>3, <1>4
<1>9. Digest(p).saved = {s[i].action : i \in {j \in At(s, "worktree-checkpoint") : j <= k}}
  BY <1>1, <1>3, <1>4
<1> QED
  BY <1>1, <1>4, <1>5, <1>6, <1>7, <1>8, <1>9 DEF p

\* What a process restores is what the record says.
LEMMA RestoredType ==
  ASSUME NEW c \in Setups, Consistent(c, Digest(events)), events \in Seq(Events)
  PROVE  LET d == Digest(events)
         IN  /\ Restored \in Memories
             /\ d.iterations = 1 .. Restored.iterations /\ Restored.iterations <= c.maxIterations
             /\ Restored.toolCalls = d.tools /\ Restored.rejectedToolCalls = d.rejects
             /\ Restored.protocolRecoveries = d.retries /\ Restored.completionDeferrals = d.puts
             /\ Restored.consecutive = d.since /\ Restored.modelCalls = d.starts
             /\ Restored.recoveries = 0 /\ Restored.requests = <<>> /\ Restored.index = 0
             /\ Restored.result = NoResult /\ Restored.terminal = "none"
             /\ Restored.trigger = "none" /\ Restored.revisions = d.plan.revisions
             /\ Restored.step = d.plan.step /\ Restored.seen = d.plan.seen
<1> DEFINE d == Digest(events)
           k == ExecutorIterations
           plan == FoldLeft(Replayed, Fresh, events)
           revisions == plan.revisions
           step == plan.step
           seen == plan.seen
           tools == BudgetedToolCalls
           rejects == Cardinality(ToolResults(TRUE))
           retries == Cardinality({i \in OfType("protocol-recovery") :
                                     events[i].disposition = "retrying"})
           puts == Cardinality({i \in OfType("completion-evaluated") :
                                  events[i].disposition = "continue"})
           since == Consecutive
           starts == Cardinality(OfType("model-call-started"))
<1>1. \A type : OfType(type) = At(events, type)
  BY DEF OfType, At
<1>2. k = Cardinality(d.iterations)
  BY <1>1 DEF ExecutorIterations, Digest, Iterations
<1>3. tools = d.tools /\ rejects = d.rejects
  <2>1. ToolResults(FALSE) = Tools(events) /\ ToolResults(TRUE) = Rejects(events)
    BY <1>1 DEF ToolResults, Tools, Rejects
  <2> QED
    BY <2>1 DEF BudgetedToolCalls, Digest
<1>4. retries = d.retries /\ puts = d.puts /\ starts = d.starts
  BY <1>1 DEF Digest, Retries, Puts
<1>5. since = d.since
  <2>1. {i \in OfType("completion-evaluated") :
           /\ events[i].disposition = "continue"
           /\ \A j \in OfType("tool-result") : j < i} = PutsSince(events)
    BY <1>1 DEF PutsSince, Puts
  <2> QED
    BY <2>1 DEF Consecutive, Digest
<1>6. plan = d.plan
  BY DEF Digest, Plan
<1>7. /\ d.plan \in Memories /\ tools \in Nat /\ rejects \in Nat /\ retries \in Nat
      /\ puts \in Nat /\ since \in Nat /\ starts \in Nat
  BY <1>3, <1>4, <1>5 DEF Consistent, DigestTyped
<1>8. k \in Nat /\ d.iterations = 1 .. k /\ k <= c.maxIterations
  <2>1. PICK j \in 0 .. c.maxIterations : d.iterations = 1 .. j
    BY DEF Consistent
  <2>2. c.maxIterations \in Nat
    BY SetupsAssumption
  <2>3. Cardinality(1 .. j) = j
    BY <2>1, <2>2, FS_Interval
  <2> QED
    BY <2>1, <2>2, <2>3, <1>2
<1>9. revisions \in Revisions /\ step \in PlanSteps /\ seen \in BOOLEAN
  BY <1>6, <1>7 DEF Memories
<1>10. Restored = [Fresh EXCEPT !.iterations = k, !.toolCalls = tools,
                     !.rejectedToolCalls = rejects, !.protocolRecoveries = retries,
                     !.completionDeferrals = puts, !.consecutive = since, !.modelCalls = starts,
                     !.revisions = revisions, !.step = step, !.seen = seen]
  BY DEF Restored
<1> HIDE DEF k, plan, revisions, step, seen, tools, rejects, retries, puts, since, starts
<1>11. Fresh \in Memories
  BY FreshType
<1>12. Restored \in Memories
  BY <1>7, <1>8, <1>9, <1>10, <1>11 DEF Memories
<1>13. /\ Restored.iterations = k /\ Restored.toolCalls = tools
       /\ Restored.rejectedToolCalls = rejects /\ Restored.protocolRecoveries = retries
       /\ Restored.completionDeferrals = puts /\ Restored.consecutive = since
       /\ Restored.modelCalls = starts /\ Restored.revisions = revisions
       /\ Restored.step = step /\ Restored.seen = seen
       /\ Restored.recoveries = Fresh.recoveries /\ Restored.requests = Fresh.requests
       /\ Restored.index = Fresh.index /\ Restored.result = Fresh.result
       /\ Restored.terminal = Fresh.terminal /\ Restored.trigger = Fresh.trigger
  BY <1>10, <1>11 DEF Memories
<1>14. /\ Fresh.recoveries = 0 /\ Fresh.requests = <<>> /\ Fresh.index = 0
       /\ Fresh.result = NoResult /\ Fresh.terminal = "none"
       /\ Fresh.trigger = "none"
  BY DEF Fresh
<1>15. revisions = d.plan.revisions /\ step = d.plan.step /\ seen = d.plan.seen
  BY <1>6 DEF revisions, step, seen
<1> QED
  BY <1>3, <1>4, <1>5, <1>8, <1>12, <1>13, <1>14, <1>15

-----------------------------------------------------------------------------
(***************************************************************************)
(* The attempt is started or resumed, the record is written, the process   *)
(* dies and another one opens the record.                                  *)
(***************************************************************************)
\* At most one model call of a record is not completed: the one that a process
\* which resumes the attempt marks as interrupted.
LEMMA OneOpenCall ==
  ASSUME NEW c, NEW n, NEW t, Kept(c, n, events, t)
  PROVE  LET d == Digest(events)
         IN  \/ Interruptions = <<>> /\ d.begun \subseteq d.answered
             \/ \E call \in d.begun \ d.answered :
                  Interruptions = <<CallCompleted(call, "interrupted")>>
<1> DEFINE d == Digest(events)
           open == {i \in OfType("model-call-started") : OpenCall(events[i].call)}
           nth(k) == CHOOSE i \in open : Cardinality({j \in open : j <= i}) = k
<1>1. \A type : OfType(type) = At(events, type) /\ At(events, type) \subseteq DOMAIN events
  BY DEF OfType, At
<1>2. /\ d.begun = {events[i].call : i \in At(events, "model-call-started")}
      /\ d.answered = {events[i].call : i \in At(events, "model-call-completed")}
  BY DEF Digest
<1>3. events \in Seq(Events) /\ DOMAIN events \subseteq Nat
  BY DEF Kept
<1>4. ASSUME NEW i \in open, NEW j \in open, i < j PROVE FALSE
  <2>1. /\ i \in At(events, "model-call-started") /\ j \in At(events, "model-call-started")
        /\ OpenCall(events[i].call) /\ j \in DOMAIN events /\ i \in Nat /\ j \in Nat
    BY <1>1, <1>3
  <2> DEFINE p == Prefix(events, j - 1)
  <2>2. Accepts(c, Digest(p), events[j]) /\ j - 1 \in 0 .. Len(events)
    BY <2>1, Accepted
  <2>3. Digest(p).begun \subseteq Digest(p).answered
    BY <2>1, <2>2 DEF Accepts, At
  <2>4. /\ Digest(p).begun = {events[k].call : k \in {l \in At(events, "model-call-started") : l <= j - 1}}
        /\ Digest(p).answered = {events[k].call : k \in {l \in At(events, "model-call-completed") : l <= j - 1}}
    BY <1>3, <2>2, PrefixDigest
  <2> HIDE DEF p
  <2>5. i <= j - 1
    BY <1>4, <2>1
  <2>6. events[i].call \in Digest(p).begun
    BY <2>1, <2>4, <2>5
  <2>7. PICK k \in At(events, "model-call-completed") : events[k].call = events[i].call
    BY <2>3, <2>4, <2>6
  <2> QED
    BY <1>1, <2>1, <2>7 DEF OpenCall
<1>5. CASE open = {}
  <2>1. Cardinality(open) = 0 /\ 1 .. 0 = {}
    BY <1>5, FS_EmptySet
  <2>2. Interruptions = <<>>
    <3>1. Interruptions = [k \in 1 .. Cardinality(open) |->
                             CallCompleted(events[nth(k)].call, "interrupted")]
      BY DEF Interruptions
    <3> HIDE DEF nth, open
    <3>2. Interruptions = [k \in 1 .. 0 |-> CallCompleted(events[nth(k)].call, "interrupted")]
      BY <2>1, <3>1
    <3> QED
      BY <3>2
  <2>3. ASSUME NEW call \in d.begun PROVE call \in d.answered
    <3>1. PICK i \in At(events, "model-call-started") : call = events[i].call
      BY <1>2
    <3>2. ~OpenCall(events[i].call)
      BY <1>1, <1>5
    <3> QED
      BY <1>1, <1>2, <3>1, <3>2 DEF OpenCall
  <2> QED
    BY <2>2, <2>3
<1>6. CASE open # {}
  <2>1. PICK i \in open : TRUE
    BY <1>6
  <2>2. open = {i}
    <3>1. \A j \in open : j = i
      BY <1>1, <1>3, <1>4, <2>1
    <3> QED
      BY <2>1, <3>1
  <2>3. events[i].call \in d.begun \ d.answered
    BY <1>1, <1>2, <2>1 DEF OpenCall
  <2>4. Cardinality(open) = 1
    BY <2>2, FS_Singleton
  <2>5. nth(1) = i
    <3>1. i \in Nat
      BY <1>1, <1>3, <2>1
    <3>2. {j \in open : j <= i} = {i}
      BY <2>2, <3>1
    <3>3. Cardinality({j \in open : j <= i}) = 1
      BY <3>2, FS_Singleton
    <3> HIDE DEF open
    <3>4. \A x \in open : x = i
      BY <2>2
    <3> QED
      BY <2>1, <3>3, <3>4
  <2>6. Interruptions = [k \in 1 .. 1 |-> CallCompleted(events[nth(k)].call, "interrupted")]
    BY <2>4 DEF Interruptions
  <2> HIDE DEF open, nth
  <2>7. Interruptions = <<CallCompleted(events[i].call, "interrupted")>>
    <3> DEFINE e == CallCompleted(events[i].call, "interrupted")
    <3>1. \A k \in 1 .. 1 : CallCompleted(events[nth(k)].call, "interrupted") = e
      BY <2>5
    <3> HIDE DEF e
    <3>2. Interruptions = [k \in 1 .. 1 |-> e]
      BY <2>6, <3>1
    <3>3. [k \in 1 .. 1 |-> e] = <<e>>
      OBVIOUS
    <3> QED
      BY <3>2, <3>3 DEF e
  <2> QED
    BY <2>3, <2>7
<1> QED
  BY <1>5, <1>6

\* What a process that resumes the attempt writes first.
LEMMA InterruptionsKept ==
  ASSUME NEW c \in Setups, NEW t, Kept(c, Len(events), events, t), ~Digest(events).ended
  PROVE  LET u == events \o Interruptions
             x == Digest(u)
             d == Digest(events)
         IN  /\ Interruptions \in Seq(Events) /\ Kept(c, Len(events), u, t)
             /\ x.begun \subseteq x.answered /\ ~x.ended
             /\ x.iterations = d.iterations /\ x.starts = d.starts
             /\ SameTools(x, d) /\ SameRetries(x, d) /\ SamePlan(x, d) /\ x.puts = d.puts
<1> DEFINE u == events \o Interruptions
           x == Digest(u)
           d == Digest(events)
<1>1. events \in Seq(Events) /\ DigestTyped(d)
  BY KeptConsistent
<1>2. CASE Interruptions = <<>> /\ d.begun \subseteq d.answered
  <2>1. u = events /\ Interruptions \in Seq(Events)
    BY <1>1, <1>2
  <2> HIDE DEF u
  <2> QED
    BY <1>2, <2>1 DEF u, SameTools, SameActions, SameRetries, SamePlan
<1>3. CASE \E call \in d.begun \ d.answered :
             Interruptions = <<CallCompleted(call, "interrupted")>>
  <2>1. PICK call \in d.begun \ d.answered :
               Interruptions = <<CallCompleted(call, "interrupted")>>
    BY <1>3
  <2> DEFINE e == CallCompleted(call, "interrupted")
             s == Append(events, e)
  <2>2. call \in Calls
    BY <1>1 DEF DigestTyped
  <2>3. /\ e \in Events /\ Kept(c, Len(events), s, t)
        /\ Digest(s).begun \subseteq Digest(s).answered /\ ~Digest(s).ended
        /\ Digest(s).iterations = d.iterations /\ Digest(s).starts = d.starts
        /\ SameTools(Digest(s), d) /\ SameRetries(Digest(s), d) /\ SamePlan(Digest(s), d)
        /\ Digest(s).puts = d.puts
    BY <2>2, AnswerKept
  <2>4. u = s /\ Interruptions \in Seq(Events)
    BY <1>1, <2>1, <2>3
  <2> HIDE DEF u, s, e
  <2> QED
    BY <2>3, <2>4 DEF u
<1> QED
  BY <1>2, <1>3, OneOpenCall

\* The attempt is started, or resumed with what the record says.
LEMMA BeginInv == ASSUME LoopInv, Begin PROVE LoopInv'
<1> DEFINE d == Digest(events)
           u == events \o writing'
           x == Digest(u)
<1>1. /\ at = "start" /\ at' = "iterate" /\ writing = <<>> /\ Unmoved /\ tree' = tree
      /\ writing' = (IF events = <<>> THEN <<Started>> ELSE Interruptions) /\ m' = Restored
  BY DEF Begin, Go
<1>2. /\ setup \in Setups /\ events \in Seq(Events) /\ KeptHere(events, tree)
      /\ Consistent(setup, d) /\ DigestTyped(d) /\ Lives(setup, "start", m, tree, d)
  BY <1>1, Ready DEF Gone
<1>3. ~d.ended /\ Resolved(d) /\ tree = d.muts
  BY <1>2 DEF Lives
<1>4. /\ writing' \in Seq(Events) /\ KeptHere(u, tree)
      /\ x.begun \subseteq x.answered /\ ~x.ended
      /\ x.iterations = d.iterations /\ x.starts = d.starts
      /\ SameTools(x, d) /\ SameRetries(x, d) /\ SamePlan(x, d) /\ x.puts = d.puts
  <2>1. Kept(setup, Len(events), events, tree)
    BY <1>2 DEF KeptHere
  <2>2. CASE events = <<>>
    <3> DEFINE s == Append(events, Started)
    <3>1. Started \in StartEvents
      BY DEF Started, StartEvents
    <3>2. /\ Started \in Events /\ Kept(setup, Len(events), s, tree)
          /\ SameCalls(Digest(s), d) /\ SameTools(Digest(s), d)
          /\ SameRetries(Digest(s), d) /\ SamePlan(Digest(s), d)
          /\ Digest(s).puts = d.puts /\ ~Digest(s).ended
      BY <1>2, <1>3, <2>1, <2>2, <3>1, StartKept
    <3>3. writing' = <<Started>> /\ u = s /\ writing' \in Seq(Events)
      BY <1>1, <1>2, <2>2, <3>2
    <3>4. d.begun = {} /\ d.answered = {}
      BY <2>2, EmptyDigest
    <3> HIDE DEF u, s, d
    <3> QED
      BY <3>2, <3>3, <3>4 DEF KeptHere, SameCalls
  <2>3. CASE events # <<>>
    <3>1. writing' = Interruptions
      BY <1>1, <2>3
    <3> QED
      BY <1>2, <1>3, <2>1, <3>1, InterruptionsKept DEF KeptHere
  <2> QED
    BY <2>2, <2>3
<1>5. /\ m' \in Memories /\ d.iterations = 1 .. m'.iterations
      /\ m'.iterations <= setup.maxIterations
      /\ m'.toolCalls = d.tools /\ m'.rejectedToolCalls = d.rejects
      /\ m'.protocolRecoveries = d.retries /\ m'.completionDeferrals = d.puts
      /\ m'.consecutive = d.since /\ m'.modelCalls = d.starts
      /\ m'.recoveries = 0 /\ m'.requests = <<>> /\ m'.index = 0
      /\ m'.result = NoResult /\ m'.terminal = "none"
      /\ m'.trigger = "none" /\ m'.revisions = d.plan.revisions
      /\ m'.step = d.plan.step /\ m'.seen = d.plan.seen
  BY <1>1, <1>2, RestoredType
<1>6. d.tools <= MaxToolCalls
  BY <1>2 DEF Consistent
<1> HIDE DEF d, u, x
<1>7. MemoryFits(m') /\ tree' \in 0 .. MaxToolCalls
  BY <1>1, <1>5, <1>6, Fits, PolicyAssumption DEF MemoryFits
<1>8. ToolCallsMade("iterate", m', x)
  BY DEF ToolCallsMade
<1>9. Counters("iterate", m', x)
  BY <1>4, <1>5 DEF Counters, SameTools, SameRetries, SamePlan
<1>10. Corrections("iterate", m', x)
  BY <1>5, PolicyAssumption DEF Corrections, Going
<1>11. PlanKnown("iterate", setup, m', x)
  BY <1>4, <1>5 DEF PlanKnown, SamePlan
<1>12. AtRestNow("iterate", m')
  BY <1>5 DEF AtRestNow
<1>13. Resolved(x) /\ tree = x.muts /\ x.begun \ x.answered = {} /\ x.iterations = 1 .. m'.iterations
  BY <1>3, <1>4, <1>5 DEF Resolved, SameTools, SameActions
<1>14. Lives(setup, "iterate", m', tree', x)
  BY <1>1, <1>4, <1>8, <1>9, <1>10, <1>11, <1>12, <1>13 DEF Lives, OpenCalls
<1>15. /\ at' \in Awaiting \cup Between \cup Gone /\ at' # "start"
       /\ at' \notin Gone => Lives(setup, at', m', tree', Digest(u))
       /\ KeptHere(u, tree')
  BY <1>1, <1>4, <1>14 DEF Between, x
<1>16. events \o writing' = u
  BY DEF u
<1> QED
  BY <1>1, <1>4, <1>7, <1>15, <1>16, GoesOn

\* The events become durable.
LEMMA WriteInv == ASSUME LoopInv, Write PROVE LoopInv'
<1> DEFINE s == events \o writing
<1>1. /\ events' = s /\ writing' = <<>> /\ UNCHANGED <<setup, at, aborted, m, tree, crashes>>
      /\ writing # <<>>
  BY DEF Write
<1>2. /\ events \in Seq(Events) /\ writing \in Seq(Events) /\ s \in Seq(Events)
      /\ Kept(setup, Len(events), s, tree) /\ setup \in Setups
  BY DEF LoopInv, Typed
<1>3. Len(s) \in Len(events) .. Len(s) /\ Len(s) \in 0 .. Len(s) /\ s \o <<>> = s
  BY <1>2
<1> HIDE DEF s
<1>8. Prefix(s, Len(s)) = s
  BY <1>2, <1>3, PrefixParts
<1>9. Kept(setup, Len(s), Prefix(s, Len(s)), tree)
  BY <1>2, <1>3, KeptPrefix
<1>4. Kept(setup, Len(s), s, tree)
  BY <1>8, <1>9
<1>5. Typed'
  BY <1>1, <1>2 DEF LoopInv, Typed
<1>6. /\ at' # "start" \/ writing' = <<>>
      /\ (at \notin Gone => Lives(setup, at, m, tree, Digest(events \o writing)))'
  BY <1>1, <1>3 DEF LoopInv, s
<1>7. Kept(setup, Len(events), events \o writing, tree)'
  BY <1>1, <1>3, <1>4
<1> QED
  BY <1>5, <1>6, <1>7 DEF LoopInv

\* The deadline comes.
LEMMA DeadlineInv == ASSUME LoopInv, Deadline PROVE LoopInv'
<1>1. aborted' = TRUE /\ UNCHANGED <<setup, at, m, writing, events, tree, crashes>>
  BY DEF Deadline
<1> QED
  BY <1>1 DEF LoopInv, Typed

\* What is left of a stretch of code that did not come to its end is a part of
\* the record that was in order.
LEMMA CrashInv == ASSUME LoopInv, Crash PROVE LoopInv'
<1>1. /\ at' = "down" /\ m' = Fresh /\ aborted' = FALSE /\ writing' = <<>>
      /\ crashes' = crashes + 1 /\ crashes < MaxCrashes /\ UNCHANGED <<setup, tree>>
  BY DEF Crash
<1>2. PICK n \in 0 .. Len(writing) : events' = events \o SubSeq(writing, 1, n)
  BY DEF Crash
<1> DEFINE s == events \o writing
           k == Len(events) + n
<1>3. /\ events \in Seq(Events) /\ writing \in Seq(Events) /\ s \in Seq(Events)
      /\ Kept(setup, Len(events), s, tree) /\ setup \in Setups
      /\ crashes \in 0 .. MaxCrashes
  BY DEF LoopInv, Typed
<1>4. k \in Len(events) .. Len(s) /\ k \in 0 .. Len(s)
  BY <1>3
<1>5. events' = Prefix(s, k)
  <2>1. /\ events' \in Seq(Events) /\ Len(events') = k
        /\ \A i \in 1 .. k : events'[i] = s[i]
    BY <1>2, <1>3
  <2>2. /\ Prefix(s, k) \in Seq(Events) /\ Len(Prefix(s, k)) = k
        /\ \A i \in 1 .. k : Prefix(s, k)[i] = s[i]
    BY <1>3, <1>4, PrefixParts
  <2> HIDE DEF s, k
  <2> QED
    BY <2>1, <2>2, SeqEqual
<1> HIDE DEF s, k
<1>6. Kept(setup, k, Prefix(s, k), tree) /\ Len(Prefix(s, k)) = k
  BY <1>3, <1>4, KeptPrefix
<1>7. events' \in Seq(Events) /\ events' \o <<>> = events'
  BY <1>5, <1>6 DEF Kept
<1>8. Kept(setup, Len(events), events \o writing, tree)'
  BY <1>1, <1>5, <1>6, <1>7
<1>9. /\ m' \in Memories /\ m'.recoveries <= MaxProtocolRecoveries
      /\ m'.iterations <= setup.maxIterations /\ m'.toolCalls <= MaxToolCalls
  BY <1>1, <1>3, FreshType, PolicyAssumption, SetupsAssumption DEF Fresh
<1>11. crashes' \in 0 .. MaxCrashes /\ tree' \in 0 .. MaxToolCalls /\ writing' \in Seq(Events)
  BY <1>1, <1>3, CrashesAssumption DEF LoopInv, Typed
<1>10. Typed'
  BY <1>1, <1>3, <1>7, <1>9, <1>11 DEF Typed, Gone
<1> QED
  BY <1>1, <1>8, <1>10 DEF LoopInv, Gone

\* A process opens the record: it resumes the attempt only where that is safe.
LEMMA OpenInv == ASSUME LoopInv, Open PROVE LoopInv'
<1> DEFINE d == Digest(events)
<1>1. /\ writing = <<>> /\ writing' = <<>> /\ Unmoved /\ UNCHANGED <<m, tree>>
      /\ at' = IF ~ResumeSafe THEN "refused"
               ELSE IF OfType("attempt-ended") # {} THEN "over" ELSE "start"
  BY DEF Open, Go
<1>2. /\ events \in Seq(Events) /\ events \o <<>> = events /\ Typed
      /\ Kept(setup, Len(events), events, tree)
  BY <1>1 DEF LoopInv, Typed
<1>3. \A type : OfType(type) = At(events, type)
  BY DEF OfType, At
<1>4. at' \notin Gone => Lives(setup, at', m, tree, d)
  <2> SUFFICES ASSUME at' \notin Gone PROVE Lives(setup, at', m, tree, d)
    OBVIOUS
  <2>1. at' = "start" /\ ResumeSafe /\ OfType("attempt-ended") = {}
    BY <1>1 DEF Gone
  <2>2. ~d.ended
    BY <1>3, <2>1 DEF Digest
  <2>3. Resolved(d)
    <3>1. /\ d.sent = {events[i].action : i \in At(events, "tool-dispatched")}
          /\ d.done = {events[i].action : i \in At(events, "tool-result")}
      BY DEF Digest
    <3> QED
      BY <1>3, <2>1, <3>1 DEF ResumeSafe, Resolved
  <2>4. tree = d.muts
    BY <1>2, <2>3, KeptConsistent DEF Known
  <2> QED
    BY <2>1, <2>2, <2>3, <2>4 DEF Lives, Going
<1>5. Typed'
  BY <1>1, <1>2 DEF Typed, Unmoved, Awaiting, Gone
<1>6. Kept(setup, Len(events), events \o writing, tree)'
  BY <1>1, <1>2 DEF Unmoved
<1>7. (at \notin Gone => Lives(setup, at, m, tree, Digest(events \o writing)))'
  BY <1>1, <1>2, <1>4 DEF Unmoved
<1> QED
  BY <1>1, <1>5, <1>6, <1>7 DEF LoopInv

-----------------------------------------------------------------------------
(***************************************************************************)
(* The invariant.                                                          *)
(***************************************************************************)
\* The invariant holds of an attempt that was not started yet.
LEMMA LoopStarts == Init => LoopInv
<1> SUFFICES ASSUME Init PROVE LoopInv
  OBVIOUS
<1>1. /\ setup \in Setups /\ at = "start" /\ aborted = FALSE /\ m = Fresh
      /\ writing = <<>> /\ events = <<>> /\ tree = 0 /\ crashes = 0
  BY DEF Init
<1>2. events \o writing = <<>> /\ Len(events) = 0 /\ <<>> \in Seq(Events)
  BY <1>1
<1>3. Kept(setup, Len(events), events \o writing, tree)
  BY <1>1, <1>2, EmptyLog
<1>4. Typed
  <2>1. /\ m \in Memories /\ m.recoveries <= MaxProtocolRecoveries
        /\ m.iterations <= setup.maxIterations /\ m.toolCalls <= MaxToolCalls
    BY <1>1, FreshType, PolicyAssumption, SetupsAssumption DEF Fresh
  <2>2. tree \in 0 .. MaxToolCalls /\ crashes \in 0 .. MaxCrashes
    BY <1>1, PolicyAssumption, CrashesAssumption
  <2> QED
    BY <1>1, <1>2, <2>1, <2>2 DEF Typed, Awaiting
<1>5. Lives(setup, "start", m, tree, Digest(<<>>))
  BY <1>1, EmptyDigest DEF Lives, Resolved, Going
<1> QED
  BY <1>1, <1>2, <1>3, <1>4, <1>5 DEF LoopInv

\* Every decision keeps the invariant.
LEMMA DecideInv == ASSUME LoopInv, Decide PROVE LoopInv'
<1>1. CASE FinishAccepted
  BY <1>1, FinishAcceptedInv
<1>2. CASE FinishTerminal
  BY <1>2, FinishTerminalInv
<1>3. CASE FinishDeferred
  BY <1>3, FinishDeferredInv
<1>4. CASE \E reason \in {"model-failed", "invalid-decision"} : DecideNothing(reason)
  BY <1>4, DecideNothingInv
<1>5. CASE \E requests \in setup.answers : RefuseBatch(requests) \/ DecideTools(requests)
  <2>1. PICK requests \in setup.answers : RefuseBatch(requests) \/ DecideTools(requests)
    BY <1>5
  <2>2. requests \in Seq(Kinds) /\ requests # <<>>
    BY SetupsAssumption DEF LoopInv, Typed
  <2> QED
    BY <2>1, <2>2, RefuseBatchInv, DecideToolsInv
<1> QED
  BY <1>1, <1>2, <1>3, <1>4, <1>5 DEF Decide

\* Every tool call keeps the invariant.
LEMMA ExecuteInv == ASSUME LoopInv, Execute PROVE LoopInv'
<1>1. CASE \E kind \in Kinds : \E r \in Results(kind) : ExecuteTool(r)
  BY <1>1, ExecuteToolInv
<1>2. CASE \E status \in {"ok", "error", "rejected"} : ComposeAlone(status)
  BY <1>2, ComposeAloneInv
<1>3. CASE \E kind \in Kinds : \E n \in Results(kind), status \in {"ok", "error"} :
             Compose(n, status)
  BY <1>3, ComposeInv
<1> QED
  BY <1>1, <1>2, <1>3 DEF Execute

\* Every step keeps the invariant.
LEMMA LoopKeeps == ASSUME LoopInv, [Next]_vars PROVE LoopInv'
<1>1. CASE Begin
  BY <1>1, BeginInv
<1>2. CASE Write
  BY <1>2, WriteInv
<1>3. CASE StartIteration \/ IterationLimit
  BY <1>3, StartIterationInv, IterationLimitInv
<1>4. CASE TimeOut \/ EndTimedOut \/ TerminationUnconfirmed
  BY <1>4, TimeOutInv, EndTimedOutInv, TerminationUnconfirmedInv
<1>5. CASE Retry \/ GiveUp \/ ProviderFails \/ Interrupted
  BY <1>5, RetryInv, GiveUpInv, ProviderFailsInv, InterruptedInv
<1>6. CASE Decide \/ Execute
  BY <1>6, DecideInv, ExecuteInv
<1>7. CASE RefuseNext \/ AllRefused \/ RefuseTool
  BY <1>7, RefuseNextInv, AllRefusedInv, RefuseToolInv
<1>8. CASE DispatchTool \/ DispatchUnavailable
  BY <1>8, DispatchToolInv, DispatchUnavailableInv
<1>9. CASE Checkpoint
  BY <1>9, CheckpointInv
<1>10. CASE Settle \/ SettleLimit
  BY <1>10, SettleInv, SettleLimitInv
<1>11. CASE EndStuck \/ BatchDone \/ AskPlanner
  BY <1>11, EndStuckInv, BatchDoneInv, AskPlannerInv
<1>12. CASE \E plan \in Plans : RevisePlan(plan)
  BY <1>12, RevisePlanInv
<1>13. CASE Deadline
  BY <1>13, DeadlineInv
<1>14. CASE Crash
  BY <1>14, CrashInv
<1>15. CASE Open
  BY <1>15, OpenInv
<1>16. CASE UNCHANGED vars
  BY <1>16 DEF vars, LoopInv, Typed
<1> QED
  BY <1>1, <1>2, <1>3, <1>4, <1>5, <1>6, <1>7, <1>8, <1>9, <1>10, <1>11, <1>12, <1>13, <1>14,
     <1>15, <1>16 DEF Next, Process, Running

\* The inductive invariant holds of every attempt, under any policy and however
\* often its process died and another one resumed it: the record is one that
\* HarnessNativeRuntimeEventSpine accepts event by event, and what the process
\* remembers is what the record says.
THEOREM LoopInvariance == Spec => []LoopInv
<1>1. Init => LoopInv
  BY LoopStarts
<1>2. LoopInv /\ [Next]_vars => LoopInv'
  BY LoopKeeps
<1> QED
  BY <1>1, <1>2, PTL DEF Spec

-----------------------------------------------------------------------------
(***************************************************************************)
(* What the invariant says of the record as it is.                         *)
(***************************************************************************)
\* The durable part of the record is in order by itself.
LEMMA DurableKept ==
  ASSUME LoopInv
  PROVE  /\ Kept(setup, Len(events), events, tree) /\ setup \in Setups
         /\ events \in Seq(Events) /\ Consistent(setup, Digest(events)) /\ Settled(events)
         /\ Known(Digest(events), tree)
<1> DEFINE s == events \o writing
           k == Len(events)
<1>1. /\ events \in Seq(Events) /\ writing \in Seq(Events) /\ s \in Seq(Events)
      /\ Kept(setup, k, s, tree) /\ setup \in Setups
  BY DEF LoopInv, Typed
<1>2. k \in k .. Len(s) /\ k \in 0 .. Len(s)
  BY <1>1
<1>3. Prefix(s, k) = events
  <2>1. /\ Prefix(s, k) \in Seq(Events) /\ Len(Prefix(s, k)) = k
        /\ \A i \in 1 .. k : Prefix(s, k)[i] = s[i]
    BY <1>1, <1>2, PrefixParts
  <2>2. \A i \in 1 .. k : s[i] = events[i]
    BY <1>1
  <2> HIDE DEF s
  <2> QED
    BY <1>1, <2>1, <2>2, SeqEqual
<1> HIDE DEF s, k
<1>4. Kept(setup, k, Prefix(s, k), tree)
  BY <1>1, <1>2, KeptPrefix
<1>5. Kept(setup, Len(events), events, tree)
  BY <1>3, <1>4 DEF k
<1> QED
  BY <1>1, <1>5, KeptConsistent

\* An event, and the digest of those before it.
LEMMA Before ==
  ASSUME LoopInv, NEW i \in DOMAIN events
  PROVE  LET d == Digest(Prefix(events, i - 1))
         IN  /\ i \in Nat /\ events[i] \in Events
             /\ Accepts(setup, d, events[i]) /\ Consistent(setup, d) /\ d.size = i - 1
             /\ d.begun    = {events[j].call : j \in {l \in OfType("model-call-started") : l < i}}
             /\ d.answered = {events[j].call : j \in {l \in OfType("model-call-completed") : l < i}}
             /\ d.sent     = {events[j].action : j \in {l \in OfType("tool-dispatched") : l < i}}
             /\ d.done     = {events[j].action : j \in {l \in OfType("tool-result") : l < i}}
             /\ d.saved    = {events[j].action : j \in {l \in OfType("worktree-checkpoint") : l < i}}
             /\ d.ended    = ({l \in OfType("attempt-ended") : l < i} # {})
<1> DEFINE d == Digest(Prefix(events, i - 1))
<1>1. /\ i \in 1 .. Len(events) /\ events[i] \in Events /\ i - 1 \in 0 .. Len(events)
      /\ events \in Seq(Events) /\ Accepts(setup, d, events[i]) /\ Consistent(setup, d)
  BY DurableKept, Accepted
<1>2. \A type : {l \in At(events, type) : l <= i - 1} = {l \in OfType(type) : l < i}
  BY <1>1 DEF At, OfType
<1>3. /\ d.begun    = {events[j].call : j \in {l \in At(events, "model-call-started") : l <= i - 1}}
      /\ d.answered = {events[j].call : j \in {l \in At(events, "model-call-completed") : l <= i - 1}}
      /\ d.sent     = {events[j].action : j \in {l \in At(events, "tool-dispatched") : l <= i - 1}}
      /\ d.done     = {events[j].action : j \in {l \in At(events, "tool-result") : l <= i - 1}}
      /\ d.saved    = {events[j].action : j \in {l \in At(events, "worktree-checkpoint") : l <= i - 1}}
      /\ d.ended    = ({l \in At(events, "attempt-ended") : l <= i - 1} # {})
  BY <1>1, PrefixDigest
<1>4. d.size = i - 1
  <2>1. Len(Prefix(events, i - 1)) = i - 1
    BY <1>1, PrefixParts
  <2> QED
    BY <2>1 DEF Digest
<1> HIDE DEF d
<1>5. /\ i \in Nat
      /\ d.begun    = {events[j].call : j \in {l \in OfType("model-call-started") : l < i}}
      /\ d.answered = {events[j].call : j \in {l \in OfType("model-call-completed") : l < i}}
      /\ d.sent     = {events[j].action : j \in {l \in OfType("tool-dispatched") : l < i}}
      /\ d.done     = {events[j].action : j \in {l \in OfType("tool-result") : l < i}}
      /\ d.saved    = {events[j].action : j \in {l \in OfType("worktree-checkpoint") : l < i}}
      /\ d.ended    = ({l \in OfType("attempt-ended") : l < i} # {})
  BY <1>1, <1>2, <1>3
<1> QED
  BY <1>1, <1>4, <1>5 DEF d

\* An attempt's end is its last event.
LEMMA EndIsLast ==
  ASSUME LoopInv, NEW i \in OfType("attempt-ended")
  PROVE  /\ i = Len(events) /\ i \in DOMAIN events
         /\ Digest(events).sent \subseteq Digest(events).done
<1>1. i \in DOMAIN events /\ events[i].type = "attempt-ended" /\ events \in Seq(Events)
  BY DurableKept DEF OfType
<1>2. i \in 1 .. Len(events)
  BY <1>1
<1>3. i = Len(events)
  <2> SUFFICES ASSUME i # Len(events) PROVE FALSE
    OBVIOUS
  <2> DEFINE j == Len(events)
  <2>1. j \in DOMAIN events /\ i < j
    BY <1>1, <1>2
  <2>2. /\ Accepts(setup, Digest(Prefix(events, j - 1)), events[j])
        /\ Digest(Prefix(events, j - 1)).ended = ({l \in OfType("attempt-ended") : l < j} # {})
    BY <2>1, Before
  <2> HIDE DEF j
  <2> QED
    BY <2>1, <2>2 DEF Accepts
<1>4. Digest(events).sent \subseteq Digest(events).done
  <2> DEFINE d == Digest(Prefix(events, i - 1))
             x == Digest(events)
  <2>1. /\ Accepts(setup, d, events[i])
        /\ d.sent = {events[j].action : j \in {l \in OfType("tool-dispatched") : l < i}}
        /\ d.done = {events[j].action : j \in {l \in OfType("tool-result") : l < i}}
    BY <1>1, Before
  <2>2. \A type : OfType(type) = At(events, type)
    BY DEF OfType, At
  <2>3. /\ x.sent = {events[j].action : j \in OfType("tool-dispatched")}
        /\ x.done = {events[j].action : j \in OfType("tool-result")}
    BY <2>2 DEF Digest
  <2>4. \A l \in OfType("tool-dispatched") : l < i
    <3>1. \A l \in OfType("tool-dispatched") : l \in 1 .. Len(events) /\ l # i
      BY <1>1 DEF OfType
    <3> QED
      BY <1>2, <1>3, <3>1
  <2>5. d.sent \subseteq d.done
    BY <1>1, <2>1 DEF Accepts, Resolved
  <2> HIDE DEF d, x
  <2> QED
    BY <2>1, <2>3, <2>4, <2>5 DEF x
<1> QED
  BY <1>1, <1>3, <1>4

\* The record is one the event spine accepts.
LEMMA RecordValid == LoopInv => RecordIsValid
<1> SUFFICES ASSUME LoopInv PROVE RecordIsValid
  OBVIOUS
<1> DEFINE Preceding(type, i) == {j \in OfType(type) : j < i}
<1> SUFFICES ASSUME NEW i \in DOMAIN events
             PROVE  CASE events[i].type = "attempt-started" -> i = 1
          [] events[i].type = "model-call-started" ->
               \A j \in Preceding("model-call-started", i) : events[j].call # events[i].call
          [] events[i].type = "model-call-completed" ->
               /\ \E j \in Preceding("model-call-started", i) : events[j].call = events[i].call
               /\ \A j \in Preceding("model-call-completed", i) : events[j].call # events[i].call
          [] events[i].type = "tool-dispatched" ->
               \A j \in Preceding("tool-dispatched", i) : events[j].action # events[i].action
          [] events[i].type = "tool-result" ->
               /\ \E j \in Preceding("tool-dispatched", i) : events[j].action = events[i].action
               /\ \A j \in Preceding("tool-result", i) : events[j].action # events[i].action
          [] events[i].type = "worktree-checkpoint" ->
               /\ \E j \in Preceding("tool-result", i) : events[j].action = events[i].action
               /\ \A j \in Preceding("worktree-checkpoint", i) : events[j].action # events[i].action
          [] events[i].type = "attempt-ended" ->
               /\ i = Len(events)
               /\ \A j \in OfType("tool-dispatched") :
                    \E k \in OfType("tool-result") : events[k].action = events[j].action
          [] OTHER -> TRUE
  BY DEF RecordIsValid
<1> DEFINE d == Digest(Prefix(events, i - 1))
<1>1. /\ i \in Nat /\ events[i] \in Events
      /\ Accepts(setup, d, events[i]) /\ Consistent(setup, d) /\ d.size = i - 1
      /\ d.begun    = {events[j].call : j \in Preceding("model-call-started", i)}
      /\ d.answered = {events[j].call : j \in Preceding("model-call-completed", i)}
      /\ d.sent     = {events[j].action : j \in Preceding("tool-dispatched", i)}
      /\ d.done     = {events[j].action : j \in Preceding("tool-result", i)}
      /\ d.saved    = {events[j].action : j \in Preceding("worktree-checkpoint", i)}
  BY Before
<1> HIDE DEF d, Preceding
<1>2. CASE events[i].type = "attempt-started"
  <2>1. d.size = 0
    BY <1>1, <1>2 DEF Accepts
  <2> QED
    BY <1>1, <1>2, <2>1
<1>3. CASE events[i].type = "model-call-started"
  <2>1. events[i].call \in Calls /\ events[i].call.ordinal = d.starts + 1
    BY <1>1, <1>3, EventParts DEF Accepts
  <2>2. events[i].call \notin d.begun
    BY <1>1, <2>1, NewCall
  <2> QED
    BY <1>1, <1>3, <2>2
<1>4. CASE events[i].type = "model-call-completed"
  <2>1. events[i].call \in d.begun \ d.answered
    BY <1>1, <1>4 DEF Accepts
  <2> QED
    BY <1>1, <1>4, <2>1
<1>5. CASE events[i].type = "tool-dispatched"
  <2>1. events[i].action \notin d.sent
    BY <1>1, <1>5 DEF Accepts
  <2> QED
    BY <1>1, <1>5, <2>1
<1>6. CASE events[i].type = "tool-result"
  <2>1. events[i].action \in d.sent \ d.done
    BY <1>1, <1>6 DEF Accepts
  <2> QED
    BY <1>1, <1>6, <2>1
<1>7. CASE events[i].type = "worktree-checkpoint"
  <2>1. events[i].action \in d.done \ d.saved
    BY <1>1, <1>7 DEF Accepts
  <2> QED
    BY <1>1, <1>7, <2>1
<1>8. CASE events[i].type = "attempt-ended"
  <2>1. i \in OfType("attempt-ended")
    BY <1>8 DEF OfType
  <2>2. i = Len(events) /\ Digest(events).sent \subseteq Digest(events).done
    BY <2>1, EndIsLast
  <2>3. \A type : OfType(type) = At(events, type)
    BY DEF OfType, At
  <2>4. /\ Digest(events).sent = {events[j].action : j \in OfType("tool-dispatched")}
        /\ Digest(events).done = {events[j].action : j \in OfType("tool-result")}
    BY <2>3 DEF Digest
  <2> QED
    BY <1>8, <2>2, <2>4
<1> QED
  BY <1>2, <1>3, <1>4, <1>5, <1>6, <1>7, <1>8

\* The record is one HarnessNativeRuntimeEventSpine accepts, which throws
\* otherwise, and what the process remembers stays within the policy.
THEOREM LoopTypeCorrect == Spec => []TypeOK
<1>1. LoopInv => TypeOK
  <2> SUFFICES ASSUME LoopInv PROVE TypeOK
    OBVIOUS
  <2>1. Typed /\ RecordIsValid
    BY RecordValid DEF LoopInv
  <2>2. m \in Memories
    BY <2>1 DEF Typed
  <2>3. DOMAIN m = DOMAIN Fresh
    BY <2>2 DEF Memories, Fresh
  <2>4. /\ m.recoveries \in Nat /\ m.iterations \in Nat /\ m.toolCalls \in Nat
        /\ m.requests \in Seq(Kinds) /\ m.terminal \in {"none", "rejected-tool-limit"}
    BY <2>2 DEF Memories
  <2>5. setup.maxIterations \in Nat
    BY <2>1, SetupsAssumption DEF Typed
  <2>6. /\ m.recoveries \in 0 .. MaxProtocolRecoveries
        /\ m.iterations \in 0 .. setup.maxIterations
        /\ m.toolCalls \in 0 .. MaxToolCalls
    BY <2>1, <2>4, <2>5, PolicyAssumption DEF Typed
  <2> QED
    BY <2>1, <2>3, <2>4, <2>6 DEF TypeOK, Typed
<1> QED
  BY <1>1, LoopInvariance, PTL

\* However often the attempt was resumed, its record stays within the policy.
THEOREM BudgetsKept == Spec => []BudgetsHold
<1>1. LoopInv => BudgetsHold
  <2> SUFFICES ASSUME LoopInv PROVE BudgetsHold
    OBVIOUS
  <2> DEFINE d == Digest(events)
  <2>1. /\ setup \in Setups /\ events \in Seq(Events) /\ Consistent(setup, d)
        /\ Kept(setup, Len(events), events, tree)
    BY DurableKept
  <2>2. \A type : OfType(type) = At(events, type)
    BY DEF OfType, At
  <2>3. RecoveriesBounded
    <3> SUFFICES ASSUME NEW i \in 1 .. setup.maxIterations, NEW owner \in {"executor", "planner"}
                 PROVE  Cardinality({j \in OfType("protocol-recovery") :
                           /\ events[j].iteration = i /\ events[j].owner = owner
                           /\ events[j].disposition = "retrying"}) <= MaxProtocolRecoveries
      BY DEF RecoveriesBounded
    <3>1. <<owner, i>> \in Owners \X Nat /\ <<owner, i>>[1] = owner /\ <<owner, i>>[2] = i
      BY <2>1, SetupsAssumption DEF Owners
    <3>2. {j \in OfType("protocol-recovery") :
             /\ events[j].iteration = i /\ events[j].owner = owner
             /\ events[j].disposition = "retrying"} = RetriesOf(events, <<owner, i>>)
      BY <2>2, <3>1 DEF RetriesOf, Retries
    <3>3. d.retriesOf[<<owner, i>>] = Cardinality(RetriesOf(events, <<owner, i>>))
      BY <3>1 DEF Digest
    <3>4. d.retriesOf[<<owner, i>>] <= MaxProtocolRecoveries
      BY <2>1, <3>1 DEF Consistent
    <3> QED
      BY <3>2, <3>3, <3>4
  <2>4. Cardinality({events[i].call.iteration : i \in
          {j \in OfType("model-call-started") : events[j].call.owner = "executor"}})
          <= setup.maxIterations
    <3>1. PICK k \in 0 .. setup.maxIterations : d.iterations = 1 .. k
      BY <2>1 DEF Consistent
    <3>2. k \in Nat /\ k <= setup.maxIterations
      BY <2>1, <3>1, SetupsAssumption
    <3>3. Cardinality(d.iterations) = k
      BY <3>1, <3>2, FS_Interval
    <3>4. d.iterations = {events[i].call.iteration : i \in
            {j \in OfType("model-call-started") : events[j].call.owner = "executor"}}
      BY <2>2 DEF Digest, Iterations
    <3> QED
      BY <3>2, <3>3, <3>4
  <2>5. Cardinality({i \in OfType("tool-result") :
          events[i].r.status # "rejected" /\ events[i].r.kind # "composition"}) <= MaxToolCalls
    <3>1. \A i \in OfType("tool-result") : events[i] \in Events /\ events[i].type = "tool-result"
      BY <2>1 DEF OfType
    <3>2. {i \in OfType("tool-result") :
             events[i].r.status # "rejected" /\ events[i].r.kind # "composition"} = Tools(events)
      BY <2>2, <3>1, EventParts DEF Tools
    <3>3. d.tools = Cardinality(Tools(events)) /\ d.tools <= MaxToolCalls
      BY <2>1 DEF Digest, Consistent
    <3> QED
      BY <3>2, <3>3
  <2>6. Cardinality(OfType("plan-revised")) <= MaxPlanRevisions
    BY <2>1, <2>2 DEF Consistent, Digest
  <2>7. ASSUME NEW i \in OfType("completion-evaluated")
        PROVE  Cardinality({k \in OfType("completion-evaluated") :
                  /\ k <= i
                  /\ events[k].disposition = "continue"
                  /\ ~ \E j \in OfType("tool-result") : k < j /\ j < i}) <= MaxCompletionDeferrals
    <3> DEFINE p == Prefix(events, i)
               S == {k \in OfType("completion-evaluated") :
                       /\ k <= i
                       /\ events[k].disposition = "continue"
                       /\ ~ \E j \in OfType("tool-result") : k < j /\ j < i}
    <3>1. i \in 1 .. Len(events) /\ i \in 0 .. Len(events) /\ DOMAIN events \subseteq Nat
          /\ events[i].type = "completion-evaluated"
      BY <2>1 DEF OfType
    <3>2. Consistent(setup, Digest(p))
      BY <2>1, <3>1 DEF Kept, Log
    <3>3. /\ \A type : At(p, type) = {k \in OfType(type) : k <= i}
          /\ \A k \in DOMAIN events : k <= i => p[k] = events[k]
      BY <2>1, <2>2, <3>1, PrefixAt
    <3> HIDE DEF p
    <3>4. \A type : OfType(type) \subseteq DOMAIN events
      BY DEF OfType
    <3>5. Puts(p) = {k \in OfType("completion-evaluated") :
                       k <= i /\ events[k].disposition = "continue"}
      BY <3>3, <3>4 DEF Puts
    <3>6. \A j \in OfType("tool-result") : j # i
      BY <3>1 DEF OfType
    <3>7. ASSUME NEW k \in OfType("completion-evaluated"), k <= i
          PROVE  (\A j \in At(p, "tool-result") : j < k)
                   <=> ~ \E j \in OfType("tool-result") : k < j /\ j < i
      <4>1. \A j \in OfType("tool-result") : j # k /\ j \in Nat /\ j # i
        BY <3>1, <3>4, <3>6 DEF OfType
      <4>2. k \in Nat /\ i \in Nat
        BY <3>1, <3>4
      <4>3. At(p, "tool-result") = {j \in OfType("tool-result") : j <= i}
        BY <3>3
      <4>4. \A j \in OfType("tool-result") : ~(j <= i /\ ~(j < k)) <=> ~(k < j /\ j < i)
        BY <3>7, <4>1, <4>2
      <4> QED
        BY <4>3, <4>4
    <3>8. S = PutsSince(p)
      BY <3>5, <3>7 DEF PutsSince
    <3>9. Digest(p).since = Cardinality(PutsSince(p))
      BY DEF Digest
    <3>10. Digest(p).since <= MaxCompletionDeferrals
      BY <3>2 DEF Consistent
    <3> QED
      BY <3>8, <3>9, <3>10
  <2> QED
    BY <2>3, <2>4, <2>5, <2>6, <2>7 DEF BudgetsHold
<1> QED
  BY <1>1, LoopInvariance, PTL

\* Between two iterations the process remembers what the record says.
THEOREM NothingLost == Spec => []ResumeLosesNothing
<1>1. LoopInv => ResumeLosesNothing
  <2> SUFFICES ASSUME LoopInv, at = "iterate", writing = <<>>
               PROVE  /\ [m EXCEPT !.step = NoStep, !.recoveries = 0] = [Restored EXCEPT !.step = NoStep]
                      /\ setup.presentation = "native" => m.step = Restored.step
    BY DEF ResumeLosesNothing
  <2> DEFINE d == Digest(events)
             new == Restored
  <2>1. /\ setup \in Setups /\ events \in Seq(Events) /\ m \in Memories
        /\ Consistent(setup, d) /\ Lives(setup, "iterate", m, tree, d)
    BY Ready DEF Gone
  <2>2. /\ Counters("iterate", m, d) /\ PlanKnown("iterate", setup, m, d)
        /\ AtRestNow("iterate", m)
    BY <2>1 DEF Lives, Going
  <2>3. /\ new \in Memories
        /\ d.iterations = 1 .. new.iterations
        /\ new.toolCalls = d.tools /\ new.rejectedToolCalls = d.rejects
        /\ new.protocolRecoveries = d.retries /\ new.completionDeferrals = d.puts
        /\ new.consecutive = d.since /\ new.modelCalls = d.starts
        /\ new.recoveries = 0 /\ new.requests = <<>> /\ new.index = 0
        /\ new.result = NoResult /\ new.terminal = "none"
        /\ new.trigger = "none" /\ new.revisions = d.plan.revisions
        /\ new.step = d.plan.step /\ new.seen = d.plan.seen
    BY <2>1, RestoredType
  <2> HIDE DEF d, new
  <2>4. m.iterations = new.iterations
    <3>1. m.iterations \in Nat /\ new.iterations \in Nat
      BY <2>1, <2>3 DEF Memories
    <3>2. 1 .. m.iterations = 1 .. new.iterations
      BY <2>2, <2>3 DEF Counters
    <3> QED
      BY <3>1, <3>2
  <2>5. /\ m.toolCalls = new.toolCalls /\ m.rejectedToolCalls = new.rejectedToolCalls
        /\ m.protocolRecoveries = new.protocolRecoveries
        /\ m.completionDeferrals = new.completionDeferrals /\ m.consecutive = new.consecutive
        /\ m.modelCalls = new.modelCalls /\ m.revisions = new.revisions
    BY <2>2, <2>3 DEF Counters
  <2>6. /\ m.requests = new.requests /\ m.index = new.index /\ m.trigger = new.trigger
        /\ m.result = new.result /\ m.terminal = new.terminal
    BY <2>2, <2>3 DEF AtRestNow, Going
  <2>7. m.seen = new.seen /\ (setup.presentation = "native" => m.step = new.step)
    BY <2>1, <2>2, <2>3 DEF PlanKnown, Memories
  <2>8. [m EXCEPT !.step = NoStep, !.recoveries = 0] = [new EXCEPT !.step = NoStep]
    BY <2>1, <2>3, <2>4, <2>5, <2>6, <2>7 DEF Memories
  <2> QED
    BY <2>7, <2>8 DEF new
<1> QED
  BY <1>1, LoopInvariance, PTL

\* An attempt only finishes on a worktree that the last verification passed, or
\* that was neither touched nor found wanting.
THEOREM OnlyVerified == Spec => []FinishedIsVerified
<1>1. LoopInv => FinishedIsVerified
  <2> SUFFICES ASSUME LoopInv, HasEnded("finished"), setup.verification
               PROVE  \/ Verifications = {} /\ tree = 0
                      \/ \E i \in Verifications :
                           /\ \A j \in Verifications : j <= i
                           /\ events[i].r.outcome = "passed"
                           /\ events[i].observed = tree
    BY DEF FinishedIsVerified
  <2> DEFINE n == Len(events)
             p == Prefix(events, n - 1)
             d == Digest(p)
             e == events[n]
  <2>1. PICK i \in OfType("attempt-ended") : events[i].reason = "finished"
    BY DEF HasEnded
  <2>2. i = n /\ n \in DOMAIN events /\ e.type = "attempt-ended" /\ e.reason = "finished"
    BY <2>1, EndIsLast DEF OfType
  <2>3. /\ events \in Seq(Events) /\ Kept(setup, n, events, tree) /\ Known(Digest(events), tree)
    BY DurableKept
  <2>4. Accepts(setup, d, e) /\ e \in Events
    BY <2>2, Before
  <2>5. d.obliged = "none" /\ Resolved(d)
    BY <2>2, <2>4 DEF Accepts
  <2>6. n - 1 \in 0 .. n /\ n \in Nat /\ p \in Seq(Events) /\ Len(p) = n - 1
        /\ \A j \in 1 .. n - 1 : p[j] = events[j]
    <3>1. n - 1 \in 0 .. n /\ n \in Nat
      BY <2>2, <2>3
    <3> QED
      BY <2>3, <3>1, PrefixParts
  <2>7. Settled(p)
    BY <2>3, <2>6 DEF Kept, Log
  <2> HIDE DEF p
  <2>8. events = Append(p, e)
    <3>1. /\ Append(p, e) \in Seq(Events) /\ Len(Append(p, e)) = n
          /\ \A j \in 1 .. n : Append(p, e)[j] = events[j]
      BY <2>3, <2>4, <2>6
    <3> HIDE DEF n, e
    <3> QED
      BY <2>3, <3>1, SeqEqual DEF n
  <2>9. Digest(events) = Digested(d, e)
    BY <2>4, <2>6, <2>8, DigestAppend
  <2>10. Digest(events).muts = d.muts /\ Resolved(Digest(events))
    BY <2>2, <2>5, <2>9 DEF Digested, Mutates, Plus, Resolved, With
  <2>11. tree = d.muts
    BY <2>3, <2>10 DEF Known
  <2>12. Verifications = Verified(p)
    <3>1. DOMAIN events = 1 .. n /\ DOMAIN p = 1 .. n - 1
      BY <2>3, <2>6
    <3>2. \A j \in DOMAIN events : events[j].type = "tool-result" => j \in 1 .. n - 1
      BY <2>2, <2>6, <3>1
    <3>3. 1 .. n - 1 \subseteq 1 .. n
      BY <2>6
    <3> HIDE DEF n, e
    <3> QED
      BY <2>6, <3>1, <3>2, <3>3 DEF Verifications, Verified, OfType, At
  <2>13. \A j \in Verified(p) : p[j] = events[j]
    BY <2>6 DEF Verified, At
  <2> QED
    BY <2>5, <2>7, <2>11, <2>12, <2>13 DEF Settled
<1> QED
  BY <1>1, LoopInvariance, PTL
=============================================================================
