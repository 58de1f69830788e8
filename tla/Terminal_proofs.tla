---------------------------- MODULE Terminal_proofs ----------------------------
(***************************************************************************)
(* Proofs about the two sides of a task's terminal: TerminalSession, for   *)
(* any scenario (any number of starts, checkpoint captures and ticks of    *)
(* the clock, and any restart limits), and TerminalStream, for any set of  *)
(* viewers, any water marks and any number of chunks and lost sockets.     *)
(***************************************************************************)
EXTENDS TerminalSession, TerminalStream, SequenceTheorems, WellFoundedInduction, TLAPS

(***************************************************************************)
(* The session.                                                            *)
(*                                                                         *)
(* The callbacks of a process read whatever process is active, so each     *)
(* promise needs to know when the active process is the one meant: the     *)
(* invariant says which processes may run, which summary may stand, and    *)
(* which checkpoint work may be under way as long as nothing has           *)
(* overlapped.                                                             *)
(***************************************************************************)
Scenario == [kind : {"task", "shell"}, starts : Nat, captures : Nat,
             time : Nat, prompts : BOOLEAN]
States == {"idle", "running", "awaiting_review", "failed", "interrupted"}
Reasons == {"none", "attention", "hook", "error", "exit", "interrupted"}
Runs == {"live", "killed"}

\* What a summary and a capture may refer to when n captures have begun.
Checkpoint(n) == [turn : 0 .. n, commit : 0 .. n]
Summary(n) == [state : States, reason : Reasons,
               latest : Checkpoint(n), prev : Checkpoint(n)]
Capture(n) == [turn : 1 .. n, stale : 0 .. n, step : {"git", "apply", "over"}]

Begun == Len(captures)

\* The restart stamps, a recursive selection, are left out: nothing reads them
\* but the restart limit.
SessionOK ==
  /\ scenario \in Scenario
  /\ starts \in [Starts -> [at : {"none", "preparing", "over"},
                            auto : BOOLEAN, resume : BOOLEAN]]
  /\ proc \in [Starts -> [life : {"none", "gone"} \cup Runs, interrupted : BOOLEAN]]
  /\ active \in Starts \cup {0}
  /\ act \in [trust : BOOLEAN, prompt : BOOLEAN, confirmed : BOOLEAN,
              timer : BOOLEAN, deferred : BOOLEAN, enter : BOOLEAN]
  /\ timers \in SUBSET Starts
  /\ request \in BOOLEAN /\ attached \in BOOLEAN /\ suppress \in BOOLEAN
  /\ pending \in Starts \cup {0}
  /\ clock \in Nat

CheckpointOK ==
  /\ captures \in Seq(Capture(Begun))
  /\ Begun <= scenario.captures
  /\ refs \in [Turns -> 0 .. Begun]
  /\ deletes \in SUBSET Turns

TypeOK ==
  /\ SessionOK
  /\ CheckpointOK
  /\ summary \in Summary(Begun)
  /\ seen \in [overlap : BOOLEAN, crossed : BOOLEAN, entered : BOOLEAN]

\* The active process runs, unless it has been killed and has yet to exit, and
\* a start has no process before it is over.
Placed ==
  /\ active # 0 => proc[active].life \in Runs
  /\ \A i \in Starts : starts[i].at # "over" => proc[i].life = "none"

\* A shell starts in one step and has no checkpoints.
ShellIsPlain ==
  kind = "shell" => /\ \A i \in Starts : starts[i].at # "preparing"
                    /\ captures = <<>> /\ deletes = {}

\* An Enter that counts was typed in this review.
EnterIsOwn == act.enter => kind = "task" /\ active # 0 /\ seen.entered

\* Unless two starts overlapped, one process runs at a time, and it is the
\* active one; a start prepares while there is none; and the summary of an
\* active process has it at work, so that a new start leaves it alone.
Alone ==
  ~seen.overlap =>
    /\ \A i \in Starts : proc[i].life \in Runs => active = i
    /\ \A i \in Starts : starts[i].at = "preparing" => active = 0
    /\ \A i, j \in Starts : starts[i].at = "preparing" /\ starts[j].at = "preparing" => i = j
    /\ active # 0 => /\ IsActiveState(summary.state)
                     /\ kind = "shell" => summary.state = "running"

\* Unless captures crossed, there is one at a time, it is for the turn after
\* the latest, and no ref that is to be deleted is one the summary shows.
InTurn ==
  ~seen.crossed =>
    /\ \A c, d \in Working : c = d
    /\ \A c \in Working :
          /\ deletes = {}
          /\ captures[c].turn = summary.latest.turn + 1
          /\ captures[c].stale \in {0, summary.prev.turn}
          /\ captures[c].step = "apply" => refs[captures[c].turn] = c
    /\ \A t \in deletes : t \notin {summary.latest.turn, summary.prev.turn}

IInv ==
  /\ TypeOK
  /\ Placed /\ ShellIsPlain /\ EnterIsOwn /\ Alone
  /\ InTurn /\ CheckpointsKept
-----------------------------------------------------------------------------
(***************************************************************************)
(* Lemmas about the operators.                                             *)
(***************************************************************************)

\* NextStart is a start nobody has asked for yet.
LEMMA NextStartIsUnstarted ==
  ASSUME SessionOK, Unstarted # {}
  PROVE  NextStart \in Starts /\ starts[NextStart].at = "none"
<1>1. Unstarted \subseteq Nat
  BY DEF Unstarted, Starts, SessionOK, Scenario
<1>2. PICK x \in Unstarted : \A y \in Unstarted : ~(<<y, x>> \in OpToRel(<, Nat))
  BY <1>1, WFMin, NatLessThanWellFounded, Zenon
<1>3. \A y \in Unstarted : ~(y < x)
  BY <1>1, <1>2, Zenon DEF OpToRel
<1>4. \A y \in Unstarted : x =< y
  BY <1>1, <1>3
<1>5. NextStart \in Unstarted
  BY <1>2, <1>4 DEF NextStart, Min
<1> QED
  BY <1>5 DEF Unstarted
-----------------------------------------------------------------------------
(***************************************************************************)
(* What the rest of the session does to the checkpoints: the summary keeps *)
(* them or is a fresh one, and a capture of the next turn begins or not.   *)
(* Where that overlaps other checkpoint work, the captures have crossed.   *)
(***************************************************************************)
Begins ==
  /\ kind = "task" /\ Begun < scenario.captures
  /\ \E stale \in {0, summary'.prev.turn} :
        captures' = Append(captures, [turn |-> summary'.latest.turn + 1,
                                      stale |-> stale, step |-> "git"])
  /\ UNCHANGED <<refs, deletes>>

SummaryStays ==
  summary'.latest = summary.latest /\ summary'.prev = summary.prev

SummaryIsFresh ==
  summary'.latest = NoTurn /\ summary'.prev = NoTurn

SessionStep ==
  /\ UNCHANGED scenario
  /\ seen.crossed => seen'.crossed
  /\ summary'.state \in States /\ summary'.reason \in Reasons
  /\ summary' = [state |-> summary'.state, reason |-> summary'.reason,
                 latest |-> summary'.latest, prev |-> summary'.prev]
  /\ SummaryStays \/ SummaryIsFresh
  /\ UNCHANGED checkpointing \/ Begins
  /\ ~SummaryStays \/ captures' # captures =>
        kind = "shell" \/ (CapturesOverlap => seen'.crossed)

\* The checkpoints stay well formed.
LEMMA SessionStepTypes ==
  ASSUME TypeOK, SessionStep
  PROVE  CheckpointOK' /\ (summary \in Summary(Begun))'
<1> DEFINE n == Begun
           m == scenario.captures
<1>1. n \in Nat /\ m \in Nat /\ captures \in Seq(Capture(n)) /\ n <= m
  BY DEF TypeOK, SessionOK, CheckpointOK, Scenario, Begun
<1>2. summary.latest \in Checkpoint(n) /\ summary.prev \in Checkpoint(n)
      /\ NoTurn \in Checkpoint(n)
  BY <1>1 DEF TypeOK, Summary, Checkpoint, NoTurn
<1>3. summary'.latest \in Checkpoint(n) /\ summary'.prev \in Checkpoint(n)
  BY <1>2 DEF SessionStep, SummaryStays, SummaryIsFresh
<1>4. Turns' = Turns /\ scenario'.captures = m /\ scenario' = scenario
  BY DEF SessionStep, Turns
<1>5. summary' \in Summary(n)
  BY <1>3 DEF SessionStep, Summary
<1>6. CASE UNCHANGED checkpointing
  <2>1. Begun' = n
    BY <1>6 DEF checkpointing, Begun
  <2> QED
    BY <1>4, <1>5, <1>6, <2>1 DEF checkpointing, CheckpointOK, TypeOK
<1>7. CASE Begins
  <2>1. PICK stale \in {0, summary'.prev.turn} :
           captures' = Append(captures, [turn |-> summary'.latest.turn + 1,
                                         stale |-> stale, step |-> "git"])
    BY <1>7 DEF Begins
  <2> DEFINE new == [turn |-> summary'.latest.turn + 1, stale |-> stale, step |-> "git"]
  <2>2. new \in Capture(n + 1)
    BY <1>1, <1>3 DEF Capture, Checkpoint
  <2>3. Capture(n) \subseteq Capture(n + 1)
    BY <1>1 DEF Capture
  <2> HIDE DEF new
  <2>4. captures \in Seq(Capture(n + 1))
    <3>1. \A i \in 1 .. Len(captures) : captures[i] \in Capture(n + 1)
      BY <1>1, <2>3
    <3> QED
      BY <1>1, <3>1
  <2>5. captures' \in Seq(Capture(n + 1)) /\ Len(captures') = n + 1
    BY <2>1, <2>2, <2>4 DEF new, Begun
  <2>6. Begun' = n + 1
    BY <2>5 DEF Begun
  <2>7. summary' \in Summary(n + 1)
    BY <1>1, <1>5 DEF Summary, Checkpoint
  <2>8. n + 1 <= m
    BY <1>1, <1>7 DEF Begins, Begun
  <2>9. refs' \in [Turns -> 0 .. n + 1] /\ deletes' \in SUBSET Turns
    <3>1. refs' = refs /\ deletes' = deletes
      BY <1>7 DEF Begins
    <3>2. refs \in [Turns -> 0 .. n] /\ deletes \in SUBSET Turns
      BY DEF TypeOK, CheckpointOK
    <3> HIDE DEF n
    <3>3. (0 .. n) \subseteq 0 .. n + 1
      BY <1>1
    <3> QED
      BY <3>1, <3>2, <3>3
  <2> HIDE DEF n, m
  <2> QED
    BY <1>4, <2>5, <2>6, <2>7, <2>8, <2>9 DEF CheckpointOK
<1> QED
  BY <1>6, <1>7 DEF SessionStep

\* The captures stay in turn and the summary's refs in git.
LEMMA SessionStepKeeps ==
  ASSUME IInv, SessionStep, ~seen'.crossed
  PROVE  InTurn' /\ CheckpointsKept'
<1> DEFINE latest == summary.latest
           prev == summary.prev
<1>1. ~seen.crossed
  BY DEF SessionStep
<1>2. /\ \A cp \in {latest, prev} : cp.turn # 0 => refs[cp.turn] = cp.commit
      /\ prev.turn # 0 => latest.turn = prev.turn + 1
  BY <1>1 DEF IInv, CheckpointsKept
<1>3. captures \in Seq(Capture(Begun)) /\ Begun = Len(captures) /\ Begun \in Nat
  BY DEF IInv, TypeOK, CheckpointOK, Begun
<1>4. CASE UNCHANGED checkpointing /\ SummaryStays
  <2>1. /\ captures' = captures /\ refs' = refs /\ deletes' = deletes
        /\ Working' = Working
    BY <1>4 DEF checkpointing, Working
  <2>2. InTurn'
    BY <1>1, <1>4, <2>1 DEF IInv, InTurn, SummaryStays
  <2>3. CheckpointsKept'
    BY <1>2, <1>4, <2>1 DEF CheckpointsKept, SummaryStays
  <2> QED
    BY <2>2, <2>3
<1>5. CASE ~(UNCHANGED checkpointing /\ SummaryStays)
  <2>1. Working = {} /\ deletes = {}
    <3>1. CASE kind = "shell"
      <4>1. captures = <<>> /\ deletes = {}
        BY <3>1 DEF IInv, ShellIsPlain
      <4> QED
        BY <4>1 DEF Working
    <3>2. CASE kind # "shell"
      <4>1. ~SummaryStays \/ captures' # captures
        BY <1>5, <1>3 DEF SessionStep, Begins, checkpointing
      <4> QED
        BY <3>2, <4>1 DEF SessionStep, CapturesOverlap
    <3> QED
      BY <3>1, <3>2
  <2>2. refs' = refs /\ deletes' = {}
    BY <2>1 DEF SessionStep, Begins, checkpointing
  <2>3. CheckpointsKept'
    BY <1>2, <2>2 DEF CheckpointsKept, SessionStep, SummaryStays, SummaryIsFresh, NoTurn
  <2>4. CASE UNCHANGED checkpointing
    <3>1. Working' = {}
      BY <2>1, <2>4 DEF checkpointing, Working
    <3> QED
      BY <2>2, <2>3, <3>1 DEF InTurn
  <2>5. CASE Begins
    <3>1. PICK stale \in {0, summary'.prev.turn} :
             captures' = Append(captures, [turn |-> summary'.latest.turn + 1,
                                           stale |-> stale, step |-> "git"])
      BY <2>5 DEF Begins
    <3>2. Working' = {Begun + 1}
      BY <1>3, <2>1, <3>1 DEF Working
    <3>3. captures'[Begun + 1] = [turn |-> summary'.latest.turn + 1,
                                  stale |-> stale, step |-> "git"]
      BY <1>3, <3>1
    <3>4. InTurn'
      BY <2>2, <3>2, <3>3 DEF InTurn
    <3> QED
      BY <2>3, <3>4
  <2> QED
    BY <2>4, <2>5 DEF SessionStep
<1> QED
  BY <1>4, <1>5
-----------------------------------------------------------------------------
(***************************************************************************)
(* The steps of the checkpoints themselves leave the session alone.        *)
(***************************************************************************)
CheckpointStep ==
  \/ \E c \in DOMAIN captures : CaptureRef(c) \/ CaptureFails(c) \/ ApplyTurnCheckpoint(c)
  \/ \E t \in Turns : DeleteRef(t)

\* The session part of the invariant.
SessionInv == SessionOK /\ Placed /\ EnterIsOwn /\ Alone

LEMMA CheckpointStepLeavesSession ==
  ASSUME IInv, CheckpointStep
  PROVE  /\ SessionInv'
         /\ seen' = seen /\ scenario' = scenario
         /\ summary'.state = summary.state
<1>1. UNCHANGED session /\ seen' = seen
  BY DEF CheckpointStep, CaptureRef, CaptureFails, ApplyTurnCheckpoint, DeleteRef
<1>2. summary'.state = summary.state
  BY DEF CheckpointStep, CaptureRef, CaptureFails, ApplyTurnCheckpoint, DeleteRef,
         IInv, TypeOK, Summary
<1>3. Starts' = Starts /\ kind' = kind /\ Turns' = Turns
  BY <1>1 DEF session, Starts, kind, Turns
<1>4. SessionOK'
  BY <1>1, <1>3 DEF IInv, TypeOK, SessionOK, session
<1>5. Placed' /\ EnterIsOwn'
  BY <1>1, <1>3 DEF IInv, Placed, EnterIsOwn, session
<1>6. Alone'
  BY <1>1, <1>2, <1>3 DEF IInv, Alone, session
<1> QED
  BY <1>1, <1>2, <1>4, <1>5, <1>6 DEF SessionInv, session

\* A capture of the sequence, taken one step further.
LEMMA CaptureAdvances ==
  ASSUME TypeOK, NEW c \in DOMAIN captures, NEW step \in {"apply", "over"},
         captures' = [captures EXCEPT ![c].step = step]
  PROVE  /\ captures' \in Seq(Capture(Begun)) /\ Begun' = Begun
         /\ DOMAIN captures' = DOMAIN captures
         /\ \A d \in DOMAIN captures :
               captures'[d] = IF d = c THEN [captures[d] EXCEPT !.step = step]
                                       ELSE captures[d]
<1>1. captures \in Seq(Capture(Begun)) /\ Begun \in Nat /\ Begun = Len(captures)
  BY DEF TypeOK, CheckpointOK, Begun
<1>2. c \in 1 .. Len(captures) /\ captures[c] \in Capture(Begun)
  BY <1>1
<1>3. [captures[c] EXCEPT !.step = step] \in Capture(Begun)
  BY <1>2 DEF Capture
<1>4. captures' = [captures EXCEPT ![c] = [captures[c] EXCEPT !.step = step]]
  OBVIOUS
<1>5. captures' \in Seq(Capture(Begun)) /\ Len(captures') = Len(captures)
      /\ DOMAIN captures' = DOMAIN captures
  BY <1>1, <1>2, <1>3, <1>4
<1> QED
  BY <1>1, <1>4, <1>5 DEF Begun

LEMMA CheckpointStepTypes ==
  ASSUME IInv, CheckpointStep
  PROVE  CheckpointOK' /\ (summary \in Summary(Begun))'
<1>1. TypeOK /\ Turns' = Turns /\ scenario' = scenario /\ Begun \in Nat
      /\ captures \in Seq(Capture(Begun)) /\ Begun = Len(captures)
  BY CheckpointStepLeavesSession DEF IInv, Turns, TypeOK, CheckpointOK, Begun
<1>2. ASSUME NEW c \in DOMAIN captures, CaptureRef(c)
      PROVE  CheckpointOK' /\ (summary \in Summary(Begun))'
  <2>1. captures' \in Seq(Capture(Begun)) /\ Begun' = Begun
    BY <1>1, <1>2, CaptureAdvances DEF CaptureRef
  <2>2. refs' = [refs EXCEPT ![captures[c].turn] = c]
        /\ deletes' = deletes /\ summary' = summary
    BY <1>2 DEF CaptureRef
  <2>3. refs \in [Turns -> 0 .. Begun] /\ c \in 0 .. Begun
    BY <1>1 DEF TypeOK, CheckpointOK
  <2>4. refs' \in [Turns -> 0 .. Begun]
    BY <2>2, <2>3
  <2> QED
    BY <1>1, <2>1, <2>2, <2>4 DEF TypeOK, CheckpointOK
<1>3. ASSUME NEW c \in DOMAIN captures, CaptureFails(c)
      PROVE  CheckpointOK' /\ (summary \in Summary(Begun))'
  <2>1. captures' \in Seq(Capture(Begun)) /\ Begun' = Begun
    BY <1>1, <1>3, CaptureAdvances DEF CaptureFails
  <2> QED
    BY <1>1, <1>3, <2>1 DEF CaptureFails, TypeOK, CheckpointOK
<1>4. ASSUME NEW c \in DOMAIN captures, ApplyTurnCheckpoint(c)
      PROVE  CheckpointOK' /\ (summary \in Summary(Begun))'
  <2>1. captures' \in Seq(Capture(Begun)) /\ Begun' = Begun
    BY <1>1, <1>4, CaptureAdvances DEF ApplyTurnCheckpoint
  <2>2. captures[c] \in Capture(Begun) /\ c \in 1 .. Begun
    BY <1>1
  <2>3. summary' \in Summary(Begun)
    <3>1. [turn |-> captures[c].turn, commit |-> c] \in Checkpoint(Begun)
      BY <1>1, <2>2 DEF Checkpoint, Capture
    <3>2. summary \in Summary(Begun)
      BY <1>1 DEF TypeOK
    <3> QED
      BY <1>4, <3>1, <3>2 DEF ApplyTurnCheckpoint, Summary
  <2>4. deletes' \in SUBSET Turns
    <3>1. captures[c].stale \in 0 .. scenario.captures
      BY <1>1, <2>2 DEF Capture, TypeOK, CheckpointOK, SessionOK, Scenario
    <3> QED
      BY <1>1, <1>4, <3>1 DEF ApplyTurnCheckpoint, TypeOK, CheckpointOK, SessionOK,
                              Scenario, Turns
  <2> QED
    BY <1>1, <1>4, <2>1, <2>3, <2>4 DEF ApplyTurnCheckpoint, TypeOK, CheckpointOK
<1>5. ASSUME NEW t \in Turns, DeleteRef(t)
      PROVE  CheckpointOK' /\ (summary \in Summary(Begun))'
  <2>1. refs' \in [Turns -> 0 .. Begun] /\ deletes' \in SUBSET Turns
    BY <1>1, <1>5 DEF DeleteRef, TypeOK, CheckpointOK
  <2> QED
    BY <1>1, <1>5, <2>1 DEF DeleteRef, TypeOK, CheckpointOK, Begun
<1> QED
  BY <1>2, <1>3, <1>4, <1>5 DEF CheckpointStep

LEMMA CheckpointStepKeeps ==
  ASSUME IInv, CheckpointStep, ~seen'.crossed
  PROVE  InTurn' /\ CheckpointsKept'
<1> DEFINE latest == summary.latest
           prev == summary.prev
<1>1. ~seen.crossed /\ TypeOK
  BY CheckpointStepLeavesSession DEF IInv
<1>2. /\ latest.turn # 0 => refs[latest.turn] = latest.commit
      /\ prev.turn # 0 => refs[prev.turn] = prev.commit
      /\ prev.turn # 0 => latest.turn = prev.turn + 1
  BY <1>1 DEF IInv, CheckpointsKept
<1>3. /\ latest.turn \in Nat /\ prev.turn \in Nat
      /\ captures \in Seq(Capture(Begun)) /\ Begun \in Nat
      /\ \A d \in DOMAIN captures : captures[d] \in Capture(Begun)
  BY <1>1 DEF TypeOK, Summary, Checkpoint, CheckpointOK, Begun
<1>4. /\ refs \in [Turns -> 0 .. Begun] /\ Turns = 1 .. scenario.captures
      /\ scenario.captures \in Nat /\ Begun <= scenario.captures
  BY <1>1 DEF TypeOK, CheckpointOK, SessionOK, Scenario, Turns
<1>5. /\ \A c, d \in Working : c = d
      /\ \A c \in Working :
            /\ deletes = {}
            /\ captures[c].turn = latest.turn + 1
            /\ captures[c].stale \in {0, prev.turn}
            /\ captures[c].step = "apply" => refs[captures[c].turn] = c
      /\ \A t \in deletes : t \notin {latest.turn, prev.turn}
  BY <1>1 DEF IInv, InTurn
<1> HIDE DEF latest, prev
<1>6. ASSUME NEW c \in DOMAIN captures, CaptureRef(c)
      PROVE  InTurn' /\ CheckpointsKept'
  <2>1. c \in Working
    BY <1>6 DEF CaptureRef, Working
  <2>2. captures[c].turn \in Turns /\ captures[c].turn = latest.turn + 1
    BY <1>3, <1>4, <1>5, <2>1 DEF Capture
  <2>3. summary' = summary /\ deletes' = deletes /\ deletes = {}
    BY <1>5, <1>6, <2>1 DEF CaptureRef
  <2>4. refs' = [refs EXCEPT ![latest.turn + 1] = c]
    BY <1>6, <2>2 DEF CaptureRef
  <2>5. /\ DOMAIN captures' = DOMAIN captures
        /\ \A d \in DOMAIN captures : d # c => captures'[d] = captures[d]
        /\ captures'[c] = [captures[c] EXCEPT !.step = "apply"]
    BY <1>1, <1>6, CaptureAdvances DEF CaptureRef
  <2>6. Working' = Working
    BY <1>6, <2>5, <1>3 DEF Working, CaptureRef, Capture
  <2>7. CheckpointsKept'
    BY <1>2, <1>3, <1>4, <2>2, <2>3, <2>4 DEF CheckpointsKept, latest, prev
  <2>8. \A d \in Working : d = c
    BY <1>5, <2>1
  <2>9. /\ captures'[c].turn = latest.turn + 1
        /\ captures'[c].stale \in {0, prev.turn}
        /\ refs'[captures'[c].turn] = c
    BY <1>3, <1>4, <1>5, <2>1, <2>2, <2>4, <2>5 DEF Capture
  <2>10. InTurn'
    BY <2>3, <2>6, <2>8, <2>9 DEF InTurn, latest, prev
  <2> QED
    BY <2>7, <2>10
<1>7. ASSUME NEW c \in DOMAIN captures, CaptureFails(c)
      PROVE  InTurn' /\ CheckpointsKept'
  <2>1. c \in Working
    BY <1>7 DEF CaptureFails, Working
  <2>2. summary' = summary /\ deletes' = deletes /\ deletes = {} /\ refs' = refs
    BY <1>5, <1>7, <2>1 DEF CaptureFails
  <2>3. /\ DOMAIN captures' = DOMAIN captures
        /\ \A d \in DOMAIN captures : d # c => captures'[d] = captures[d]
        /\ captures'[c] = [captures[c] EXCEPT !.step = "over"]
    BY <1>1, <1>7, CaptureAdvances DEF CaptureFails
  <2>4. Working' = {}
    <3>1. Working' = {d \in DOMAIN captures : captures'[d].step # "over"}
      BY <2>3 DEF Working
    <3>2. captures'[c].step = "over"
      BY <1>3, <2>3 DEF Capture
    <3>3. \A d \in DOMAIN captures : d # c => captures'[d].step = "over"
      BY <1>5, <2>1, <2>3 DEF Working
    <3> QED
      BY <3>1, <3>2, <3>3
  <2> QED
    BY <1>2, <2>2, <2>4 DEF InTurn, CheckpointsKept, latest, prev
<1>8. ASSUME NEW c \in DOMAIN captures, ApplyTurnCheckpoint(c)
      PROVE  InTurn' /\ CheckpointsKept'
  <2>1. c \in Working
    BY <1>8 DEF ApplyTurnCheckpoint, Working
  <2>2. /\ captures[c].turn = latest.turn + 1 /\ refs[captures[c].turn] = c
        /\ captures[c].stale \in {0, prev.turn} /\ deletes = {}
    BY <1>5, <1>8, <2>1 DEF ApplyTurnCheckpoint
  <2>3. /\ summary'.prev = latest
        /\ summary'.latest = [turn |-> latest.turn + 1, commit |-> c]
        /\ refs' = refs /\ deletes' = {captures[c].stale} \ {0}
    BY <1>1, <1>8, <2>2 DEF ApplyTurnCheckpoint, TypeOK, Summary, latest
  <2>4. /\ DOMAIN captures' = DOMAIN captures
        /\ \A d \in DOMAIN captures : d # c => captures'[d] = captures[d]
        /\ captures'[c] = [captures[c] EXCEPT !.step = "over"]
    BY <1>1, <1>8, CaptureAdvances DEF ApplyTurnCheckpoint
  <2>5. Working' = {}
    <3>1. Working' = {d \in DOMAIN captures : captures'[d].step # "over"}
      BY <2>4 DEF Working
    <3>2. captures'[c].step = "over"
      BY <1>3, <2>4 DEF Capture
    <3>3. \A d \in DOMAIN captures : d # c => captures'[d].step = "over"
      BY <1>5, <2>1, <2>4 DEF Working
    <3> QED
      BY <3>1, <3>2, <3>3
  <2>6. CheckpointsKept'
    BY <1>2, <1>3, <2>2, <2>3 DEF CheckpointsKept
  <2>7. \A t \in deletes' : t \notin {summary'.latest.turn, summary'.prev.turn}
    BY <1>2, <1>3, <2>2, <2>3
  <2> QED
    BY <2>5, <2>6, <2>7 DEF InTurn
<1>9. ASSUME NEW t \in Turns, DeleteRef(t)
      PROVE  InTurn' /\ CheckpointsKept'
  <2>1. /\ t \in deletes /\ summary' = summary /\ captures' = captures
        /\ refs' = [refs EXCEPT ![t] = 0] /\ deletes' = deletes \ {t}
    BY <1>9 DEF DeleteRef
  <2>2. Working = {} /\ Working' = {}
    BY <1>5, <2>1 DEF Working
  <2>3. t \notin {latest.turn, prev.turn}
    BY <1>5, <2>1
  <2>4. CheckpointsKept'
    BY <1>2, <1>3, <1>4, <2>1, <2>3 DEF CheckpointsKept, latest, prev
  <2> QED
    BY <1>5, <2>1, <2>2, <2>4 DEF InTurn, latest, prev
<1> QED
  BY <1>6, <1>7, <1>8, <1>9 DEF CheckpointStep

LEMMA CheckpointStepInvariant ==
  ASSUME IInv, CheckpointStep
  PROVE  IInv'
<1>1. SessionInv' /\ seen' = seen /\ scenario' = scenario
  BY CheckpointStepLeavesSession
<1>2. TypeOK'
  BY <1>1, CheckpointStepTypes DEF TypeOK, SessionInv, IInv
<1>3. InTurn' /\ CheckpointsKept'
  BY CheckpointStepKeeps DEF InTurn, CheckpointsKept
<1>4. ShellIsPlain'
  <2>1. CASE kind # "shell"
    BY <1>1, <2>1 DEF ShellIsPlain, kind
  <2>2. kind # "shell"
    BY DEF CheckpointStep, DeleteRef, IInv, ShellIsPlain
  <2> QED
    BY <2>1, <2>2
<1> QED
  BY <1>1, <1>2, <1>3, <1>4 DEF IInv, SessionInv
-----------------------------------------------------------------------------
(***************************************************************************)
(* What each step of the session does to the summary and the checkpoints.  *)
(***************************************************************************)
LEMMA BeginCaptureIsStep ==
  ASSUME kind = "task", NEW stale, stale \in {0, summary'.prev.turn}, NEW sum,
         sum.latest.turn = summary'.latest.turn, BeginCapture(sum, stale)
  PROVE  UNCHANGED checkpointing \/ Begins
BY DEF BeginCapture, Begins, Begun, checkpointing

\* A summary that keeps its checkpoints, checkpoint work that does not begin.
LEMMA PlainStep ==
  ASSUME TypeOK, UNCHANGED <<scenario, checkpointing>>, seen'.crossed = seen.crossed,
         NEW state \in States, NEW reason \in Reasons,
         summary' = [summary EXCEPT !.state = state, !.reason = reason]
  PROVE  SessionStep
BY DEF SessionStep, SummaryStays, checkpointing, TypeOK, Summary

LEMMA StillStep ==
  ASSUME TypeOK, UNCHANGED <<scenario, checkpointing, summary>>, seen'.crossed = seen.crossed
  PROVE  SessionStep
BY DEF SessionStep, SummaryStays, checkpointing, TypeOK, Summary

\* A fresh summary: checkpoint work under way has crossed.
LEMMA FreshStep ==
  ASSUME UNCHANGED <<scenario, checkpointing>>,
         NEW state \in States, NEW reason \in Reasons, summary' = Fresh(state, reason),
         seen.crossed => seen'.crossed,
         kind = "shell" \/ (CapturesOverlap => seen'.crossed)
  PROVE  SessionStep
BY DEF SessionStep, SummaryIsFresh, Fresh, checkpointing

SessionAction ==
  \/ \E resume \in BOOLEAN : RequestStart(resume)
  \/ StartShell
  \/ \E i \in Starts : \/ Spawn(i) \/ SpawnFails(i) \/ PrepareFails(i)
                       \/ ConfirmTrust(i)
                       \/ \E code \in {0, 1} : Exit(i, code)
                       \/ \E trust, prompt \in BOOLEAN : Output(i, trust, prompt)
  \/ PressEnter \/ StopTaskSession \/ MarkInterruptedAndStop
  \/ HookToReview \/ HookToInProgress
  \/ RecoverAndAttach \/ Detach \/ Tick

\* seen, field by field.
LEMMA SeenFields ==
  ASSUME TypeOK
  PROVE  seen = [overlap |-> seen.overlap, crossed |-> seen.crossed, entered |-> seen.entered]
BY DEF TypeOK

LEMMA RequestStartIsStep ==
  ASSUME IInv, NEW resume \in BOOLEAN, RequestStart(resume)
  PROVE  SessionStep
<1>1. TypeOK /\ kind = "task" /\ summary' = summary /\ scenario' = scenario
  BY DEF IInv, RequestStart
<1>2. UNCHANGED checkpointing \/ BeginCapture(summary, 0)
  BY DEF RequestStart
<1>3. UNCHANGED checkpointing \/ Begins
  BY <1>1, <1>2, BeginCaptureIsStep
<1>4. /\ seen.crossed => seen'.crossed
      /\ captures' # captures => (CapturesOverlap => seen'.crossed)
  BY <1>1 DEF RequestStart, TypeOK, checkpointing
<1> QED
  BY <1>1, <1>3, <1>4 DEF SessionStep, SummaryStays, TypeOK, Summary

LEMMA SpawnIsStep ==
  ASSUME IInv, NEW i \in Starts, Spawn(i)
  PROVE  SessionStep
<1>1. TypeOK /\ kind = "task" /\ scenario' = scenario
  BY DEF IInv, Spawn, ShellIsPlain, Preparing, TypeOK, SessionOK, Scenario, kind
<1>2. \/ summary' = Fresh("awaiting_review", "attention")
      \/ summary' = Fresh("running", "none")
  BY DEF Spawn
<1>3. UNCHANGED checkpointing \/ BeginCapture(summary', 0)
  BY DEF Spawn
<1>4. UNCHANGED checkpointing \/ Begins
  BY <1>1, <1>3, BeginCaptureIsStep
<1>5. (seen.crossed => seen'.crossed) /\ (CapturesOverlap => seen'.crossed)
  BY <1>1 DEF Spawn, TypeOK
<1> QED
  BY <1>1, <1>2, <1>4, <1>5 DEF SessionStep, SummaryIsFresh, Fresh, States, Reasons

LEMMA HookToReviewIsStep ==
  ASSUME IInv, HookToReview
  PROVE  SessionStep
<1>1. TypeOK /\ kind = "task" /\ scenario' = scenario
  BY DEF IInv, HookToReview
<1>2. /\ summary'.latest = summary.latest /\ summary'.prev = summary.prev
      /\ summary'.state = "awaiting_review" /\ summary'.reason = "hook"
      /\ summary' = [state |-> summary'.state, reason |-> summary'.reason,
                     latest |-> summary'.latest, prev |-> summary'.prev]
  BY <1>1 DEF HookToReview, ToReview, TypeOK, Summary
<1>3. UNCHANGED checkpointing \/ Begins
  BY <1>1, <1>2, BeginCaptureIsStep DEF HookToReview, StaleRef
<1>4. /\ seen.crossed => seen'.crossed
      /\ captures' # captures => (CapturesOverlap => seen'.crossed)
  BY <1>1 DEF HookToReview, TypeOK
<1> QED
  BY <1>1, <1>2, <1>3, <1>4 DEF SessionStep, SummaryStays, States, Reasons

LEMMA ExitIsStep ==
  ASSUME IInv, NEW i \in Starts, NEW code \in {0, 1}, Exit(i, code)
  PROVE  SessionStep
<1>1. TypeOK /\ UNCHANGED <<scenario, checkpointing>> /\ seen'.crossed = seen.crossed
  BY DEF IInv, Exit, TypeOK
<1>2. CASE active = 0
  BY <1>1, <1>2, StillStep DEF Exit
<1>3. CASE active # 0 /\ kind = "shell"
  <2> DEFINE interrupted == proc[active].interrupted
             state == IF interrupted THEN "interrupted" ELSE "idle"
             reason == IF interrupted THEN "interrupted" ELSE "none"
  <2>1. summary' = [summary EXCEPT !.state = state, !.reason = reason]
    BY <1>3 DEF Exit
  <2>2. state \in States /\ reason \in Reasons
    BY DEF States, Reasons
  <2> HIDE DEF state, reason
  <2> QED
    BY <1>1, <2>1, <2>2, PlainStep
<1>4. CASE active # 0 /\ kind # "shell"
  <2> DEFINE interrupted == proc[active].interrupted
             state == IF interrupted THEN "interrupted" ELSE "awaiting_review"
             reason == IF interrupted THEN "interrupted"
                       ELSE IF code = 0 THEN "exit" ELSE "error"
  <2>1. summary' = [summary EXCEPT !.state = state, !.reason = reason]
    BY <1>4 DEF Exit, ExitPatch
  <2>2. state \in States /\ reason \in Reasons
    BY DEF States, Reasons
  <2> HIDE DEF state, reason
  <2> QED
    BY <1>1, <2>1, <2>2, PlainStep
<1> QED
  BY <1>2, <1>3, <1>4

LEMMA SessionActionIsStep ==
  ASSUME IInv, SessionAction
  PROVE  SessionStep
<1>0. TypeOK
  BY DEF IInv
<1>1. ASSUME StartShell  PROVE SessionStep
  <2>1. /\ kind = "shell" /\ UNCHANGED <<scenario, checkpointing>> /\ seen' = seen
        /\ \/ summary' = summary
           \/ summary' = Fresh("running", "none")
           \/ summary' = Fresh("failed", "error")
    BY <1>1 DEF StartShell
  <2>2. {"running", "failed"} \subseteq States /\ {"none", "error"} \subseteq Reasons
    BY DEF States, Reasons
  <2> QED
    BY <1>0, <2>1, <2>2, StillStep, FreshStep
<1>2. ASSUME NEW i \in Starts, SpawnFails(i)  PROVE SessionStep
  <2>1. /\ UNCHANGED <<scenario, checkpointing>> /\ summary' = Fresh("failed", "error")
        /\ seen'.crossed = (seen.crossed \/ CapturesOverlap)
    BY <1>0, <1>2 DEF SpawnFails, TypeOK
  <2>2. "failed" \in States /\ "error" \in Reasons
    BY DEF States, Reasons
  <2> QED
    BY <2>1, <2>2, FreshStep
<1>3. ASSUME RecoverAndAttach  PROVE SessionStep
  <2>1. UNCHANGED <<scenario, checkpointing>> /\ "idle" \in States /\ "none" \in Reasons
    BY <1>3 DEF RecoverAndAttach, States, Reasons
  <2>2. CASE active = 0 /\ IsActiveState(summary.state)
    <3>1. summary' = Fresh("idle", "none")
      BY <1>3, <2>2 DEF RecoverAndAttach
    <3>2. (seen.crossed => seen'.crossed) /\ (CapturesOverlap => seen'.crossed)
      BY <1>0, <1>3, <2>2 DEF RecoverAndAttach, TypeOK
    <3> QED
      BY <2>1, <3>1, <3>2, FreshStep
  <2>3. CASE ~(active = 0 /\ IsActiveState(summary.state))
    <3>1. summary' = summary /\ seen'.crossed = seen.crossed
      BY <1>0, <1>3, <2>3 DEF RecoverAndAttach, TypeOK
    <3> QED
      BY <1>0, <2>1, <3>1, StillStep
  <2> QED
    BY <2>2, <2>3
<1>4. ASSUME NEW i \in Starts, NEW trust \in BOOLEAN, NEW prompt \in BOOLEAN,
             Output(i, trust, prompt)
      PROVE  SessionStep
  <2>1. UNCHANGED <<scenario, checkpointing>> /\ seen' = seen
        /\ (summary' = summary \/ summary' = ToRunning(summary))
    BY <1>4 DEF Output
  <2>2. "running" \in States /\ "none" \in Reasons
    BY DEF States, Reasons
  <2> QED
    BY <1>0, <2>1, <2>2, StillStep, PlainStep DEF ToRunning
<1>5. ASSUME HookToInProgress  PROVE SessionStep
  <2>1. UNCHANGED <<scenario, checkpointing>> /\ seen' = seen
        /\ summary' = ToRunning(summary)
    BY <1>5 DEF HookToInProgress
  <2>2. "running" \in States /\ "none" \in Reasons
    BY DEF States, Reasons
  <2> QED
    BY <1>0, <2>1, <2>2, PlainStep DEF ToRunning
<1>6. ASSUME \/ \E i \in Starts : PrepareFails(i) \/ ConfirmTrust(i)
             \/ PressEnter \/ StopTaskSession \/ MarkInterruptedAndStop \/ Detach \/ Tick
      PROVE  SessionStep
  <2>1. UNCHANGED <<scenario, checkpointing, summary>> /\ seen'.crossed = seen.crossed
    BY <1>0, <1>6 DEF PrepareFails, ConfirmTrust, PressEnter, StopTaskSession,
                      MarkInterruptedAndStop, Detach, Tick, TypeOK
  <2> QED
    BY <1>0, <2>1, StillStep
<1> QED
  BY <1>1, <1>2, <1>3, <1>4, <1>5, <1>6, RequestStartIsStep, SpawnIsStep,
     HookToReviewIsStep, ExitIsStep DEF SessionAction
-----------------------------------------------------------------------------
(***************************************************************************)
(* What each step of the session does to the session itself. Nothing else  *)
(* depends on seen.crossed.                                                *)
(***************************************************************************)
SeenOK == seen \in [overlap : BOOLEAN, crossed : BOOLEAN, entered : BOOLEAN]

NoShellPrepares == kind = "shell" => \A i \in Starts : starts[i].at # "preparing"

SessionHolds == SessionInv /\ SeenOK /\ NoShellPrepares

LEMMA SessionFacts ==
  ASSUME IInv
  PROVE  SessionHolds /\ TypeOK /\ summary \in Summary(Begun)
BY DEF IInv, TypeOK, SessionHolds, SessionInv, SeenOK, NoShellPrepares, ShellIsPlain

\* A step that leaves starts, processes and the state of the summary alone.
LEMMA QuietStepHolds ==
  ASSUME SessionHolds, SessionOK', SeenOK',
         UNCHANGED <<scenario, starts, proc, active>>, seen'.overlap = seen.overlap,
         \/ summary'.state = summary.state
         \/ IsActiveState(summary'.state) /\ kind = "task"
         \/ active = 0,
         EnterIsOwn'
  PROVE  SessionHolds'
<1>1. Starts' = Starts /\ kind' = kind
  BY DEF Starts, kind
<1>2. Placed' /\ NoShellPrepares'
  BY <1>1 DEF SessionHolds, SessionInv, Placed, NoShellPrepares
<1>3. Alone'
  BY <1>1 DEF SessionHolds, SessionInv, Alone
<1> QED
  BY <1>2, <1>3 DEF SessionHolds, SessionInv

LEMMA RequestStartHolds ==
  ASSUME IInv, NEW resume \in BOOLEAN, RequestStart(resume)
  PROVE  SessionHolds'
<1> DEFINE i == NextStart
           s == [at |-> "preparing", auto |-> FALSE, resume |-> resume]
           overlap == Preparing # {}
<1>1. SessionHolds /\ TypeOK /\ summary \in Summary(Begun)
  BY SessionFacts
<1>2. i \in Starts /\ starts[i].at = "none" /\ 0 \notin Starts
  BY <1>1, NextStartIsUnstarted DEF RequestStart, TypeOK, Starts
<1>3. kind = "task" /\ kind' = kind /\ Starts' = Starts
  BY DEF RequestStart, kind, Starts
<1>4. UNCHANGED <<scenario, summary, attached, suppress, pending, clock>>
      /\ request' = resume
  BY DEF RequestStart
<1>5. CASE active # 0 /\ IsActiveState(summary.state)
  <2>1. /\ starts' = [starts EXCEPT ![i] = [s EXCEPT !.at = "over"]]
        /\ UNCHANGED <<proc, active, act, timers>>
        /\ seen'.overlap = seen.overlap /\ seen'.entered = seen.entered /\ SeenOK'
    BY <1>1, <1>5 DEF RequestStart, TypeOK, SeenOK
  <2>2. SessionOK'
    BY <1>1, <1>2, <1>3, <1>4, <2>1 DEF SessionHolds, SessionInv, SessionOK
  <2>3. \A j \in Starts : starts'[j].at = IF j = i THEN "over" ELSE starts[j].at
    BY <1>1, <1>2, <2>1 DEF TypeOK, SessionOK
  <2> HIDE DEF i, s
  <2>4. Placed'
    BY <1>1, <1>3, <2>1, <2>3 DEF SessionHolds, SessionInv, Placed
  <2>5. EnterIsOwn'
    BY <1>1, <1>3, <2>1 DEF SessionHolds, SessionInv, EnterIsOwn
  <2>6. Alone'
    BY <1>1, <1>3, <1>4, <2>1, <2>3 DEF SessionHolds, SessionInv, Alone
  <2> QED
    BY <1>3, <2>1, <2>2, <2>4, <2>5, <2>6 DEF SessionHolds, SessionInv, NoShellPrepares
<1>6. CASE ~(active # 0 /\ IsActiveState(summary.state))
  <2>1. /\ starts' = [starts EXCEPT ![i] = s]
        /\ proc' = IF active = 0 THEN proc ELSE [proc EXCEPT ![active].life = "killed"]
        /\ active' = 0 /\ act' = Inactive /\ timers' = StopTimers
    BY <1>6 DEF RequestStart
  <2>2. /\ overlap => seen'.overlap
        /\ seen.overlap => seen'.overlap
        /\ SeenOK'
    BY <1>1, <1>6 DEF RequestStart, TypeOK, SeenOK
  <2>3. proc' \in [Starts -> [life : {"none", "gone"} \cup Runs, interrupted : BOOLEAN]]
    BY <1>1, <2>1 DEF TypeOK, SessionOK, Runs
  <2>4. SessionOK'
    BY <1>1, <1>2, <1>3, <1>4, <2>1, <2>3
    DEF TypeOK, SessionOK, Inactive, StopTimers
  <2>5. \A j \in Starts : starts'[j].at = IF j = i THEN "preparing" ELSE starts[j].at
    BY <1>1, <1>2, <2>1 DEF TypeOK, SessionOK
  <2>6. \A j \in Starts : proc'[j].life = IF j = active THEN "killed" ELSE proc[j].life
    BY <1>1, <1>2, <2>1 DEF TypeOK, SessionOK
  <2>7. Placed'
    BY <1>1, <1>2, <1>3, <2>1, <2>5, <2>6 DEF SessionHolds, SessionInv, Placed, Runs
  <2>8. EnterIsOwn'
    BY <2>1 DEF EnterIsOwn, Inactive
  <2>9. Alone'
    <3> SUFFICES ASSUME ~seen'.overlap  PROVE Alone'
      BY DEF Alone
    <3>1. ~seen.overlap /\ \A j \in Starts : starts[j].at # "preparing"
      BY <2>2 DEF Preparing
    <3>2. active = 0
      BY <1>1, <1>6, <3>1 DEF SessionHolds, SessionInv, Alone
    <3>3. \A j \in Starts : proc[j].life \notin Runs
      BY <1>1, <1>2, <3>1, <3>2 DEF SessionHolds, SessionInv, Alone
    <3> HIDE DEF i, s
    <3> QED
      BY <1>2, <1>3, <2>1, <2>5, <2>6, <3>1, <3>2, <3>3 DEF Alone
  <2> QED
    BY <1>3, <2>2, <2>4, <2>7, <2>8, <2>9 DEF SessionHolds, SessionInv, NoShellPrepares
<1> QED
  BY <1>5, <1>6

\* The start i is over, with a process of its own or none.
LEMMA SpawnHolds ==
  ASSUME IInv, NEW i \in Starts, Spawn(i)
  PROVE  SessionHolds'
<1>1. SessionHolds /\ TypeOK
  BY SessionFacts
<1>2. starts[i].at = "preparing" /\ kind = "task" /\ kind' = kind /\ Starts' = Starts
      /\ 0 \notin Starts
  BY <1>1 DEF Spawn, Preparing, kind, Starts, SessionHolds, NoShellPrepares, TypeOK,
              SessionOK, Scenario
<1>3. PICK deferred \in BOOLEAN : act' = [Inactive EXCEPT !.deferred = deferred]
  BY DEF Spawn
<1>4. act' \in [trust : BOOLEAN, prompt : BOOLEAN, confirmed : BOOLEAN,
                timer : BOOLEAN, deferred : BOOLEAN, enter : BOOLEAN]
      /\ ~act'.enter
  BY <1>3 DEF Inactive
<1>5. SessionOK'
  BY <1>1, <1>2, <1>4 DEF Spawn, TypeOK, SessionOK, Runs
<1>6. SeenOK' /\ seen'.overlap = seen.overlap
  BY <1>1 DEF Spawn, TypeOK, SeenOK
<1>7. \A j \in Starts : /\ starts'[j].at = IF j = i THEN "over" ELSE starts[j].at
                        /\ proc'[j].life = IF j = i THEN "live" ELSE proc[j].life
  BY <1>1 DEF Spawn, TypeOK, SessionOK
<1>8. active' = i /\ IsActiveState(summary'.state)
  BY DEF Spawn, IsActiveState, Fresh
<1>9. Placed'
  BY <1>1, <1>2, <1>7, <1>8 DEF SessionHolds, SessionInv, Placed, Runs
<1>10. EnterIsOwn'
  BY <1>4 DEF EnterIsOwn
<1>11. Alone'
  <2> SUFFICES ASSUME ~seen'.overlap  PROVE Alone'
    BY DEF Alone
  <2>1. /\ \A j \in Starts : starts[j].at = "preparing" => j = i
        /\ \A j \in Starts : proc[j].life \notin Runs
    BY <1>1, <1>2, <1>6 DEF SessionHolds, SessionInv, Alone
  <2> QED
    BY <1>2, <1>7, <1>8, <2>1 DEF Alone
<1> QED
  BY <1>2, <1>5, <1>6, <1>9, <1>10, <1>11 DEF SessionHolds, SessionInv, NoShellPrepares

LEMMA NoSpawnHolds ==
  ASSUME IInv, NEW i \in Starts, SpawnFails(i) \/ PrepareFails(i)
  PROVE  SessionHolds'
<1>1. SessionHolds /\ TypeOK
  BY SessionFacts
<1>2. starts[i].at = "preparing" /\ kind = "task" /\ kind' = kind /\ Starts' = Starts
  BY <1>1 DEF SpawnFails, PrepareFails, Preparing, kind, Starts, SessionHolds,
              NoShellPrepares, TypeOK, SessionOK, Scenario
<1>3. /\ UNCHANGED <<scenario, proc, active, act, timers, request, attached, suppress, clock>>
      /\ starts' = [starts EXCEPT ![i].at = "over"]
      /\ pending' = IF pending = i THEN 0 ELSE pending
  BY DEF SpawnFails, PrepareFails
<1>4. SessionOK'
  BY <1>1, <1>2, <1>3 DEF TypeOK, SessionOK
<1>5. SeenOK' /\ seen'.overlap = seen.overlap /\ seen'.entered = seen.entered
  BY <1>1 DEF SpawnFails, PrepareFails, TypeOK, SeenOK
<1>6. \A j \in Starts : starts'[j].at = IF j = i THEN "over" ELSE starts[j].at
  BY <1>1, <1>3 DEF TypeOK, SessionOK
<1>7. Placed' /\ NoShellPrepares'
  <2>1. active # 0 => proc[active].life \in Runs
    BY <1>1 DEF SessionHolds, SessionInv, Placed
  <2> QED
    BY <1>1, <1>2, <1>3, <1>6, <2>1 DEF SessionHolds, SessionInv, Placed, NoShellPrepares
<1>8. EnterIsOwn'
  BY <1>1, <1>2, <1>3, <1>5 DEF SessionHolds, SessionInv, EnterIsOwn
<1>9. Alone'
  <2> SUFFICES ASSUME ~seen'.overlap  PROVE Alone'
    BY DEF Alone
  <2>1. active = 0
    BY <1>1, <1>2, <1>5 DEF SessionHolds, SessionInv, Alone
  <2> QED
    BY <1>1, <1>2, <1>3, <1>5, <1>6, <2>1 DEF SessionHolds, SessionInv, Alone
<1> QED
  BY <1>4, <1>5, <1>7, <1>8, <1>9 DEF SessionHolds, SessionInv

LEMMA StartShellHolds ==
  ASSUME IInv, StartShell
  PROVE  SessionHolds'
<1> DEFINE i == NextStart
           stopped == IF active = 0 THEN proc ELSE [proc EXCEPT ![active].life = "killed"]
<1>1. SessionHolds /\ TypeOK
  BY SessionFacts
<1>2. i \in Starts /\ starts[i].at = "none" /\ 0 \notin Starts
  BY <1>1, NextStartIsUnstarted DEF StartShell, TypeOK, Starts
<1>3. kind = "shell" /\ kind' = kind /\ Starts' = Starts
      /\ \A j \in Starts : starts[j].at # "preparing"
  BY <1>1 DEF StartShell, kind, Starts, SessionHolds, NoShellPrepares
<1>4. /\ UNCHANGED <<scenario, act, timers, request, attached, suppress, pending, clock, seen>>
      /\ starts' = [starts EXCEPT ![i].at = "over"]
  BY DEF StartShell
<1>5. \A j \in Starts : starts'[j].at = IF j = i THEN "over" ELSE starts[j].at
  BY <1>1, <1>2, <1>4 DEF TypeOK, SessionOK
<1>6. \/ /\ active # 0 /\ summary.state = "running"
         /\ UNCHANGED <<proc, active, summary>>
      \/ /\ proc' = [stopped EXCEPT ![i].life = "live"]
         /\ active' = i /\ summary' = Fresh("running", "none")
         /\ ~(active # 0 /\ summary.state = "running")
      \/ /\ proc' = stopped
         /\ active' = 0 /\ summary' = Fresh("failed", "error")
         /\ ~(active # 0 /\ summary.state = "running")
  BY DEF StartShell
<1>7. /\ stopped \in [Starts -> [life : {"none", "gone"} \cup Runs, interrupted : BOOLEAN]]
      /\ \A j \in Starts : stopped[j].life = IF j = active THEN "killed" ELSE proc[j].life
  BY <1>1, <1>2 DEF TypeOK, SessionOK, Runs
<1>8. i # active
  BY <1>1, <1>2 DEF SessionHolds, SessionInv, Placed, Runs
<1> HIDE DEF i, stopped
<1>9. SessionOK'
  <2>1. proc' \in [Starts -> [life : {"none", "gone"} \cup Runs, interrupted : BOOLEAN]]
        /\ active' \in Starts \cup {0}
    BY <1>1, <1>2, <1>6, <1>7 DEF TypeOK, SessionOK, Runs
  <2>2. starts' \in [Starts -> [at : {"none", "preparing", "over"},
                                auto : BOOLEAN, resume : BOOLEAN]]
    BY <1>1, <1>2, <1>4 DEF TypeOK, SessionOK
  <2> QED
    BY <1>1, <1>3, <1>4, <2>1, <2>2 DEF TypeOK, SessionOK
<1>10. \/ /\ active # 0 /\ summary.state = "running"
          /\ UNCHANGED <<proc, active, summary>>
       \/ /\ \A j \in Starts : proc'[j].life = IF j = i THEN "live"
                                               ELSE IF j = active THEN "killed"
                                               ELSE proc[j].life
          /\ active' = i /\ summary'.state = "running"
          /\ ~(active # 0 /\ summary.state = "running")
       \/ /\ \A j \in Starts : proc'[j].life = IF j = active THEN "killed"
                                               ELSE proc[j].life
          /\ active' = 0
          /\ ~(active # 0 /\ summary.state = "running")
  BY <1>2, <1>6, <1>7 DEF Fresh
<1>11. Placed'
  BY <1>1, <1>2, <1>3, <1>5, <1>8, <1>10 DEF SessionHolds, SessionInv, Placed, Runs
<1>12. EnterIsOwn'
  BY <1>1, <1>3, <1>4 DEF SessionHolds, SessionInv, EnterIsOwn
<1>13. Alone'
  <2> SUFFICES ASSUME ~seen'.overlap  PROVE Alone'
    BY DEF Alone
  <2>1. ~seen.overlap
    BY <1>4
  <2>2. \A j \in Starts : proc[j].life \in Runs => active = j
    BY <1>1, <2>1 DEF SessionHolds, SessionInv, Alone
  <2>3. active # 0 => summary.state = "running"
    BY <1>1, <1>3, <2>1 DEF SessionHolds, SessionInv, Alone
  <2>4. \A j \in Starts : starts'[j].at # "preparing"
    BY <1>3, <1>5
  <2>5. \A j \in Starts : proc'[j].life \in Runs => active' = j
    BY <1>2, <1>10, <2>2, <2>3 DEF Runs
  <2>6. active' # 0 => summary'.state = "running"
    BY <1>10
  <2> QED
    BY <1>3, <2>4, <2>5, <2>6 DEF Alone, IsActiveState
<1>14. SeenOK' /\ NoShellPrepares'
  BY <1>1, <1>3, <1>4, <1>5 DEF SessionHolds, SeenOK, NoShellPrepares
<1> QED
  BY <1>9, <1>11, <1>12, <1>13, <1>14 DEF SessionHolds, SessionInv

LEMMA ExitHolds ==
  ASSUME IInv, NEW i \in Starts, NEW code \in {0, 1}, Exit(i, code)
  PROVE  SessionHolds'
<1> DEFINE n == NextStart
<1>1. SessionHolds /\ TypeOK /\ 0 \notin Starts
  BY SessionFacts DEF Starts
<1>2. /\ UNCHANGED <<scenario, request, attached, clock>>
      /\ proc' = [proc EXCEPT ![i].life = "gone"]
      /\ proc[i].life \in Runs
  BY DEF Exit, Runs
<1>3. kind' = kind /\ Starts' = Starts
  BY <1>2 DEF kind, Starts
<1>4. /\ proc' \in [Starts -> [life : {"none", "gone"} \cup Runs, interrupted : BOOLEAN]]
      /\ \A j \in Starts : proc'[j].life = IF j = i THEN "gone" ELSE proc[j].life
  BY <1>1, <1>2 DEF TypeOK, SessionOK
<1>5. active' = 0
  BY DEF Exit
<1>6. act' \in [trust : BOOLEAN, prompt : BOOLEAN, confirmed : BOOLEAN,
                timer : BOOLEAN, deferred : BOOLEAN, enter : BOOLEAN]
      /\ timers' \in SUBSET Starts /\ suppress' \in BOOLEAN /\ ~act'.enter
  <2>1. act' = Inactive \/ (act' = act /\ active = 0)
    BY DEF Exit
  <2>2. timers' = timers \/ timers' = timers \ {active}
    BY DEF Exit, StopTimers
  <2>3. suppress' = suppress \/ suppress' = FALSE
    BY DEF Exit
  <2>4. timers' \in SUBSET Starts /\ suppress' \in BOOLEAN
    BY <1>1, <2>2, <2>3 DEF TypeOK, SessionOK
  <2>5. active = 0 => ~act.enter
    BY <1>1 DEF SessionHolds, SessionInv, EnterIsOwn
  <2>6. act \in [trust : BOOLEAN, prompt : BOOLEAN, confirmed : BOOLEAN,
                 timer : BOOLEAN, deferred : BOOLEAN, enter : BOOLEAN]
    BY <1>1 DEF TypeOK, SessionOK
  <2>7. act' \in [trust : BOOLEAN, prompt : BOOLEAN, confirmed : BOOLEAN,
                  timer : BOOLEAN, deferred : BOOLEAN, enter : BOOLEAN]
    <3>1. Inactive \in [trust : BOOLEAN, prompt : BOOLEAN, confirmed : BOOLEAN,
                       timer : BOOLEAN, deferred : BOOLEAN, enter : BOOLEAN]
      BY DEF Inactive
    <3> QED
      BY <2>1, <2>6, <3>1, Zenon
  <2>8. ~act'.enter
    BY <2>1, <2>5 DEF Inactive
  <2> QED
    BY <2>4, <2>7, <2>8, Zenon
<1>7. EnterIsOwn'
  BY <1>6 DEF EnterIsOwn
<1>8. \/ UNCHANGED <<starts, pending, seen>>
      \/ /\ kind # "shell" /\ active # 0 /\ Unstarted # {}
         /\ pending' = n
         /\ starts' = [starts EXCEPT ![n] =
                         [at |-> "preparing", auto |-> TRUE, resume |-> request]]
         /\ seen' = [seen EXCEPT !.overlap = @ \/ Preparing # {}]
  BY DEF Exit
<1>9. CASE UNCHANGED <<starts, pending, seen>>
  <2>1. SessionOK'
    BY <1>1, <1>2, <1>3, <1>4, <1>5, <1>6, <1>9 DEF TypeOK, SessionOK
  <2>2. Placed'
    BY <1>1, <1>2, <1>3, <1>4, <1>5, <1>9 DEF SessionHolds, SessionInv, Placed, Runs
  <2>3. Alone'
    <3> SUFFICES ASSUME ~seen.overlap  PROVE Alone'
      BY <1>9 DEF Alone
    <3>1. \A j \in Starts : proc[j].life \in Runs => j = i
      BY <1>1, <1>2 DEF SessionHolds, SessionInv, Alone
    <3>2. \A j, k \in Starts :
             starts[j].at = "preparing" /\ starts[k].at = "preparing" => j = k
      BY <1>1 DEF SessionHolds, SessionInv, Alone
    <3>3. \A j \in Starts : proc'[j].life \notin Runs
      BY <1>4, <3>1 DEF Runs
    <3> QED
      BY <1>3, <1>5, <1>9, <3>2, <3>3 DEF Alone
  <2> QED
    BY <1>1, <1>3, <1>7, <1>9, <2>1, <2>2, <2>3
    DEF SessionHolds, SessionInv, SeenOK, NoShellPrepares
<1>10. CASE /\ kind # "shell" /\ active # 0 /\ Unstarted # {}
            /\ pending' = n
            /\ starts' = [starts EXCEPT ![n] =
                            [at |-> "preparing", auto |-> TRUE, resume |-> request]]
            /\ seen' = [seen EXCEPT !.overlap = @ \/ Preparing # {}]
  <2>1. n \in Starts /\ starts[n].at = "none"
    BY <1>1, <1>10, NextStartIsUnstarted DEF TypeOK
  <2>2. \A j \in Starts : starts'[j].at = IF j = n THEN "preparing" ELSE starts[j].at
    BY <1>1, <1>10, <2>1 DEF TypeOK, SessionOK
  <2>3. SessionOK'
    BY <1>1, <1>2, <1>3, <1>4, <1>5, <1>6, <1>10, <2>1 DEF TypeOK, SessionOK
  <2>4. /\ Preparing # {} => seen'.overlap
        /\ seen.overlap => seen'.overlap
        /\ SeenOK'
    BY <1>1, <1>10 DEF TypeOK, SeenOK
  <2> HIDE DEF n
  <2>5. Placed'
    BY <1>1, <1>2, <1>3, <1>4, <1>5, <2>1, <2>2 DEF SessionHolds, SessionInv, Placed, Runs
  <2>6. Alone'
    <3> SUFFICES ASSUME ~seen'.overlap  PROVE Alone'
      BY DEF Alone
    <3>1. ~seen.overlap /\ \A j \in Starts : starts[j].at # "preparing"
      BY <2>4 DEF Preparing
    <3>2. \A j \in Starts : proc[j].life \in Runs => j = i
      BY <1>1, <1>2, <3>1 DEF SessionHolds, SessionInv, Alone
    <3>3. \A j \in Starts : proc'[j].life \notin Runs
      BY <1>4, <3>2 DEF Runs
    <3> QED
      BY <1>3, <1>5, <2>2, <3>1, <3>3 DEF Alone
  <2> QED
    BY <1>3, <1>7, <1>10, <2>3, <2>4, <2>5, <2>6
    DEF SessionHolds, SessionInv, NoShellPrepares
<1> QED
  BY <1>8, <1>9, <1>10

\* stopTaskSession and markInterruptedAndStopAll kill the active process.
LEMMA StopHolds ==
  ASSUME IInv, StopTaskSession \/ MarkInterruptedAndStop
  PROVE  SessionHolds'
<1>1. SessionHolds /\ TypeOK
  BY SessionFacts
<1>2. /\ active \in Starts /\ active' = active /\ starts' = starts /\ scenario' = scenario
      /\ summary' = summary /\ seen' = seen
      /\ UNCHANGED <<request, attached, pending, clock>>
      /\ timers' = StopTimers /\ act' = [act EXCEPT !.timer = FALSE]
      /\ suppress' \in BOOLEAN
  BY <1>1 DEF StopTaskSession, MarkInterruptedAndStop, TypeOK, SessionOK
<1>3. kind' = kind /\ Starts' = Starts /\ active # 0
  BY <1>2 DEF kind, Starts
<1>4. /\ proc' \in [Starts -> [life : {"none", "gone"} \cup Runs, interrupted : BOOLEAN]]
      /\ \A j \in Starts : proc'[j].life = IF j = active THEN "killed" ELSE proc[j].life
  <2>1. CASE StopTaskSession
    BY <1>1, <1>2, <2>1 DEF StopTaskSession, TypeOK, SessionOK, Runs
  <2>2. CASE MarkInterruptedAndStop
    <3>1. proc' = [proc EXCEPT ![active] = [proc[active] EXCEPT !.life = "killed",
                                                              !.interrupted = TRUE]]
      BY <1>1, <1>2, <2>2 DEF MarkInterruptedAndStop, TypeOK, SessionOK
    <3>2. /\ proc \in [Starts -> [life : {"none", "gone"} \cup Runs,
                                  interrupted : BOOLEAN]]
      BY <1>1 DEF TypeOK, SessionOK
    <3> QED
      BY <1>2, <3>1, <3>2 DEF Runs
  <2> QED
    BY <2>1, <2>2
<1>5. SessionOK'
  BY <1>1, <1>2, <1>3, <1>4 DEF TypeOK, SessionOK, StopTimers
<1>6. act'.enter = act.enter
  BY <1>1, <1>2 DEF TypeOK, SessionOK
<1>7. EnterIsOwn'
  BY <1>1, <1>2, <1>3, <1>6 DEF SessionHolds, SessionInv, EnterIsOwn
<1>8. Placed' /\ NoShellPrepares' /\ SeenOK'
  BY <1>1, <1>2, <1>3, <1>4
  DEF SessionHolds, SessionInv, Placed, NoShellPrepares, SeenOK, Runs
<1>9. Alone'
  BY <1>1, <1>2, <1>3, <1>4 DEF SessionHolds, SessionInv, Alone, Runs
<1> QED
  BY <1>5, <1>7, <1>8, <1>9 DEF SessionHolds, SessionInv

\* The steps that change no start and no process.
LEMMA OtherSessionHolds ==
  ASSUME IInv,
         \/ \E i \in Starts : \/ ConfirmTrust(i)
                              \/ \E trust, prompt \in BOOLEAN : Output(i, trust, prompt)
         \/ PressEnter \/ HookToReview \/ HookToInProgress
         \/ RecoverAndAttach \/ Detach \/ Tick
  PROVE  SessionHolds'
<1>1. SessionHolds /\ TypeOK /\ SessionOK /\ SeenOK /\ summary \in Summary(Begun)
  BY SessionFacts DEF TypeOK, SeenOK
<1>2. act.enter => kind = "task" /\ active # 0 /\ seen.entered
  BY <1>1 DEF SessionHolds, SessionInv, EnterIsOwn
<1>3. ASSUME NEW i \in Starts, ConfirmTrust(i)  PROVE SessionHolds'
  <2>1. UNCHANGED <<scenario, starts, proc, active, summary, request, attached, suppress,
                    pending, clock, seen>>
        /\ Starts' = Starts /\ kind' = kind
    BY <1>3 DEF ConfirmTrust, Starts, kind
  <2>2. act' \in [trust : BOOLEAN, prompt : BOOLEAN, confirmed : BOOLEAN,
                  timer : BOOLEAN, deferred : BOOLEAN, enter : BOOLEAN]
        /\ act'.enter = act.enter /\ timers' \in SUBSET Starts
    BY <1>1, <1>3 DEF ConfirmTrust, SessionOK, ClearBuffer
  <2>3. SessionOK' /\ SeenOK' /\ EnterIsOwn'
    BY <1>1, <1>2, <2>1, <2>2 DEF SessionOK, SeenOK, EnterIsOwn
  <2> QED
    BY <1>1, <2>1, <2>3, QuietStepHolds
<1>4. ASSUME NEW i \in Starts, NEW trust \in BOOLEAN, NEW prompt \in BOOLEAN,
             Output(i, trust, prompt)
      PROVE  SessionHolds'
  <2>1. UNCHANGED <<scenario, starts, proc, active, request, attached, suppress,
                    pending, clock, seen>>
        /\ Starts' = Starts /\ kind' = kind /\ kind = "task"
    BY <1>4 DEF Output, Starts, kind
  <2>2. summary'.state = summary.state
        \/ (IsActiveState(summary'.state) /\ kind = "task")
    BY <1>1, <2>1, <1>4 DEF Output, ToRunning, IsActiveState, Summary
  <2> DEFINE fed == [act EXCEPT !.trust = @ \/ trust, !.prompt = @ \/ prompt]
             armed == IF ArmTimer(fed)
                      THEN [fed EXCEPT !.confirmed = TRUE, !.timer = TRUE] ELSE fed
             sent == IF armed.prompt /\ ~armed.trust
                     THEN [armed EXCEPT !.deferred = FALSE] ELSE armed
             Act == [trust : BOOLEAN, prompt : BOOLEAN, confirmed : BOOLEAN,
                     timer : BOOLEAN, deferred : BOOLEAN, enter : BOOLEAN]
  <2>3. fed \in Act /\ fed.enter = act.enter
    BY <1>1 DEF SessionOK
  <2>4. armed \in Act /\ armed.enter = act.enter
    <3> HIDE DEF fed
    <3> QED
      BY <2>3
  <2>5. sent \in Act /\ sent.enter = act.enter
    <3> HIDE DEF armed
    <3> QED
      BY <2>4
  <2>6. act' \in {sent, [ClearBuffer(sent) EXCEPT !.enter = FALSE]}
        /\ timers' \in {timers, timers \cup {active}} /\ active # 0
    BY <1>4 DEF Output
  <2> HIDE DEF sent
  <2>7. act' \in Act /\ (act'.enter => act.enter) /\ timers' \in SUBSET Starts
    BY <1>1, <2>5, <2>6 DEF ClearBuffer, SessionOK
  <2>8. SessionOK' /\ SeenOK' /\ EnterIsOwn'
    BY <1>1, <1>2, <2>1, <2>7 DEF SessionOK, SeenOK, EnterIsOwn
  <2> QED
    BY <1>1, <2>1, <2>2, <2>8, QuietStepHolds
<1>5. ASSUME PressEnter  PROVE SessionHolds'
  <2>1. UNCHANGED <<scenario, starts, proc, active, timers, summary, request, attached,
                    suppress, pending, clock>>
        /\ Starts' = Starts /\ kind' = kind /\ kind = "task" /\ active # 0
    BY <1>5 DEF PressEnter, Starts, kind
  <2>2. SessionOK'
    BY <1>1, <1>5, <2>1 DEF PressEnter, SessionOK, CanReturnToRunning
  <2>3. SeenOK' /\ seen'.overlap = seen.overlap
    BY <1>1, <1>5 DEF PressEnter, SeenOK
  <2>4. act'.enter => act.enter \/ summary.state = "awaiting_review"
    BY <1>1, <1>5 DEF PressEnter, SessionOK
  <2>5. seen.entered \/ summary.state = "awaiting_review" => seen'.entered
    BY <1>1, <1>5 DEF PressEnter, SeenOK
  <2>6. EnterIsOwn'
    BY <1>2, <2>1, <2>4, <2>5 DEF EnterIsOwn
  <2> QED
    BY <1>1, <2>1, <2>2, <2>3, <2>6, QuietStepHolds
<1>6. ASSUME HookToReview  PROVE SessionHolds'
  <2>1. UNCHANGED <<scenario, starts, proc, active, timers, request, attached,
                    suppress, pending, clock>>
        /\ Starts' = Starts /\ kind' = kind /\ kind = "task"
    BY <1>6 DEF HookToReview, Starts, kind
  <2>2. SessionOK' /\ (act'.enter => act.enter /\ active = 0)
    BY <1>1, <1>6, <2>1 DEF HookToReview, SessionOK, ClearBuffer
  <2>3. SeenOK' /\ seen'.overlap = seen.overlap
    BY <1>1, <1>6 DEF HookToReview, SeenOK
  <2>4. EnterIsOwn'
    BY <1>2, <2>2 DEF EnterIsOwn
  <2>5. IsActiveState(summary'.state)
    BY <1>1, <1>6 DEF HookToReview, ToReview, IsActiveState, Summary
  <2> QED
    BY <1>1, <2>1, <2>2, <2>3, <2>4, <2>5, QuietStepHolds
<1>7. ASSUME HookToInProgress  PROVE SessionHolds'
  <2>1. UNCHANGED <<scenario, starts, proc, active, timers, request, attached,
                    suppress, pending, clock, seen>>
        /\ Starts' = Starts /\ kind' = kind /\ kind = "task"
    BY <1>7 DEF HookToInProgress, Starts, kind
  <2>2. SessionOK' /\ act'.enter = act.enter
    BY <1>1, <1>7, <2>1 DEF HookToInProgress, SessionOK, ClearBuffer
  <2>3. SeenOK' /\ EnterIsOwn'
    BY <1>1, <1>2, <2>1, <2>2 DEF SeenOK, EnterIsOwn
  <2>4. IsActiveState(summary'.state)
    BY <1>1, <1>7 DEF HookToInProgress, ToRunning, IsActiveState, Summary
  <2> QED
    BY <1>1, <2>1, <2>2, <2>3, <2>4, QuietStepHolds
<1>8. ASSUME RecoverAndAttach \/ Detach \/ Tick  PROVE SessionHolds'
  <2>1. UNCHANGED <<scenario, starts, proc, active, act, timers, request,
                    suppress, pending>>
        /\ Starts' = Starts /\ kind' = kind
    BY <1>8 DEF RecoverAndAttach, Detach, Tick, Starts, kind
  <2>2. attached' \in BOOLEAN /\ clock' \in Nat
    <3>1. attached \in BOOLEAN /\ clock \in Nat
      BY <1>1 DEF SessionOK
    <3>2. \/ attached' = TRUE /\ clock' = clock
          \/ attached' = FALSE /\ clock' = clock
          \/ attached' = attached /\ clock' = clock + 1
      BY <1>8 DEF RecoverAndAttach, Detach, Tick
    <3>3. attached' \in BOOLEAN
      BY <3>1, <3>2, Zenon
    <3>4. clock' \in Nat
      BY <3>1, <3>2
    <3> QED
      BY <3>3, <3>4
  <2>3. SeenOK' /\ seen'.overlap = seen.overlap /\ seen'.entered = seen.entered
    BY <1>1, <1>8 DEF RecoverAndAttach, Detach, Tick, SeenOK
  <2>4. SessionOK' /\ EnterIsOwn'
    BY <1>1, <1>2, <2>1, <2>2, <2>3 DEF SessionOK, EnterIsOwn
  <2>5. summary' = summary \/ active = 0
    BY <1>8 DEF RecoverAndAttach, Detach, Tick
  <2> QED
    BY <1>1, <2>1, <2>3, <2>4, <2>5, QuietStepHolds
<1> QED
  BY <1>3, <1>4, <1>5, <1>6, <1>7, <1>8

-----------------------------------------------------------------------------
(***************************************************************************)
(* The invariant.                                                          *)
(***************************************************************************)
LEMMA SessionActionHolds ==
  ASSUME IInv, SessionAction
  PROVE  SessionHolds'
BY RequestStartHolds, SpawnHolds, NoSpawnHolds, StartShellHolds, ExitHolds, StopHolds,
   OtherSessionHolds DEF SessionAction

LEMMA SessionActionInvariant ==
  ASSUME IInv, SessionAction
  PROVE  IInv'
<1>1. SessionStep /\ SessionHolds' /\ TypeOK
  BY SessionActionIsStep, SessionActionHolds DEF IInv
<1>2. TypeOK'
  BY <1>1, SessionStepTypes DEF TypeOK, SessionHolds, SessionInv, SeenOK
<1>3. InTurn' /\ CheckpointsKept'
  BY <1>1, SessionStepKeeps DEF InTurn, CheckpointsKept
<1>4. ShellIsPlain'
  <2> SUFFICES ASSUME kind' = "shell"  PROVE captures' = <<>> /\ deletes' = {}
    BY <1>1 DEF ShellIsPlain, SessionHolds, NoShellPrepares
  <2>1. kind = "shell" /\ UNCHANGED checkpointing
    BY <1>1 DEF SessionStep, Begins, kind
  <2> QED
    BY <2>1 DEF IInv, ShellIsPlain, checkpointing
<1> QED
  BY <1>1, <1>2, <1>3, <1>4 DEF IInv, SessionHolds, SessionInv

LEMMA InitInvariant ==
  Init => IInv
<1> SUFFICES ASSUME Init  PROVE IInv
  OBVIOUS
<1>1. scenario \in Scenario /\ scenario.starts \in Nat /\ scenario.captures \in Nat
  BY SessionAssumption DEF Init, Scenario
<1>2. Begun = 0 /\ captures = <<>>
  BY DEF Init, Begun
<1>3. SessionOK
  BY <1>1 DEF Init, SessionOK, Runs, Inactive
<1>4. CheckpointOK /\ summary \in Summary(Begun)
  BY <1>1, <1>2 DEF Init, CheckpointOK, Turns, Summary, Checkpoint, Fresh, NoTurn,
                    States, Reasons
<1>5. TypeOK
  BY <1>3, <1>4 DEF TypeOK, Init
<1>6. Placed /\ ShellIsPlain /\ EnterIsOwn /\ Alone
  BY DEF Init, Placed, ShellIsPlain, EnterIsOwn, Alone, Inactive, Runs
<1>7. InTurn /\ CheckpointsKept
  BY <1>2 DEF Init, InTurn, CheckpointsKept, Working, Fresh, NoTurn
<1> QED
  BY <1>5, <1>6, <1>7 DEF IInv

LEMMA NextInvariant ==
  IInv /\ [Next]_vars => IInv'
<1> SUFFICES ASSUME IInv, [Next]_vars  PROVE IInv'
  OBVIOUS
<1>1. CASE UNCHANGED vars
  BY <1>1 DEF vars, IInv, TypeOK, SessionOK, CheckpointOK, Placed, ShellIsPlain,
              EnterIsOwn, Alone, InTurn, CheckpointsKept, Working, Begun, Starts, Turns, kind
<1>2. CASE Next
  <2>1. SessionAction \/ CheckpointStep
    BY <1>2 DEF Next, SessionAction, CheckpointStep
  <2> QED
    BY <2>1, SessionActionInvariant, CheckpointStepInvariant
<1> QED
  BY <1>1, <1>2

\* The inductive invariant.
THEOREM Invariance == Spec => []IInv
BY InitInvariant, NextInvariant, PTL DEF Spec

(***************************************************************************)
(* What the session promises.                                              *)
(***************************************************************************)

\* Unless two starts overlapped, a live process nobody has killed is the one
\* the entry manages, for any number of starts, exits and restarts.
THEOREM Managed == Spec => []ManagedUnlessOverlapped
<1>1. IInv => ManagedUnlessOverlapped
  BY DEF IInv, Alone, ManagedUnlessOverlapped, Runs
<1> QED
  BY <1>1, Invariance, PTL

\* Unless captures, deletions and restarts crossed, the summary shows the
\* checkpoints of consecutive turns and git has their refs, for any number
\* of captures and of failures among them.
THEOREM Checkpoints == Spec => []CheckpointsKept
<1>1. IInv => CheckpointsKept
  BY DEF IInv
<1> QED
  BY <1>1, Invariance, PTL

\* Output takes a task out of review only after an Enter in this review.
THEOREM ReviewEnds == Spec => ReviewLeftOnRequest
<1>1. ASSUME IInv, NEW i \in Starts, NEW trust \in BOOLEAN, NEW prompt \in BOOLEAN,
             Output(i, trust, prompt), summary'.state # summary.state
      PROVE  seen.entered
  <2>1. PromptReady(prompt)
    BY <1>1 DEF Output
  <2> QED
    BY <2>1, <1>1 DEF PromptReady, IInv, EnterIsOwn
<1>2. IInv /\ [Next]_vars =>
        [(\E i \in Starts, trust, prompt \in BOOLEAN :
             Output(i, trust, prompt) /\ summary'.state # summary.state)
         => seen.entered]_vars
  BY <1>1
<1> QED
  BY <1>2, Invariance, PTL DEF Spec, ReviewLeftOnRequest

(***************************************************************************)
(* The stream.                                                             *)
(***************************************************************************)
Chunks == Seq(Nat)
View == [ioOpen : BOOLEAN, batch : Chunks, paused : BOOLEAN, unacked : Nat,
         controlOpen : BOOLEAN, restored : BOOLEAN, held : Chunks]

StreamTypeOK ==
    /\ out \in Nat /\ ptyPaused \in BOOLEAN
    /\ backpressured \subseteq Viewers /\ present \subseteq Viewers
    /\ view \in [Viewers -> View]
    /\ io \in [Viewers -> Chunks]
    /\ restore \in [Viewers -> Nat \cup {None}]
    /\ up \in [Viewers -> [restored : BOOLEAN, acks : Nat]]
    /\ client \in [Viewers -> [io : BOOLEAN, control : BOOLEAN, shown : Chunks]]
    /\ losses \in Nat
    /\ past \in [Viewers -> [torn : BOOLEAN, dropped : BOOLEAN]]

\* The PTY is paused for the viewers that are.
PauseAgrees ==
    /\ ptyPaused <=> backpressured # {}
    /\ \A v \in Viewers : view[v].paused <=> v \in backpressured

\* The server's side of a socket is there at least as long as the browser's, and
\* nothing is left of what was on a socket that is gone.
SocketsAgree(v) ==
    /\ client[v].io => view[v].ioOpen
    /\ client[v].control => view[v].controlOpen
    /\ ~view[v].ioOpen =>
         view[v].unacked = 0 /\ ~view[v].paused /\ view[v].batch = <<>>
    /\ ~client[v].io => io[v] = <<>>
    /\ ~client[v].control => up[v] = NoMessages /\ restore[v] = None

\* What is not acknowledged is on one of the sockets.
Outstanding(v) ==
    \/ past[v].dropped \/ ~client[v].io
    \/ view[v].unacked <= Len(io[v]) + up[v].acks

\* Output is held or sent, never both; and until a pair of sockets is torn, it is
\* sent after the restore only.
InOrder(v) ==
    /\ Streaming(view[v]) => view[v].held = <<>>
    /\ view[v].controlOpen => v \in present
    /\ ~past[v].torn =>
         /\ view[v].ioOpen => client[v].io
         /\ view[v].controlOpen => client[v].control
         /\ (~client[v].control \/ restore[v] # None) => ~view[v].restored /\ ~up[v].restored
         /\ ~view[v].restored => io[v] = <<>> /\ view[v].batch = <<>>

Exact(v) ==
    (view[v].controlOpen /\ client[v].control /\ ~past[v].torn) =>
        Base(v) \o io[v] \o view[v].batch \o view[v].held = UpTo(out)

ViewerInv(v) == SocketsAgree(v) /\ Outstanding(v) /\ InOrder(v) /\ Exact(v)

StreamInv == StreamTypeOK /\ PauseAgrees /\ \A v \in Viewers : ViewerInv(v)

------------------------------------------------------------------------------
(* Sequences of chunks.                                                    *)

LEMMA UpToChunks ==
    ASSUME NEW n \in Nat
    PROVE  /\ UpTo(n) \in Chunks
           /\ UpTo(n + 1) = Append(UpTo(n), n + 1)
  BY DEF UpTo, Chunks

LEMMA Joined == \A s, t \in Chunks : s \o t \in Chunks /\ Len(s \o t) = Len(s) + Len(t)
  BY ConcatProperties DEF Chunks

LEMMA NoChunks == <<>> \in Chunks /\ \A s \in Chunks : s \o <<>> = s /\ <<>> \o s = s
  BY ConcatEmptySeq, EmptySeq DEF Chunks

LEMMA Regrouped == \A s, t, u \in Chunks : (s \o t) \o u = s \o (t \o u)
  BY ConcatAssociative DEF Chunks

LEMMA AppendedLast ==
    ASSUME NEW s \in Chunks, NEW t \in Chunks, NEW n \in Nat
    PROVE  s \o Append(t, n) = Append(s \o t, n)
<1>1. <<n>> \in Chunks
  BY DEF Chunks
<1>2. Append(t, n) = t \o <<n>> /\ Append(s \o t, n) = (s \o t) \o <<n>>
  BY AppendIsConcat, Joined DEF Chunks
<1> QED
  BY <1>1, <1>2, Regrouped

\* The first chunk of one sequence may as well be the last of the one before it.
LEMMA HeadMoves ==
    ASSUME NEW s \in Chunks, NEW t \in Chunks, t # <<>>
    PROVE  /\ Head(t) \in Nat /\ Tail(t) \in Chunks /\ Len(Tail(t)) = Len(t) - 1
           /\ Append(s, Head(t)) \in Chunks
           /\ Append(s, Head(t)) \o Tail(t) = s \o t
<1>1. Head(t) \in Nat /\ Tail(t) \in Chunks /\ Len(Tail(t)) = Len(t) - 1
  BY HeadTailProperties DEF Chunks
<1>2. <<Head(t)>> \in Chunks /\ Append(s, Head(t)) = s \o <<Head(t)>>
  BY <1>1, AppendIsConcat DEF Chunks
<1>3. <<Head(t)>> \o Tail(t) = t
  BY <1>1 DEF Chunks
<1>4. (s \o <<Head(t)>>) \o Tail(t) = s \o (<<Head(t)>> \o Tail(t))
  BY <1>1, <1>2, Regrouped
<1>5. s \o <<Head(t)>> \in Chunks
  BY <1>2, Joined
<1> QED
  BY <1>1, <1>2, <1>3, <1>4, <1>5

------------------------------------------------------------------------------
(* Types.                                                                  *)

\* What the handlers make of a viewer's state is such a state.
LEMMA ViewTypes ==
    /\ NoView \in View
    /\ \A w \in View, n \in Nat : Receive(w, n) \in View /\ Acknowledged(w, n) \in Nat
    /\ \A w \in View : FlushHeld(w) \in View /\ Restart(w) \in View
<1>1. NoView \in View
  BY NoChunks DEF NoView, View
<1>2. ASSUME NEW w \in View, NEW n \in Nat
      PROVE  Receive(w, n) \in View
  <2>1. Append(w.batch, n) \in Chunks /\ Append(w.held, n) \in Chunks
    BY DEF View, Chunks
  <2> QED
    BY <2>1 DEF Receive, View
<1>3. ASSUME NEW w \in View, NEW n \in Nat
      PROVE  Acknowledged(w, n) \in Nat
  <2>1. w.unacked \in Nat
    BY DEF View
  <2> QED
    BY <2>1 DEF Acknowledged
<1>4. ASSUME NEW w \in View
      PROVE  FlushHeld(w) \in View /\ Restart(w) \in View
  BY NoChunks, Joined DEF FlushHeld, Restart, View
<1> QED
  BY <1>1, <1>2, <1>3, <1>4

LEMMA ReleaseType ==
    ASSUME StreamTypeOK, NEW v \in Viewers, Release(v)
    PROVE  backpressured' \subseteq Viewers /\ ptyPaused' \in BOOLEAN
  BY DEF StreamTypeOK, Release, StaysPaused

LEMMA ClosedType ==
    ASSUME StreamTypeOK, NEW v \in Viewers, NEW w \in View, Closed(v, w)
    PROVE  /\ view' \in [Viewers -> View]
           /\ present' \subseteq Viewers
           /\ past' \in [Viewers -> [torn : BOOLEAN, dropped : BOOLEAN]]
<1>1. NoView \in View
  BY ViewTypes
<1>2. (client[v].io \/ client[v].control) \in BOOLEAN
  OBVIOUS
<1>3. [torn |-> client[v].io \/ client[v].control, dropped |-> FALSE]
        \in [torn : BOOLEAN, dropped : BOOLEAN]
  BY <1>2
<1>4. view' \in [Viewers -> View]
  BY <1>1 DEF StreamTypeOK, Closed
<1>5. present' \subseteq Viewers
  BY DEF StreamTypeOK, Closed
<1>6. past' \in [Viewers -> [torn : BOOLEAN, dropped : BOOLEAN]]
  BY <1>3 DEF StreamTypeOK, Closed
<1> QED
  BY <1>4, <1>5, <1>6

LEMMA StepType == StreamTypeOK /\ [StreamNext]_streamVars => StreamTypeOK'
<1> SUFFICES ASSUME StreamTypeOK, [StreamNext]_streamVars PROVE StreamTypeOK'
  OBVIOUS
<1>1. CASE UNCHANGED streamVars
  BY <1>1 DEF StreamTypeOK, streamVars
<1>2. CASE PtyOutput
  <2>1. \A v \in Viewers : view[v] \in View /\ Receive(view[v], out + 1) \in View
    BY ViewTypes DEF StreamTypeOK
  <2>2. view' \in [Viewers -> View]
    BY <1>2, <2>1 DEF PtyOutput
  <2> QED
    BY <1>2, <2>2 DEF PtyOutput, StreamTypeOK
<1> SUFFICES ASSUME NEW v \in Viewers,
                    \/ FlushBatch(v) \/ ResumeCheck(v) \/ TakeAck(v) \/ TakeRestoreComplete(v)
                    \/ ConnectIo(v) \/ ConnectControl(v) \/ IoClosed(v) \/ ControlClosed(v)
                    \/ TakeOutput(v) \/ TakeRestore(v) \/ LoseIo(v) \/ LoseControl(v)
             PROVE  StreamTypeOK'
  BY <1>1, <1>2 DEF StreamNext
<1>v. view[v] \in View /\ io[v] \in Chunks /\ out \in Nat
  BY DEF StreamTypeOK
<1>c. /\ client[v].io \in BOOLEAN /\ client[v].control \in BOOLEAN
      /\ client[v].shown \in Chunks
      /\ up[v].acks \in Nat /\ up[v].restored \in BOOLEAN
      /\ past[v].dropped \in BOOLEAN /\ past[v].torn \in BOOLEAN
  BY DEF StreamTypeOK
<1>3. CASE FlushBatch(v)
  <2>1. /\ Len(view[v].batch) \in Nat /\ view[v].batch \in Chunks
        /\ view[v].unacked + Len(view[v].batch) \in Nat
    BY <1>v DEF View, Chunks
  <2>2. PICK lag \in BOOLEAN :
          /\ io' = [io EXCEPT ![v] = IF client[v].io THEN @ \o view[v].batch ELSE @]
          /\ LET n == Len(view[v].batch)
                 w == [view[v] EXCEPT !.batch = <<>>]
             IN  IF w.paused
                 THEN view' = [view EXCEPT ![v] = w] /\ UNCHANGED <<backpressured, ptyPaused>>
                 ELSE LET behind == lag \/ w.unacked + n >= OUTPUT_ACK_HIGH_WATER_MARK
                      IN  /\ view' = [view EXCEPT ![v] = [w EXCEPT !.unacked = @ + n,
                                                                  !.paused = behind]]
                          /\ backpressured' = IF behind THEN backpressured \cup {v} ELSE backpressured
                          /\ ptyPaused' = (ptyPaused \/ behind)
    BY <1>3 DEF FlushBatch
  <2>3. (io[v] \o view[v].batch) \in Chunks
    BY <1>v, <2>1, Joined
  <2>4. io' \in [Viewers -> Chunks]
    BY <2>2, <2>3, <1>v DEF StreamTypeOK
  <2>5. [view[v] EXCEPT !.batch = <<>>] \in View
    BY <1>v, NoChunks DEF View
  <2>6. ASSUME NEW b \in BOOLEAN
        PROVE  [[view[v] EXCEPT !.batch = <<>>] EXCEPT
                   !.unacked = @ + Len(view[v].batch), !.paused = b] \in View
    BY <1>v, <2>1, NoChunks DEF View
  <2>7. view' \in [Viewers -> View]
    BY <2>2, <2>5, <2>6 DEF StreamTypeOK
  <2>8. backpressured' \subseteq Viewers
    BY <2>2 DEF StreamTypeOK
  <2>9. ptyPaused' \in BOOLEAN
    BY <2>2 DEF StreamTypeOK
  <2> QED
    BY <1>3, <2>4, <2>7, <2>8, <2>9 DEF FlushBatch, StreamTypeOK
<1>4. CASE ResumeCheck(v)
  BY <1>4, <1>v, ReleaseType DEF ResumeCheck, StreamTypeOK, View
<1>5. CASE TakeAck(v)
  <2>1. PICK n \in 1 .. up[v].acks :
          /\ up' = [up EXCEPT ![v].acks = @ - n]
          /\ \/ UNCHANGED <<view, backpressured, ptyPaused>>
             \/ /\ view' = [view EXCEPT ![v] = [@ EXCEPT !.unacked = Acknowledged(view[v], n)]]
                /\ UNCHANGED <<backpressured, ptyPaused>>
             \/ /\ view' = [view EXCEPT ![v] = [[@ EXCEPT !.unacked = Acknowledged(view[v], n)]
                                                  EXCEPT !.paused = FALSE]]
                /\ Release(v)
    BY <1>5 DEF TakeAck
  <2>2. n \in Nat /\ up[v].acks - n \in Nat
    BY <1>c
  <2>3. Acknowledged(view[v], n) \in Nat
    BY <1>v, <2>2, ViewTypes
  <2>4. up' \in [Viewers -> [restored : BOOLEAN, acks : Nat]]
    BY <2>1, <2>2 DEF StreamTypeOK
  <2>5. /\ [view[v] EXCEPT !.unacked = Acknowledged(view[v], n)] \in View
        /\ [[view[v] EXCEPT !.unacked = Acknowledged(view[v], n)] EXCEPT !.paused = FALSE] \in View
    BY <1>v, <2>3 DEF View
  <2>6. view' \in [Viewers -> View]
    BY <2>1, <2>5 DEF StreamTypeOK
  <2>7. backpressured' \subseteq Viewers /\ ptyPaused' \in BOOLEAN
    BY <2>1, ReleaseType DEF StreamTypeOK
  <2> QED
    BY <1>5, <2>4, <2>6, <2>7 DEF TakeAck, StreamTypeOK
<1>6. CASE TakeRestoreComplete(v)
  <2>1. [view[v] EXCEPT !.restored = TRUE] \in View
    BY <1>v DEF View
  <2> QED
    BY <1>6, <2>1, ViewTypes DEF TakeRestoreComplete, StreamTypeOK
<1>7. CASE ConnectIo(v)
  <2>1. [view[v] EXCEPT !.ioOpen = TRUE, !.batch = <<>>, !.paused = FALSE, !.unacked = 0] \in View
    BY <1>v, NoChunks DEF View
  <2> QED
    BY <1>7, <2>1, ViewTypes, NoChunks, ReleaseType DEF ConnectIo, StreamTypeOK
<1>8. CASE ConnectControl(v)
  BY <1>8, <1>v, ViewTypes DEF ConnectControl, StreamTypeOK, NoMessages
<1>9. CASE IoClosed(v)
  <2>1. [view[v] EXCEPT !.ioOpen = FALSE, !.batch = <<>>, !.paused = FALSE, !.unacked = 0] \in View
    BY <1>v, NoChunks DEF View
  <2> QED
    BY <1>9, <2>1, ClosedType, ReleaseType DEF IoClosed, ReleaseClosed, StreamTypeOK
<1>10. CASE ControlClosed(v)
  <2>1. [view[v] EXCEPT !.controlOpen = FALSE] \in View
    BY <1>v DEF View
  <2> QED
    BY <1>10, <2>1, ClosedType DEF ControlClosed, StreamTypeOK, NoMessages
<1>11. CASE TakeOutput(v)
  <2>1. /\ Tail(io[v]) \in Chunks /\ Append(client[v].shown, Head(io[v])) \in Chunks
        /\ <<>> \in Chunks
    BY <1>11, <1>v, <1>c, HeadMoves, NoChunks DEF TakeOutput
  <2>2. io' \in [Viewers -> Chunks]
    BY <1>11, <2>1 DEF TakeOutput, StreamTypeOK
  <2>3. client' \in [Viewers -> [io : BOOLEAN, control : BOOLEAN, shown : Chunks]]
    BY <1>11, <2>1 DEF TakeOutput, StreamTypeOK
  <2>4. up' \in [Viewers -> [restored : BOOLEAN, acks : Nat]]
    <3>1. up[v].acks + 1 \in Nat
      BY <1>c
    <3>2. up' = up \/ up' = [up EXCEPT ![v].acks = up[v].acks + 1]
      BY <1>11 DEF TakeOutput
    <3> QED
      BY <3>1, <3>2 DEF StreamTypeOK
  <2>5. past' \in [Viewers -> [torn : BOOLEAN, dropped : BOOLEAN]]
    BY <1>11, <1>c DEF TakeOutput, StreamTypeOK
  <2> QED
    BY <1>11, <2>2, <2>3, <2>4, <2>5 DEF TakeOutput, StreamTypeOK
<1>12. CASE TakeRestore(v)
  BY <1>12, UpToChunks, NoChunks DEF TakeRestore, StreamTypeOK
<1>13. CASE LoseIo(v)
  <2>1. [client[v] EXCEPT !.io = FALSE, !.shown = <<>>]
          \in [io : BOOLEAN, control : BOOLEAN, shown : Chunks]
    BY NoChunks DEF StreamTypeOK
  <2>2. client' = [client EXCEPT ![v] = [@ EXCEPT !.io = FALSE, !.shown = <<>>]]
    BY <1>13 DEF LoseIo, StreamTypeOK
  <2>3. client' \in [Viewers -> [io : BOOLEAN, control : BOOLEAN, shown : Chunks]]
    BY <2>1, <2>2 DEF StreamTypeOK
  <2>4. /\ io' \in [Viewers -> Chunks]
        /\ past' \in [Viewers -> [torn : BOOLEAN, dropped : BOOLEAN]]
    BY <1>13, NoChunks DEF LoseIo, StreamTypeOK
  <2>5. losses' \in Nat /\ UNCHANGED <<out, ptyPaused, backpressured, present, view, restore, up>>
    BY <1>13 DEF LoseIo, StreamTypeOK
  <2> QED
    BY <2>3, <2>4, <2>5 DEF StreamTypeOK
<1>14. CASE LoseControl(v)
  <2>1. [client[v] EXCEPT !.control = FALSE, !.shown = <<>>]
          \in [io : BOOLEAN, control : BOOLEAN, shown : Chunks]
    BY NoChunks DEF StreamTypeOK
  <2>2. client' = [client EXCEPT ![v] = [@ EXCEPT !.control = FALSE, !.shown = <<>>]]
    BY <1>14 DEF LoseControl, StreamTypeOK
  <2>3. client' \in [Viewers -> [io : BOOLEAN, control : BOOLEAN, shown : Chunks]]
    BY <2>1, <2>2 DEF StreamTypeOK
  <2>4. (past[v].dropped \/ up[v].acks > 0) \in BOOLEAN
    OBVIOUS
  <2>5. [torn |-> TRUE, dropped |-> past[v].dropped \/ up[v].acks > 0]
          \in [torn : BOOLEAN, dropped : BOOLEAN]
    BY <2>4
  <2>6. past' \in [Viewers -> [torn : BOOLEAN, dropped : BOOLEAN]]
    BY <1>14, <2>5 DEF LoseControl, StreamTypeOK
  <2>7. /\ restore' \in [Viewers -> Nat \cup {None}]
        /\ up' \in [Viewers -> [restored : BOOLEAN, acks : Nat]]
    BY <1>14 DEF LoseControl, StreamTypeOK, NoMessages
  <2>8. losses' \in Nat /\ UNCHANGED <<out, ptyPaused, backpressured, present, view, io>>
    BY <1>14 DEF LoseControl, StreamTypeOK
  <2> QED
    BY <2>3, <2>6, <2>7, <2>8 DEF StreamTypeOK
<1> QED
  BY <1>3, <1>4, <1>5, <1>6, <1>7, <1>8, <1>9, <1>10, <1>11, <1>12, <1>13, <1>14

------------------------------------------------------------------------------
(* The pause all viewers share.                                            *)

LEMMA PauseKept ==
    ASSUME PauseAgrees, UNCHANGED <<backpressured, ptyPaused>>,
           \A u \in Viewers : view'[u].paused <=> view[u].paused
    PROVE  PauseAgrees'
  BY DEF PauseAgrees

LEMMA PauseReleased ==
    ASSUME StreamTypeOK, PauseAgrees, NEW v \in Viewers, Release(v), ~view'[v].paused,
           \A u \in Viewers \ {v} : view'[u].paused <=> view[u].paused
    PROVE  PauseAgrees'
<1>1. ptyPaused' <=> backpressured' # {}
  BY DEF PauseAgrees, Release, StaysPaused
<1>2. \A u \in Viewers : view'[u].paused <=> u \in backpressured'
  BY DEF PauseAgrees, Release
<1> QED
  BY <1>1, <1>2 DEF PauseAgrees

\* The parts of the state that concern one viewer only, and the actions that
\* leave them alone.
Same(u) ==
    /\ view'[u] = view[u] /\ io'[u] = io[u] /\ restore'[u] = restore[u] /\ up'[u] = up[u]
    /\ client'[u] = client[u] /\ past'[u] = past[u]
    /\ u \in present => u \in present'

Local(v) == out' = out /\ \A u \in Viewers \ {v} : Same(u)

LEMMA StepLocal ==
    ASSUME StreamTypeOK, NEW v \in Viewers,
           \/ FlushBatch(v) \/ ResumeCheck(v) \/ TakeAck(v) \/ TakeRestoreComplete(v)
           \/ ConnectIo(v) \/ ConnectControl(v) \/ IoClosed(v) \/ ControlClosed(v)
           \/ TakeOutput(v) \/ TakeRestore(v) \/ LoseIo(v) \/ LoseControl(v)
    PROVE  Local(v)
<1>1. CASE FlushBatch(v)
  BY <1>1 DEF FlushBatch, StreamTypeOK, Local, Same
<1>2. CASE ResumeCheck(v)
  BY <1>2 DEF ResumeCheck, StreamTypeOK, Local, Same
<1>3. CASE TakeAck(v)
  BY <1>3 DEF TakeAck, StreamTypeOK, Local, Same
<1>4. CASE TakeRestoreComplete(v)
  BY <1>4 DEF TakeRestoreComplete, StreamTypeOK, Local, Same
<1>5. CASE ConnectIo(v)
  BY <1>5 DEF ConnectIo, StreamTypeOK, Local, Same
<1>6. CASE ConnectControl(v)
  BY <1>6 DEF ConnectControl, StreamTypeOK, Local, Same
<1>7. CASE IoClosed(v)
  BY <1>7 DEF IoClosed, Closed, StreamTypeOK, Local, Same
<1>8. CASE ControlClosed(v)
  BY <1>8 DEF ControlClosed, Closed, StreamTypeOK, Local, Same
<1>9. CASE TakeOutput(v)
  BY <1>9 DEF TakeOutput, StreamTypeOK, Local, Same
<1>10. CASE TakeRestore(v)
  BY <1>10 DEF TakeRestore, StreamTypeOK, Local, Same
<1>11. CASE LoseIo(v)
  BY <1>11 DEF LoseIo, StreamTypeOK, Local, Same
<1>12. CASE LoseControl(v)
  BY <1>12 DEF LoseControl, StreamTypeOK, Local, Same
<1> QED
  BY <1>1, <1>2, <1>3, <1>4, <1>5, <1>6, <1>7, <1>8, <1>9, <1>10, <1>11, <1>12

LEMMA OthersKept ==
    ASSUME NEW u \in Viewers, ViewerInv(u), out' = out, Same(u)
    PROVE  ViewerInv(u)'
<1>1. SocketsAgree(u)' /\ Outstanding(u)' /\ InOrder(u)'
  BY DEF ViewerInv, SocketsAgree, Outstanding, InOrder, Same, Streaming
<1>2. Exact(u)'
  BY DEF ViewerInv, Exact, Base, Same
<1> QED
  BY <1>1, <1>2 DEF ViewerInv

\* FlushBatch puts a viewer behind together with the PTY; the other steps release
\* a viewer or leave its pause alone.
LEMMA StepPause == StreamTypeOK /\ PauseAgrees /\ (\A v \in Viewers : SocketsAgree(v)) /\ [StreamNext]_streamVars
                     => PauseAgrees'
<1> SUFFICES ASSUME StreamTypeOK, PauseAgrees, \A v \in Viewers : SocketsAgree(v), [StreamNext]_streamVars
             PROVE  PauseAgrees'
  OBVIOUS
<1>1. CASE UNCHANGED streamVars
  BY <1>1, PauseKept DEF streamVars
<1>2. CASE PtyOutput
  <2>1. \A u \in Viewers : view'[u].paused <=> view[u].paused
    BY <1>2 DEF PtyOutput, Receive, StreamTypeOK, View
  <2> QED
    BY <1>2, <2>1, PauseKept DEF PtyOutput
<1> SUFFICES ASSUME NEW v \in Viewers,
                    \/ FlushBatch(v) \/ ResumeCheck(v) \/ TakeAck(v) \/ TakeRestoreComplete(v)
                    \/ ConnectIo(v) \/ ConnectControl(v) \/ IoClosed(v) \/ ControlClosed(v)
                    \/ TakeOutput(v) \/ TakeRestore(v) \/ LoseIo(v) \/ LoseControl(v)
             PROVE  PauseAgrees'
  BY <1>1, <1>2 DEF StreamNext
<1>v. view[v] \in View /\ SocketsAgree(v)
  BY DEF StreamTypeOK
<1>n. ~NoView.paused
  BY DEF NoView
<1>o. \A u \in Viewers \ {v} : view'[u].paused <=> view[u].paused
  BY StepLocal DEF Local, Same
<1>3. CASE FlushBatch(v)
  <2>1. CASE view[v].paused
    <3>1. view'[v].paused /\ UNCHANGED <<backpressured, ptyPaused>>
      BY <1>3, <2>1, <1>v DEF FlushBatch, StreamTypeOK, View
    <3> QED
      BY <2>1, <3>1, <1>o, PauseKept
  <2>2. CASE ~view[v].paused
    <3>1. PICK lag \in BOOLEAN :
            LET n == Len(view[v].batch)
                w == [view[v] EXCEPT !.batch = <<>>]
                behind == lag \/ w.unacked + n >= OUTPUT_ACK_HIGH_WATER_MARK
            IN  /\ view' = [view EXCEPT ![v] = [w EXCEPT !.unacked = @ + n, !.paused = behind]]
                /\ backpressured' = IF behind THEN backpressured \cup {v} ELSE backpressured
                /\ ptyPaused' = (ptyPaused \/ behind)
      BY <1>3, <2>2, <1>v DEF FlushBatch, View
    <3>2. CASE view'[v].paused
      <4>1. backpressured' = backpressured \cup {v} /\ ptyPaused'
        BY <3>1, <3>2, <1>v DEF StreamTypeOK, View
      <4> QED
        BY <3>2, <4>1, <1>o DEF PauseAgrees
    <3>3. CASE ~view'[v].paused
      <4>1. backpressured' = backpressured /\ (ptyPaused' <=> ptyPaused)
        BY <3>1, <3>3, <1>v DEF StreamTypeOK, View
      <4> QED
        BY <2>2, <3>3, <4>1, <1>o DEF PauseAgrees
    <3> QED
      BY <3>2, <3>3
  <2> QED
    BY <2>1, <2>2
<1>4. CASE ResumeCheck(v)
  BY <1>4, <1>v, <1>o, PauseReleased DEF ResumeCheck, StreamTypeOK, View
<1>5. CASE TakeAck(v)
  <2>1. CASE UNCHANGED <<view, backpressured, ptyPaused>>
    BY <2>1, PauseKept
  <2>2. CASE ~UNCHANGED <<view, backpressured, ptyPaused>>
    <3>1. PICK n \in 1 .. up[v].acks :
            \/ /\ view' = [view EXCEPT ![v] = [@ EXCEPT !.unacked = Acknowledged(view[v], n)]]
               /\ UNCHANGED <<backpressured, ptyPaused>>
            \/ /\ view' = [view EXCEPT ![v] = [[@ EXCEPT !.unacked = Acknowledged(view[v], n)]
                                                 EXCEPT !.paused = FALSE]]
               /\ Release(v)
      BY <1>5, <2>2 DEF TakeAck
    <3>2. \/ view'[v].paused = view[v].paused /\ UNCHANGED <<backpressured, ptyPaused>>
          \/ ~view'[v].paused /\ Release(v)
      BY <3>1, <1>v DEF StreamTypeOK, View
    <3> QED
      BY <3>2, <1>o, PauseKept, PauseReleased
  <2> QED
    BY <2>1, <2>2
<1>6. CASE TakeRestoreComplete(v)
  <2>1. view'[v].paused = view[v].paused
    BY <1>6, <1>v DEF TakeRestoreComplete, FlushHeld, StreamTypeOK, View
  <2> QED
    BY <1>6, <2>1, <1>o, PauseKept DEF TakeRestoreComplete
<1>7. CASE ConnectIo(v)
  <2>1. ~view'[v].paused
    BY <1>7, <1>v DEF ConnectIo, FlushHeld, StreamTypeOK, View
  <2> QED
    BY <1>7, <2>1, <1>o, PauseReleased DEF ConnectIo
<1>8. CASE ConnectControl(v)
  <2>1. view'[v].paused = view[v].paused
    BY <1>8, <1>v DEF ConnectControl, Restart, StreamTypeOK, View
  <2> QED
    BY <1>8, <2>1, <1>o, PauseKept DEF ConnectControl
<1>9. CASE IoClosed(v)
  <2>1. view' = [view EXCEPT ![v] = NoView] \/
        view' = [view EXCEPT ![v] = [@ EXCEPT !.ioOpen = FALSE, !.batch = <<>>, !.paused = FALSE,
                                              !.unacked = 0]]
    BY <1>9 DEF IoClosed, Closed
  <2>2. ~view'[v].paused
    BY <2>1, <1>v, <1>n DEF StreamTypeOK, View
  <2> QED
    BY <1>9, <2>2, <1>o, PauseReleased DEF IoClosed, ReleaseClosed
<1>10. CASE ControlClosed(v)
  <2>1. \/ ~view[v].ioOpen /\ view' = [view EXCEPT ![v] = NoView]
        \/ view' = [view EXCEPT ![v] = [@ EXCEPT !.controlOpen = FALSE]]
    BY <1>10, <1>v DEF ControlClosed, Closed, View
  <2>2. view'[v].paused <=> view[v].paused
    BY <2>1, <1>v, <1>n DEF SocketsAgree, StreamTypeOK, View
  <2> QED
    BY <1>10, <2>2, <1>o, PauseKept DEF ControlClosed
<1>11. CASE TakeOutput(v) \/ TakeRestore(v) \/ LoseIo(v) \/ LoseControl(v)
  <2>1. UNCHANGED <<view, backpressured, ptyPaused>>
    BY <1>11 DEF TakeOutput, TakeRestore, LoseIo, LoseControl
  <2> QED
    BY <2>1, PauseKept
<1> QED
  BY <1>3, <1>4, <1>5, <1>6, <1>7, <1>8, <1>9, <1>10, <1>11

------------------------------------------------------------------------------
(* What each action makes of the viewer it is about.                       *)

LEMMA ViewerTypes ==
    ASSUME StreamTypeOK, NEW v \in Viewers
    PROVE  /\ view[v] \in View /\ io[v] \in Chunks /\ Base(v) \in Chunks
           /\ view[v].batch \in Chunks /\ view[v].held \in Chunks /\ view[v].unacked \in Nat
           /\ client[v].shown \in Chunks
           /\ up[v].acks \in Nat
  BY UpToChunks DEF StreamTypeOK, Base, View

\* A batch moves to the io socket, and is counted.
LEMMA FlushBatchKeeps ==
    ASSUME StreamTypeOK, NEW v \in Viewers, ViewerInv(v), FlushBatch(v)
    PROVE  ViewerInv(v)'
<1> DEFINE w == view[v]
<1>v. /\ w \in View /\ io[v] \in Chunks /\ Base(v) \in Chunks
      /\ w.batch \in Chunks /\ w.held \in Chunks /\ w.unacked \in Nat /\ up[v].acks \in Nat
  BY ViewerTypes
<1>n. Len(w.batch) \in Nat
  BY <1>v DEF Chunks
<1>1. /\ view'[v].batch = <<>> /\ view'[v].held = w.held
      /\ (view'[v].ioOpen <=> w.ioOpen) /\ (view'[v].controlOpen <=> w.controlOpen)
      /\ (view'[v].restored <=> w.restored)
      /\ view'[v].unacked \in {w.unacked, w.unacked + Len(w.batch)}
  <2>1. CASE w.paused
    <3>1. view' = [view EXCEPT ![v] = [w EXCEPT !.batch = <<>>]]
      BY <2>1, <1>v DEF FlushBatch, View
    <3> QED
      BY <3>1, <1>v DEF StreamTypeOK, View
  <2>2. CASE ~w.paused
    <3>1. PICK behind \in BOOLEAN :
            view' = [view EXCEPT ![v] = [[w EXCEPT !.batch = <<>>] EXCEPT
                                           !.unacked = w.unacked + Len(w.batch), !.paused = behind]]
      BY <2>2, <1>v DEF FlushBatch, View
    <3> QED
      BY <3>1, <1>v DEF StreamTypeOK, View
  <2> QED
    BY <2>1, <2>2
<1>2. /\ w.batch # <<>>
      /\ io'[v] = IF client[v].io THEN io[v] \o w.batch ELSE io[v]
      /\ UNCHANGED <<out, present, restore, up, client, past>>
  BY DEF FlushBatch, StreamTypeOK
<1>3. w.ioOpen
  BY <1>2 DEF ViewerInv, SocketsAgree
<1>4. SocketsAgree(v)'
  BY <1>1, <1>2, <1>3 DEF ViewerInv, SocketsAgree
<1>5. Outstanding(v)'
  <2>1. io[v] \o w.batch \in Chunks /\ Len(io[v] \o w.batch) = Len(io[v]) + Len(w.batch)
    BY <1>v, Joined
  <2>2. Len(io[v]) \in Nat
    BY <1>v DEF Chunks
  <2>3. CASE client[v].io /\ w.unacked <= Len(io[v]) + up[v].acks
    <3>1. Len(io'[v]) = Len(io[v]) + Len(w.batch)
      BY <1>2, <2>1, <2>3
    <3>2. up'[v].acks = up[v].acks
      BY <1>2
    <3>3. view'[v].unacked = w.unacked \/ view'[v].unacked = w.unacked + Len(w.batch)
      BY <1>1
    <3>4. \A k, a, b, c \in Nat : k <= a + c => k <= (a + b) + c /\ k + b <= (a + b) + c
      OBVIOUS
    <3>5. /\ w.unacked <= (Len(io[v]) + Len(w.batch)) + up[v].acks
          /\ w.unacked + Len(w.batch) <= (Len(io[v]) + Len(w.batch)) + up[v].acks
      BY <1>n, <1>v, <2>2, <2>3, <3>4, Zenon
    <3>6. view'[v].unacked <= Len(io'[v]) + up'[v].acks
      BY <3>1, <3>2, <3>3, <3>5
    <3> QED
      BY <3>6 DEF Outstanding
  <2>4. CASE past[v].dropped \/ ~client[v].io
    BY <1>2, <2>4 DEF Outstanding
  <2> QED
    BY <2>3, <2>4 DEF ViewerInv, Outstanding
<1>6. InOrder(v)'
  BY <1>1, <1>2 DEF ViewerInv, InOrder, Streaming
<1>7. Exact(v)'
  <2> SUFFICES ASSUME w.controlOpen, client[v].control, ~past[v].torn
               PROVE  Base(v) \o io'[v] \o <<>> \o w.held = UpTo(out)
    BY <1>1, <1>2 DEF Exact, Base
  <2>1. client[v].io
    BY <1>3 DEF ViewerInv, InOrder
  <2>2. Base(v) \o io[v] \o w.batch \o w.held = UpTo(out)
    BY DEF ViewerInv, Exact
  <2>3. Base(v) \o (io[v] \o w.batch) = Base(v) \o io[v] \o w.batch
    BY <1>v, Regrouped
  <2>4. io[v] \o w.batch \in Chunks /\ Base(v) \o (io[v] \o w.batch) \in Chunks
    BY <1>v, Joined
  <2>5. Base(v) \o (io[v] \o w.batch) \o <<>> = Base(v) \o (io[v] \o w.batch)
    BY <2>4, NoChunks
  <2> QED
    BY <1>2, <2>1, <2>2, <2>3, <2>5
<1> QED
  BY <1>4, <1>5, <1>6, <1>7 DEF ViewerInv

\* A viewer that is resumed keeps what it has.
LEMMA ResumeCheckKeeps ==
    ASSUME StreamTypeOK, NEW v \in Viewers, ViewerInv(v), ResumeCheck(v)
    PROVE  ViewerInv(v)'
<1> DEFINE w == view[v]
<1>1. w \in View
  BY ViewerTypes
<1>2. /\ view'[v] = [w EXCEPT !.paused = FALSE]
      /\ UNCHANGED <<out, present, io, restore, up, client, past>>
  BY DEF ResumeCheck, StreamTypeOK
<1>3. /\ view'[v].batch = w.batch /\ view'[v].held = w.held /\ view'[v].unacked = w.unacked
      /\ (view'[v].ioOpen <=> w.ioOpen) /\ (view'[v].controlOpen <=> w.controlOpen)
      /\ (view'[v].restored <=> w.restored) /\ ~view'[v].paused
  BY <1>1, <1>2 DEF View
<1>4. SocketsAgree(v)' /\ Outstanding(v)' /\ InOrder(v)'
  BY <1>2, <1>3 DEF ViewerInv, SocketsAgree, Outstanding, InOrder, Streaming
<1>5. Exact(v)'
  BY <1>2, <1>3 DEF ViewerInv, Exact, Base
<1> QED
  BY <1>4, <1>5 DEF ViewerInv

\* An acknowledgement takes as much from what is outstanding as from the socket.
LEMMA TakeAckKeeps ==
    ASSUME StreamTypeOK, NEW v \in Viewers, ViewerInv(v), TakeAck(v)
    PROVE  ViewerInv(v)'
<1> DEFINE w == view[v]
<1>v. w \in View /\ w.unacked \in Nat /\ io[v] \in Chunks /\ up[v].acks \in Nat
  BY ViewerTypes
<1>1. PICK n \in 1 .. up[v].acks :
        /\ up' = [up EXCEPT ![v].acks = up[v].acks - n]
        /\ \/ ~w.ioOpen /\ view'[v] = w
           \/ view'[v] = [w EXCEPT !.unacked = Acknowledged(w, n)]
           \/ view'[v] = [[w EXCEPT !.unacked = Acknowledged(w, n)] EXCEPT !.paused = FALSE]
  BY DEF TakeAck, StreamTypeOK
<1>2. UNCHANGED <<out, present, io, restore, client, past>>
  BY DEF TakeAck
<1>3. /\ view'[v].batch = w.batch /\ view'[v].held = w.held
      /\ (view'[v].ioOpen <=> w.ioOpen) /\ (view'[v].controlOpen <=> w.controlOpen)
      /\ (view'[v].restored <=> w.restored) /\ (view'[v].paused => w.paused)
      /\ \/ ~w.ioOpen /\ view'[v].unacked = w.unacked
         \/ view'[v].unacked = Acknowledged(w, n)
  BY <1>1, <1>v DEF View
<1>4. up'[v].acks = up[v].acks - n /\ (up'[v].restored <=> up[v].restored)
  BY <1>1 DEF StreamTypeOK
<1>5. client[v].control
  <2>1. up[v].acks # 0
    BY <1>v
  <2>2. up[v] # NoMessages
    BY <2>1 DEF NoMessages
  <2> QED
    BY <2>2 DEF ViewerInv, SocketsAgree
<1>6. Acknowledged(w, n) = IF w.unacked > n THEN w.unacked - n ELSE 0
  BY DEF Acknowledged
<1>7. SocketsAgree(v)'
  BY <1>2, <1>3, <1>5, <1>6, <1>v DEF ViewerInv, SocketsAgree
<1>8. Outstanding(v)'
  <2>1. Len(io[v]) \in Nat
    BY <1>v DEF Chunks
  <2> QED
    BY <1>2, <1>3, <1>4, <1>6, <1>v, <2>1 DEF ViewerInv, Outstanding, SocketsAgree
<1>9. InOrder(v)'
  BY <1>2, <1>3, <1>4, <1>5 DEF ViewerInv, InOrder, Streaming
<1>10. Exact(v)'
  BY <1>2, <1>3 DEF ViewerInv, Exact, Base
<1> QED
  BY <1>7, <1>8, <1>9, <1>10 DEF ViewerInv

\* A screen that is restored gets what was held for it.
LEMMA TakeRestoreCompleteKeeps ==
    ASSUME StreamTypeOK, NEW v \in Viewers, ViewerInv(v), TakeRestoreComplete(v)
    PROVE  ViewerInv(v)'
<1> DEFINE w == view[v]
<1>v. /\ w \in View /\ w.batch \in Chunks /\ w.held \in Chunks
      /\ io[v] \in Chunks /\ Base(v) \in Chunks
  BY ViewerTypes
<1>1. /\ up[v].restored /\ w.controlOpen
      /\ up'[v].acks = up[v].acks /\ ~up'[v].restored
      /\ view'[v] = FlushHeld([w EXCEPT !.restored = TRUE])
      /\ UNCHANGED <<out, present, io, restore, client, past>>
  BY DEF TakeRestoreComplete, StreamTypeOK
<1>2. /\ (view'[v].ioOpen <=> w.ioOpen) /\ (view'[v].controlOpen <=> w.controlOpen)
      /\ (view'[v].paused <=> w.paused) /\ view'[v].unacked = w.unacked /\ view'[v].restored
      /\ w.ioOpen => view'[v].batch = w.batch \o w.held /\ view'[v].held = <<>>
      /\ ~w.ioOpen => view'[v].batch = w.batch /\ view'[v].held = w.held
  BY <1>1, <1>v DEF FlushHeld, Streaming, View
<1>3. client[v].control
  BY <1>1 DEF ViewerInv, SocketsAgree, NoMessages
<1>4. SocketsAgree(v)'
  BY <1>1, <1>2, <1>3 DEF ViewerInv, SocketsAgree
<1>5. Outstanding(v)'
  BY <1>1, <1>2 DEF ViewerInv, Outstanding
<1>6. InOrder(v)'
  BY <1>1, <1>2, <1>3 DEF ViewerInv, InOrder, Streaming
<1>7. Exact(v)'
  <2> SUFFICES ASSUME ~past[v].torn
               PROVE  Base(v) \o io[v] \o view'[v].batch \o view'[v].held = UpTo(out)
    BY <1>1 DEF Exact, Base
  <2>1. Base(v) \o io[v] \o w.batch \o w.held = UpTo(out)
    BY <1>1, <1>3 DEF ViewerInv, Exact
  <2>2. CASE ~w.ioOpen
    BY <1>2, <2>1, <2>2
  <2>3. CASE w.ioOpen
    <3>1. Base(v) \o io[v] \in Chunks /\ w.batch \o w.held \in Chunks
      BY <1>v, Joined
    <3>2. Base(v) \o io[v] \o w.batch \o w.held = Base(v) \o io[v] \o (w.batch \o w.held)
      BY <1>v, <3>1, Regrouped
    <3>3. Base(v) \o io[v] \o (w.batch \o w.held) \in Chunks
      BY <3>1, Joined
    <3>4. Base(v) \o io[v] \o (w.batch \o w.held) \o <<>>
            = Base(v) \o io[v] \o (w.batch \o w.held)
      BY <3>3, NoChunks
    <3> QED
      BY <1>2, <2>1, <2>3, <3>2, <3>4
  <2> QED
    BY <2>2, <2>3
<1> QED
  BY <1>4, <1>5, <1>6, <1>7 DEF ViewerInv

\* A pair of sockets whose io socket is not yet there has an empty batch, so that
\* nothing is lost with it.
LEMMA ConnectIoKeeps ==
    ASSUME StreamTypeOK, NEW v \in Viewers, ViewerInv(v), ConnectIo(v)
    PROVE  ViewerInv(v)'
<1> DEFINE w == view[v]
<1>v. /\ w \in View /\ w.batch \in Chunks /\ w.held \in Chunks
      /\ io[v] \in Chunks /\ Base(v) \in Chunks /\ client[v].shown \in Chunks
      /\ up[v].acks \in Nat
  BY ViewerTypes
<1>1. /\ ~client[v].io /\ client'[v].io /\ (client'[v].control <=> client[v].control)
      /\ client'[v].shown = client[v].shown
      /\ io'[v] = <<>>
      /\ view'[v] = FlushHeld([w EXCEPT !.ioOpen = TRUE, !.batch = <<>>,
                                        !.paused = FALSE, !.unacked = 0])
      /\ v \in present'
      /\ UNCHANGED <<out, restore, up, past>>
  BY DEF ConnectIo, StreamTypeOK
<1>2. /\ view'[v].ioOpen /\ (view'[v].controlOpen <=> w.controlOpen)
      /\ ~view'[v].paused /\ view'[v].unacked = 0 /\ (view'[v].restored <=> w.restored)
      /\ w.restored => view'[v].batch = <<>> \o w.held /\ view'[v].held = <<>>
      /\ ~w.restored => view'[v].batch = <<>> /\ view'[v].held = w.held
  BY <1>1, <1>v, NoChunks DEF FlushHeld, Streaming, View
<1>3. SocketsAgree(v)'
  BY <1>1, <1>2 DEF ViewerInv, SocketsAgree
<1>4. Outstanding(v)'
  <2>1. Len(io'[v]) = 0
    BY <1>1
  <2> QED
    BY <1>1, <1>2, <1>v, <2>1 DEF Outstanding
<1>5. InOrder(v)'
  BY <1>1, <1>2 DEF ViewerInv, InOrder, Streaming
<1>6. Exact(v)'
  <2> SUFFICES ASSUME w.controlOpen, client[v].control, ~past[v].torn
               PROVE  Base(v) \o <<>> \o view'[v].batch \o view'[v].held = UpTo(out)
    BY <1>1, <1>2 DEF Exact, Base
  <2>1. Base(v) \o io[v] \o w.batch \o w.held = UpTo(out)
    BY DEF ViewerInv, Exact
  <2>2. io[v] = <<>> /\ w.batch = <<>>
    BY <1>1 DEF ViewerInv, InOrder, SocketsAgree
  <2>3. Base(v) \o <<>> = Base(v)
    BY <1>v, NoChunks
  <2>4. Base(v) \o w.held = UpTo(out) /\ Base(v) \o w.held \in Chunks
    BY <1>v, <2>1, <2>2, <2>3, Joined
  <2>5. <<>> \o w.held = w.held /\ (Base(v) \o w.held) \o <<>> = Base(v) \o w.held
    BY <1>v, <2>4, NoChunks
  <2>6. Base(v) \o view'[v].batch \o view'[v].held = UpTo(out)
    BY <1>2, <2>3, <2>4, <2>5
  <2> QED
    BY <2>3, <2>6
<1> QED
  BY <1>3, <1>4, <1>5, <1>6 DEF ViewerInv

\* A new control socket of an intact pair starts from all output so far: nothing
\* was sent before it.
LEMMA ConnectControlKeeps ==
    ASSUME StreamTypeOK, NEW v \in Viewers, ViewerInv(v), ConnectControl(v)
    PROVE  ViewerInv(v)'
<1> DEFINE w == view[v]
<1>v. w \in View /\ w.batch \in Chunks /\ io[v] \in Chunks /\ out \in Nat
  BY ViewerTypes DEF StreamTypeOK
<1>1. /\ ~client[v].control /\ client'[v].control /\ (client'[v].io <=> client[v].io)
      /\ view'[v] = [w EXCEPT !.controlOpen = TRUE, !.restored = FALSE, !.held = <<>>]
      /\ restore'[v] = out /\ up'[v] = NoMessages
      /\ v \in present'
      /\ UNCHANGED <<out, io, past>>
  BY DEF ConnectControl, Restart, StreamTypeOK
<1>2. /\ (view'[v].ioOpen <=> w.ioOpen) /\ view'[v].controlOpen /\ ~view'[v].restored
      /\ (view'[v].paused <=> w.paused) /\ view'[v].unacked = w.unacked
      /\ view'[v].batch = w.batch /\ view'[v].held = <<>>
  BY <1>1, <1>v DEF View
<1>3. up'[v].acks = up[v].acks /\ ~up'[v].restored
  BY <1>1 DEF ViewerInv, SocketsAgree, NoMessages
<1>4. SocketsAgree(v)'
  BY <1>1, <1>2 DEF ViewerInv, SocketsAgree
<1>5. Outstanding(v)'
  BY <1>1, <1>2, <1>3 DEF ViewerInv, Outstanding
<1>6. InOrder(v)'
  BY <1>1, <1>2, <1>3 DEF ViewerInv, InOrder, Streaming
<1>7. Exact(v)'
  <2> SUFFICES ASSUME ~past[v].torn
               PROVE  UpTo(out) \o io[v] \o w.batch \o <<>> = UpTo(out)
    <3>1. restore'[v] # None
      BY <1>1, <1>v DEF None
    <3> QED
      BY <1>1, <1>2, <3>1 DEF Exact, Base
  <2>1. io[v] = <<>> /\ w.batch = <<>>
    BY <1>1 DEF ViewerInv, InOrder
  <2>2. UpTo(out) \o <<>> = UpTo(out)
    BY <1>v, UpToChunks, NoChunks
  <2> QED
    BY <2>1, <2>2
<1> QED
  BY <1>4, <1>5, <1>6, <1>7 DEF ViewerInv

\* A viewer that is forgotten keeps nothing; its sockets are torn unless both are gone.
LEMMA ForgottenKept ==
    ASSUME StreamTypeOK, NEW v \in Viewers, ViewerInv(v),
           view'[v] = NoView, v \notin present',
           past'[v] = [torn |-> client[v].io \/ client[v].control, dropped |-> FALSE],
           ~client[v].control, client[v].io => view[v].ioOpen, ~view[v].ioOpen \/ ~client[v].io,
           up'[v] = NoMessages, UNCHANGED <<out, io, restore, client>>
    PROVE  ViewerInv(v)'
<1>1. /\ ~NoView.ioOpen /\ ~NoView.controlOpen /\ ~NoView.restored /\ ~NoView.paused
      /\ NoView.batch = <<>> /\ NoView.held = <<>> /\ NoView.unacked = 0
      /\ ~NoMessages.restored /\ NoMessages.acks = 0
  BY DEF NoView, NoMessages
<1>2. ~client[v].io /\ io[v] = <<>> /\ restore[v] = None
  BY DEF ViewerInv, SocketsAgree
<1>3. SocketsAgree(v)'
  BY <1>1, <1>2 DEF SocketsAgree
<1>4. Outstanding(v)'
  BY <1>2 DEF Outstanding
<1>5. InOrder(v)'
  BY <1>1, <1>2 DEF InOrder, Streaming
<1>6. Exact(v)'
  BY <1>1 DEF Exact
<1> QED
  BY <1>3, <1>4, <1>5, <1>6 DEF ViewerInv

\* A closed io socket takes the batch with it; its pair was torn when it was lost.
LEMMA IoClosedKeeps ==
    ASSUME StreamTypeOK, NEW v \in Viewers, ViewerInv(v), IoClosed(v)
    PROVE  ViewerInv(v)'
<1> DEFINE w == view[v]
           x == [w EXCEPT !.ioOpen = FALSE, !.batch = <<>>, !.paused = FALSE, !.unacked = 0]
<1>v. w \in View /\ io[v] \in Chunks /\ up[v].acks \in Nat
  BY ViewerTypes
<1>1. w.ioOpen /\ ~client[v].io /\ UNCHANGED <<out, io, restore, up, client>> /\ Closed(v, x)
  BY DEF IoClosed
<1>2. /\ ~x.ioOpen /\ (x.controlOpen <=> w.controlOpen) /\ ~x.paused /\ x.unacked = 0
      /\ (x.restored <=> w.restored) /\ x.batch = <<>> /\ x.held = w.held
  BY <1>v DEF View
<1>3. past[v].torn
  BY <1>1 DEF ViewerInv, InOrder
<1>4. CASE w.controlOpen
  <2>1. view'[v] = x /\ UNCHANGED <<present, past>>
    BY <1>1, <1>2, <1>4 DEF Closed, StreamTypeOK
  <2>2. SocketsAgree(v)'
    BY <1>1, <1>2, <2>1 DEF ViewerInv, SocketsAgree
  <2>3. Outstanding(v)' /\ InOrder(v)' /\ Exact(v)'
    BY <1>1, <1>2, <1>3, <2>1 DEF ViewerInv, Outstanding, InOrder, Exact, Streaming
  <2> QED
    BY <2>2, <2>3 DEF ViewerInv
<1>5. CASE ~w.controlOpen
  <2>1. /\ view'[v] = NoView /\ v \notin present'
        /\ past'[v] = [torn |-> client[v].io \/ client[v].control, dropped |-> FALSE]
    BY <1>1, <1>2, <1>5 DEF Closed, StreamTypeOK
  <2>2. ~client[v].control /\ up[v] = NoMessages
    BY <1>5 DEF ViewerInv, SocketsAgree
  <2>3. up'[v] = NoMessages
    BY <1>1, <2>2
  <2> QED
    BY <1>1, <2>1, <2>2, <2>3, ForgottenKept
<1> QED
  BY <1>4, <1>5

LEMMA ControlClosedKeeps ==
    ASSUME StreamTypeOK, NEW v \in Viewers, ViewerInv(v), ControlClosed(v)
    PROVE  ViewerInv(v)'
<1> DEFINE w == view[v]
           x == [w EXCEPT !.controlOpen = FALSE]
<1>v. w \in View
  BY ViewerTypes
<1>1. /\ w.controlOpen /\ ~client[v].control
      /\ up'[v] = NoMessages /\ UNCHANGED <<out, io, restore, client>> /\ Closed(v, x)
  BY DEF ControlClosed, StreamTypeOK
<1>2. /\ (x.ioOpen <=> w.ioOpen) /\ ~x.controlOpen /\ (x.paused <=> w.paused)
      /\ x.unacked = w.unacked /\ (x.restored <=> w.restored)
      /\ x.batch = w.batch /\ x.held = w.held
  BY <1>v DEF View
<1>3. past[v].torn /\ up[v] = NoMessages
  BY <1>1 DEF ViewerInv, InOrder, SocketsAgree
<1>4. CASE w.ioOpen
  <2>1. view'[v] = x /\ UNCHANGED <<present, past>>
    BY <1>1, <1>2, <1>4 DEF Closed, StreamTypeOK
  <2>2. SocketsAgree(v)'
    BY <1>1, <1>2, <2>1 DEF ViewerInv, SocketsAgree
  <2>3. Outstanding(v)' /\ InOrder(v)' /\ Exact(v)'
    BY <1>1, <1>2, <1>3, <2>1 DEF ViewerInv, Outstanding, InOrder, Exact, Streaming
  <2> QED
    BY <2>2, <2>3 DEF ViewerInv
<1>5. CASE ~w.ioOpen
  <2>1. /\ view'[v] = NoView /\ v \notin present'
        /\ past'[v] = [torn |-> client[v].io \/ client[v].control, dropped |-> FALSE]
    BY <1>1, <1>2, <1>5 DEF Closed, StreamTypeOK
  <2>2. client[v].io => view[v].ioOpen
    BY DEF ViewerInv, SocketsAgree
  <2> QED
    BY <1>1, <1>5, <2>1, <2>2, ForgottenKept
<1> QED
  BY <1>4, <1>5

\* What is shown leaves the io socket, and is acknowledged if it can be.
LEMMA TakeOutputKeeps ==
    ASSUME StreamTypeOK, NEW v \in Viewers, ViewerInv(v), TakeOutput(v)
    PROVE  ViewerInv(v)'
<1> DEFINE w == view[v]
<1>v. /\ w \in View /\ w.batch \in Chunks /\ w.held \in Chunks /\ w.unacked \in Nat
      /\ io[v] \in Chunks /\ client[v].shown \in Chunks /\ up[v].acks \in Nat
  BY ViewerTypes
<1>1. /\ io[v] # <<>> /\ io'[v] = Tail(io[v])
      /\ (client'[v].io <=> client[v].io) /\ (client'[v].control <=> client[v].control)
      /\ client'[v].shown = IF past[v].torn THEN <<>> ELSE Append(client[v].shown, Head(io[v]))
      /\ (past'[v].torn <=> past[v].torn) /\ (up'[v].restored <=> up[v].restored)
      /\ UNCHANGED <<out, present, view, restore>>
  <2>1. /\ io[v] # <<>> /\ io'[v] = Tail(io[v]) /\ UNCHANGED <<out, present, view, restore>>
    BY DEF TakeOutput, StreamTypeOK
  <2>2. /\ (client'[v].io <=> client[v].io) /\ (client'[v].control <=> client[v].control)
        /\ client'[v].shown = IF past[v].torn THEN <<>> ELSE Append(client[v].shown, Head(io[v]))
    BY DEF TakeOutput, StreamTypeOK
  <2>3. (past'[v].torn <=> past[v].torn) /\ (up'[v].restored <=> up[v].restored)
    <3>1. CASE client[v].control
      BY <3>1 DEF TakeOutput, StreamTypeOK
    <3>2. CASE ~client[v].control
      BY <3>2 DEF TakeOutput, StreamTypeOK
    <3> QED
      BY <3>1, <3>2
  <2> QED
    BY <2>1, <2>2, <2>3
<1>2. \/ up'[v].acks = up[v].acks + 1 /\ client[v].control
         /\ (past'[v].dropped <=> past[v].dropped)
      \/ up'[v] = up[v] /\ past'[v].dropped
  BY DEF TakeOutput, StreamTypeOK
<1>3. Len(io'[v]) = Len(io[v]) - 1 /\ Len(io[v]) \in Nat
  BY <1>1, <1>v, HeadMoves DEF Chunks
<1>4. client[v].io
  BY <1>1 DEF ViewerInv, SocketsAgree
<1>5. SocketsAgree(v)'
  BY <1>1, <1>2, <1>4 DEF ViewerInv, SocketsAgree
<1>6. Outstanding(v)'
  <2>1. w.unacked <= Len(io[v]) + up[v].acks \/ past[v].dropped
    BY <1>4 DEF ViewerInv, Outstanding
  <2>2. view'[v].unacked = w.unacked
    BY <1>1
  <2> QED
    BY <1>2, <1>3, <1>v, <2>1, <2>2 DEF Outstanding
<1>7. InOrder(v)'
  BY <1>1 DEF ViewerInv, InOrder, Streaming
<1>8. Exact(v)'
  <2> SUFFICES ASSUME w.controlOpen, client[v].control, ~past[v].torn
               PROVE  Base(v)' \o io'[v] \o w.batch \o w.held = UpTo(out)
    BY <1>1 DEF Exact
  <2>1. restore[v] = None
    BY <1>1 DEF ViewerInv, InOrder
  <2>2. Base(v) = client[v].shown /\ Base(v)' = Append(client[v].shown, Head(io[v]))
    BY <1>1, <2>1 DEF Base
  <2>3. Base(v)' \o io'[v] = Base(v) \o io[v]
    BY <1>1, <1>v, <2>2, HeadMoves
  <2> QED
    BY <2>3 DEF ViewerInv, Exact
<1> QED
  BY <1>5, <1>6, <1>7, <1>8 DEF ViewerInv

\* The snapshot becomes the screen.
LEMMA TakeRestoreKeeps ==
    ASSUME StreamTypeOK, NEW v \in Viewers, ViewerInv(v), TakeRestore(v)
    PROVE  ViewerInv(v)'
<1>1. /\ restore[v] # None /\ restore'[v] = None
      /\ (client'[v].io <=> client[v].io) /\ (client'[v].control <=> client[v].control)
      /\ client'[v].shown = IF past[v].torn THEN <<>> ELSE UpTo(restore[v])
      /\ up'[v].acks = up[v].acks
      /\ UNCHANGED <<out, present, view, io, past>>
  BY DEF TakeRestore, StreamTypeOK
<1>2. client[v].control
  BY <1>1 DEF ViewerInv, SocketsAgree
<1>3. SocketsAgree(v)' /\ Outstanding(v)' /\ InOrder(v)'
  BY <1>1, <1>2 DEF ViewerInv, SocketsAgree, Outstanding, InOrder, Streaming
<1>4. Exact(v)'
  BY <1>1 DEF ViewerInv, Exact, Base
<1> QED
  BY <1>3, <1>4 DEF ViewerInv

LEMMA LoseIoKeeps ==
    ASSUME StreamTypeOK, NEW v \in Viewers, ViewerInv(v), LoseIo(v)
    PROVE  ViewerInv(v)'
<1>1. /\ ~client'[v].io /\ (client'[v].control <=> client[v].control) /\ io'[v] = <<>>
      /\ past'[v].torn
      /\ UNCHANGED <<out, present, view, restore, up>>
  BY DEF LoseIo, StreamTypeOK
<1>2. SocketsAgree(v)' /\ Outstanding(v)' /\ InOrder(v)'
  BY <1>1 DEF ViewerInv, SocketsAgree, Outstanding, InOrder
<1>3. Exact(v)'
  BY <1>1 DEF Exact
<1> QED
  BY <1>2, <1>3 DEF ViewerInv

LEMMA LoseControlKeeps ==
    ASSUME StreamTypeOK, NEW v \in Viewers, ViewerInv(v), LoseControl(v)
    PROVE  ViewerInv(v)'
<1>1. /\ (client'[v].io <=> client[v].io) /\ ~client'[v].control
      /\ up'[v] = NoMessages /\ restore'[v] = None
      /\ past'[v] = [torn |-> TRUE, dropped |-> past[v].dropped \/ up[v].acks > 0]
      /\ UNCHANGED <<out, present, view, io>>
  BY DEF LoseControl, StreamTypeOK
<1>2. past'[v].torn /\ (past'[v].dropped <=> (past[v].dropped \/ up[v].acks > 0))
  <2>1. PICK d \in BOOLEAN : d <=> (past[v].dropped \/ up[v].acks > 0)
    OBVIOUS
  <2>2. past'[v] = [torn |-> TRUE, dropped |-> d]
    BY <1>1, <2>1
  <2> QED
    BY <2>1, <2>2
<1>3. SocketsAgree(v)'
  BY <1>1 DEF ViewerInv, SocketsAgree
<1>4. Outstanding(v)'
  <2>1. up[v].acks \in Nat /\ up'[v].acks = 0
    BY <1>1, ViewerTypes DEF NoMessages
  <2>2. up[v].acks > 0 \/ up[v].acks = up'[v].acks
    BY <2>1
  <2> QED
    BY <1>1, <1>2, <2>2 DEF ViewerInv, Outstanding
<1>5. InOrder(v)'
  BY <1>1, <1>2 DEF ViewerInv, InOrder, Streaming
<1>6. Exact(v)'
  BY <1>2 DEF Exact
<1> QED
  BY <1>3, <1>4, <1>5, <1>6 DEF ViewerInv

\* A chunk is sent last, or held last.
LEMMA PtyOutputKeeps ==
    ASSUME StreamTypeOK, NEW v \in Viewers, ViewerInv(v), PtyOutput
    PROVE  ViewerInv(v)'
<1> DEFINE w == view[v]
<1>v. /\ w \in View /\ io[v] \in Chunks /\ Base(v) \in Chunks
      /\ w.batch \in Chunks /\ w.held \in Chunks /\ out \in Nat
  BY ViewerTypes DEF StreamTypeOK
<1>1. /\ out' = out + 1
      /\ view'[v] = IF v \in present THEN Receive(w, out + 1) ELSE w
      /\ UNCHANGED <<present, io, restore, up, client, past>>
  BY DEF PtyOutput, StreamTypeOK
<1>2. /\ (view'[v].ioOpen <=> w.ioOpen) /\ (view'[v].controlOpen <=> w.controlOpen)
      /\ (view'[v].paused <=> w.paused) /\ view'[v].unacked = w.unacked
      /\ (view'[v].restored <=> w.restored)
      /\ \/ w.restored /\ w.ioOpen
            /\ view'[v].batch = Append(w.batch, out + 1) /\ view'[v].held = w.held
         \/ ~(w.restored /\ w.ioOpen)
            /\ view'[v].batch = w.batch /\ view'[v].held = Append(w.held, out + 1)
         \/ v \notin present /\ view'[v] = w
  BY <1>1, <1>v DEF Receive, Streaming, View
<1>3. SocketsAgree(v)'
  BY <1>1, <1>2 DEF ViewerInv, SocketsAgree
<1>4. Outstanding(v)'
  BY <1>1, <1>2 DEF ViewerInv, Outstanding
<1>5. InOrder(v)'
  BY <1>1, <1>2 DEF ViewerInv, InOrder, Streaming
<1>6. Exact(v)'
  <2> SUFFICES ASSUME w.controlOpen, client[v].control, ~past[v].torn
               PROVE  Base(v) \o io[v] \o view'[v].batch \o view'[v].held = UpTo(out + 1)
    BY <1>1, <1>2 DEF Exact, Base
  <2>1. Base(v) \o io[v] \o w.batch \o w.held = UpTo(out) /\ v \in present
    BY DEF ViewerInv, Exact, InOrder
  <2>2. PICK n \in Nat : n = out + 1
    BY <1>v
  <2>u. UpTo(n) = Append(UpTo(out), n) /\ UpTo(n) \in Chunks
    BY <1>v, <2>2, UpToChunks
  <2>3. Base(v) \o io[v] \in Chunks /\ Base(v) \o io[v] \o w.batch \in Chunks
    BY <1>v, Joined
  <2>4. CASE w.restored /\ w.ioOpen
    <3>1. w.held = <<>>
      BY <2>4 DEF ViewerInv, InOrder, Streaming
    <3>2. Base(v) \o io[v] \o w.batch = UpTo(out)
      BY <2>1, <2>3, <3>1, NoChunks
    <3>3. Base(v) \o io[v] \o Append(w.batch, n) = UpTo(n)
      <4>1. (Base(v) \o io[v]) \o Append(w.batch, n) = Append((Base(v) \o io[v]) \o w.batch, n)
        BY <1>v, <2>2, <2>3, AppendedLast, Zenon
      <4> QED
        BY <2>u, <3>2, <4>1, Zenon
    <3>4. UpTo(n) \o <<>> = UpTo(n)
      BY <2>u, NoChunks
    <3> QED
      BY <1>2, <2>1, <2>2, <2>4, <3>1, <3>3, <3>4
  <2>5. CASE ~(w.restored /\ w.ioOpen)
    <3>1. Base(v) \o io[v] \o w.batch \o Append(w.held, n) = UpTo(n)
      <4>1. (Base(v) \o io[v] \o w.batch) \o Append(w.held, n)
              = Append((Base(v) \o io[v] \o w.batch) \o w.held, n)
        BY <1>v, <2>2, <2>3, AppendedLast, Zenon
      <4> QED
        BY <2>u, <2>1, <4>1, Zenon
    <3> QED
      BY <1>2, <2>1, <2>2, <2>5, <3>1
  <2> QED
    BY <2>4, <2>5
<1> QED
  BY <1>3, <1>4, <1>5, <1>6 DEF ViewerInv

------------------------------------------------------------------------------
(* The invariant.                                                          *)

LEMMA StreamStarts == StreamInit => StreamInv
<1> SUFFICES ASSUME StreamInit PROVE StreamInv
  OBVIOUS
<1>1. NoView \in View /\ <<>> \in Chunks
  BY ViewTypes, NoChunks
<1>2. StreamTypeOK
  BY <1>1 DEF StreamInit, StreamTypeOK, NoMessages, Blank
<1>3. PauseAgrees
  BY DEF StreamInit, PauseAgrees, NoView
<1>4. ASSUME NEW v \in Viewers
      PROVE  ViewerInv(v)
  <2>1. view[v] = NoView /\ io[v] = <<>> /\ restore[v] = None /\ up[v] = NoMessages
        /\ client[v] = Blank
    BY DEF StreamInit
  <2>2. SocketsAgree(v) /\ Outstanding(v) /\ InOrder(v) /\ Exact(v)
    BY <2>1 DEF SocketsAgree, Outstanding, InOrder, Exact, Streaming, NoView, NoMessages, Blank
  <2> QED
    BY <2>2 DEF ViewerInv
<1> QED
  BY <1>2, <1>3, <1>4 DEF StreamInv

LEMMA StreamKeeps == StreamInv /\ [StreamNext]_streamVars => StreamInv'
<1> SUFFICES ASSUME StreamInv, [StreamNext]_streamVars PROVE StreamInv'
  OBVIOUS
<1>1. StreamTypeOK /\ PauseAgrees /\ \A v \in Viewers : ViewerInv(v)
  BY DEF StreamInv
<1>2. StreamTypeOK'
  BY <1>1, StepType
<1>3. PauseAgrees'
  BY <1>1, StepPause DEF ViewerInv
<1>4. ASSUME NEW u \in Viewers
      PROVE  ViewerInv(u)'
  <2>1. CASE UNCHANGED streamVars
    <3>1. out' = out /\ Same(u)
      BY <2>1 DEF streamVars, Same
    <3> QED
      BY <1>1, <3>1, OthersKept
  <2>2. CASE PtyOutput
    BY <1>1, <2>2, PtyOutputKeeps
  <2>3. ASSUME NEW v \in Viewers,
               \/ FlushBatch(v) \/ ResumeCheck(v) \/ TakeAck(v) \/ TakeRestoreComplete(v)
               \/ ConnectIo(v) \/ ConnectControl(v) \/ IoClosed(v) \/ ControlClosed(v)
               \/ TakeOutput(v) \/ TakeRestore(v) \/ LoseIo(v) \/ LoseControl(v)
        PROVE  ViewerInv(u)'
    <3>1. CASE u # v
      <4>1. out' = out /\ Same(u)
        BY <1>1, <2>3, <3>1, StepLocal DEF Local
      <4> QED
        BY <1>1, <4>1, OthersKept
    <3>2. ViewerInv(v)'
      BY <1>1, <2>3, FlushBatchKeeps, ResumeCheckKeeps, TakeAckKeeps, TakeRestoreCompleteKeeps,
         ConnectIoKeeps, ConnectControlKeeps, IoClosedKeeps, ControlClosedKeeps,
         TakeOutputKeeps, TakeRestoreKeeps, LoseIoKeeps, LoseControlKeeps
    <3> QED
      BY <3>1, <3>2
  <2> QED
    BY <2>1, <2>2, <2>3 DEF StreamNext
<1> QED
  BY <1>2, <1>3, <1>4 DEF StreamInv

\* Every state of the bridge satisfies the inductive invariant.
THEOREM StreamInvariance == StreamSpec => []StreamInv
<1>1. StreamInit => StreamInv
  BY StreamStarts
<1>2. StreamInv /\ [StreamNext]_streamVars => StreamInv'
  BY StreamKeeps
<1> QED
  BY <1>1, <1>2, PTL DEF StreamSpec

\* The PTY is paused for someone who is behind, and whoever is behind has output
\* outstanding that will release it.
THEOREM PauseOwed == StreamSpec => []PauseIsOwed
<1>1. StreamInv => PauseIsOwed
  <2> SUFFICES ASSUME StreamInv PROVE PauseIsOwed
    OBVIOUS
  <2>1. \A v \in backpressured : v \in Viewers /\ Outstanding(v)
    BY DEF StreamInv, StreamTypeOK, ViewerInv
  <2> QED
    BY <2>1 DEF StreamInv, PauseAgrees, PauseIsOwed, Outstanding
<1> QED
  BY <1>1, StreamInvariance, PTL

\* A viewer whose pair of sockets is intact sees the PTY's output, whole and once.
THEOREM ExactStream == StreamSpec => []StreamIsExact
<1>1. StreamInv => StreamIsExact
  <2> SUFFICES ASSUME StreamInv PROVE StreamIsExact
    OBVIOUS
  <2>1. \A v \in present : v \in Viewers /\ Exact(v)
    BY DEF StreamInv, StreamTypeOK, ViewerInv
  <2> QED
    BY <2>1 DEF StreamIsExact, Exact
<1> QED
  BY <1>1, StreamInvariance, PTL

=============================================================================
