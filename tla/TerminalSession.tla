-------------------------- MODULE TerminalSession --------------------------
(***************************************************************************)
(* One entry of the terminal session manager: the PTY processes started    *)
(* for a task or for the workspace shell, the summary the board reads, the *)
(* hooks that move it between running and review, the turn checkpoints,    *)
(* and the automatic restart of an attached agent.                         *)
(*                                                                         *)
(* A start prepares the launch across an await and spawns afterwards, so   *)
(* two starts can overlap; the callbacks of a process read the entry's     *)
(* ACTIVE process, which need not be the one they belong to.               *)
(***************************************************************************)
EXTENDS Integers, Sequences, FiniteSets, FiniteSetsExt

CONSTANTS
    Scenarios,      \* what the entry runs, and the bounds of what happens to it:
                    \* starts, checkpoint captures, time, and prompts on the screen
    AUTO_RESTART_WINDOW,
    MAX_AUTO_RESTARTS_PER_WINDOW

ASSUME SessionAssumption ==
    /\ Scenarios \subseteq [kind: {"task", "shell"}, starts: Nat, captures: Nat,
                            time: Nat, prompts: BOOLEAN]
    /\ AUTO_RESTART_WINDOW \in Nat \ {0}
    /\ MAX_AUTO_RESTARTS_PER_WINDOW \in Nat \ {0}

VARIABLES
    scenario,       \* chosen once
    starts,         \* start -> where it is and who asked for it
    proc,           \* start -> the process it spawned
    active,         \* entry.active: the start whose process is managed, or 0
    act,            \* the rest of ActiveProcessState
    timers,         \* processes whose trust-confirm timeout is pending
    summary,        \* state, reason and checkpoints of entry.summary
    request,        \* restartRequest of a task: whether it resumes from the trash
    attached,       \* a terminal listener is registered
    suppress,       \* suppressAutoRestartOnExit
    stamps,         \* autoRestartTimestamps
    pending,        \* the start pendingAutoRestart waits for, or 0
    clock,
    captures,       \* capture -> turn, stale ref and progress
    refs,           \* checkpoint refs in git: turn -> capture, 0 when absent
    deletes,        \* turns whose ref is about to be deleted
    seen            \* history, read by the properties only

vars == <<scenario, starts, proc, active, act, timers, summary, request, attached,
          suppress, stamps, pending, clock, captures, refs, deletes, seen>>
session == <<scenario, starts, proc, active, act, timers, request, attached, suppress,
             stamps, pending, clock>>
checkpointing == <<captures, refs, deletes>>

kind == scenario.kind
Starts == 1 .. scenario.starts
Captures == 1 .. scenario.captures
Turns == 1 .. scenario.captures

NoTurn == [turn |-> 0, commit |-> 0]

\* act of no process, and of one just spawned.
Inactive == [trust |-> FALSE, prompt |-> FALSE, confirmed |-> FALSE,
             timer |-> FALSE, deferred |-> FALSE, enter |-> FALSE]
(***************************************************************************)
(* The summary: updateSummary and the session state machine.               *)
(***************************************************************************)
CanReturnToRunning(reason) == reason \in {"attention", "hook", "error"}

\* Mutant: a task under review is taken for one that is over.
RunningOnly(state) == state = "running"

IsActiveState(state) == state \in {"running", "awaiting_review"}

\* reduceSessionTransition for a process that exited.
ExitPatch(sum, code, interrupted) ==
    LET reason == IF interrupted THEN "interrupted"
                  ELSE IF code = 0 THEN "exit" ELSE "error"
    IN  [sum EXCEPT !.state = IF interrupted THEN "interrupted" ELSE "awaiting_review",
                    !.reason = reason]

ToReview(sum) == [sum EXCEPT !.state = "awaiting_review", !.reason = "hook"]
ToRunning(sum) == [sum EXCEPT !.state = "running", !.reason = "none"]
Fresh(state, reason) ==
    [state |-> state, reason |-> reason, latest |-> NoTurn, prev |-> NoTurn]

\* clearAttentionBuffer: a transition empties the trust buffer.
ClearBuffer(a) == [a EXCEPT !.trust = FALSE, !.prompt = FALSE]

Init ==
    /\ scenario \in Scenarios
    /\ starts = [i \in Starts |-> [at |-> "none", auto |-> FALSE, resume |-> FALSE]]
    /\ proc = [i \in Starts |-> [life |-> "none", interrupted |-> FALSE]]
    /\ active = 0 /\ act = Inactive /\ timers = {}
    /\ summary \in {Fresh("idle", "none"), Fresh("running", "none")}
    /\ request = FALSE /\ attached = FALSE /\ suppress = FALSE
    /\ stamps = <<>> /\ pending = 0 /\ clock = 0
    /\ captures = <<>> /\ refs = [t \in Turns |-> 0] /\ deletes = {}
    /\ seen = [overlap |-> FALSE, crossed |-> FALSE, entered |-> FALSE]

Unstarted == {i \in Starts : starts[i].at = "none"}
NextStart == Min(Unstarted)
Preparing == {i \in Starts : starts[i].at = "preparing"}
Working == {c \in DOMAIN captures : captures[c].step # "over"}

(***************************************************************************)
(* A checkpoint capture of the next turn, which may fail before it has     *)
(* written anything.                                                       *)
(***************************************************************************)
BeginCapture(sum, stale) ==
    \/ /\ Len(captures) < scenario.captures
       /\ captures' = Append(captures, [turn |-> sum.latest.turn + 1,
                                        stale |-> stale, step |-> "git"])
       /\ UNCHANGED <<refs, deletes>>
    \/ UNCHANGED checkpointing

CapturesOverlap == Working # {} \/ deletes # {}

\* stopWorkspaceTrustTimers of the active process.
StopTimers == IF act.timer THEN timers \ {active} ELSE timers

(***************************************************************************)
(* startTaskSession up to its await, by a caller. An active process in an  *)
(* active state answers the call as it is. The caller captures a           *)
(* checkpoint when the call returns, whichever way it did.                 *)
(***************************************************************************)
RequestStart(resume) ==
    /\ kind = "task" /\ Unstarted # {}
    /\ LET s == [at |-> "preparing", auto |-> FALSE, resume |-> resume]
       IN  IF active # 0 /\ IsActiveState(summary.state)
           THEN /\ starts' = [starts EXCEPT ![NextStart] = [s EXCEPT !.at = "over"]]
                /\ IF resume THEN UNCHANGED checkpointing ELSE BeginCapture(summary, 0)
                /\ seen' = [seen EXCEPT !.crossed = @ \/ (captures' # captures /\ CapturesOverlap)]
                /\ UNCHANGED <<proc, active, act, timers>>
           ELSE /\ starts' = [starts EXCEPT ![NextStart] = s]
                /\ proc' = IF active = 0 THEN proc ELSE [proc EXCEPT ![active].life = "killed"]
                /\ timers' = StopTimers
                /\ active' = 0 /\ act' = Inactive
                /\ seen' = [seen EXCEPT !.overlap = @ \/ Preparing # {}]
                /\ UNCHANGED checkpointing
    /\ request' = resume
    /\ UNCHANGED <<scenario, summary, attached, suppress, stamps, pending, clock>>

(***************************************************************************)
(* PtySession.spawn after the await, and the bookkeeping up to the return. *)
(***************************************************************************)
Spawn(i) ==
    /\ i \in Preparing
    /\ starts' = [starts EXCEPT ![i].at = "over"]
    /\ proc' = [proc EXCEPT ![i].life = "live"]
    /\ active' = i
    /\ \E deferred \in IF scenario.prompts THEN BOOLEAN ELSE {FALSE} :
          act' = [Inactive EXCEPT !.deferred = deferred]
    /\ summary' = IF starts[i].resume THEN Fresh("awaiting_review", "attention")
                                      ELSE Fresh("running", "none")
    /\ pending' = IF pending = i THEN 0 ELSE pending
    /\ IF starts[i].auto \/ starts[i].resume
       THEN UNCHANGED checkpointing
       ELSE BeginCapture(summary', 0)
    /\ seen' = [seen EXCEPT !.crossed = @ \/ CapturesOverlap, !.entered = FALSE]
    /\ UNCHANGED <<scenario, timers, request, attached, suppress, stamps, clock>>

\* The binary does not launch: the summary fails; the entry keeps whatever
\* process another start has made active meanwhile.
SpawnFails(i) ==
    /\ i \in Preparing
    /\ starts' = [starts EXCEPT ![i].at = "over"]
    /\ summary' = Fresh("failed", "error")
    /\ pending' = IF pending = i THEN 0 ELSE pending
    /\ UNCHANGED <<scenario, proc, active, act, timers, request, attached, suppress,
                   stamps, clock, checkpointing>>
    /\ seen' = [seen EXCEPT !.crossed = @ \/ CapturesOverlap]

\* prepareAgentLaunch rejects: the summary keeps its state.
PrepareFails(i) ==
    /\ i \in Preparing
    /\ starts' = [starts EXCEPT ![i].at = "over"]
    /\ pending' = IF pending = i THEN 0 ELSE pending
    /\ UNCHANGED <<scenario, proc, active, act, timers, summary, request, attached,
                   suppress, stamps, clock, checkpointing, seen>>

\* startShellSession has no await: it answers, spawns or fails in one step.
StartShell ==
    /\ kind = "shell" /\ Unstarted # {}
    /\ LET i == NextStart IN
       /\ starts' = [starts EXCEPT ![i].at = "over"]
       /\ \/ /\ active # 0 /\ summary.state = "running"
             /\ UNCHANGED <<proc, active, summary>>
          \/ /\ ~(active # 0 /\ summary.state = "running")
             /\ LET stopped == IF active = 0 THEN proc ELSE [proc EXCEPT ![active].life = "killed"]
                IN  \/ /\ proc' = [stopped EXCEPT ![i].life = "live"]
                       /\ active' = i /\ summary' = Fresh("running", "none")
                    \/ /\ proc' = stopped
                       /\ active' = 0 /\ summary' = Fresh("failed", "error")
    /\ UNCHANGED <<scenario, act, timers, request, attached, suppress, stamps, pending,
                   clock, checkpointing, seen>>

(***************************************************************************)
(* A process exits, of itself or because it was killed, and its onExit     *)
(* runs: whatever process is active is taken for the one that exited.      *)
(***************************************************************************)
InWindow == SelectSeq(stamps, LAMBDA t : clock - t < AUTO_RESTART_WINDOW)

ShouldAutoRestart ==
    /\ ~suppress /\ attached
    /\ Len(InWindow) < MAX_AUTO_RESTARTS_PER_WINDOW

Exit(i, code) ==
    /\ proc[i].life \in {"live", "killed"}
    /\ LET interrupted == proc[active].interrupted
           restart == ShouldAutoRestart
       IN  IF active = 0
           THEN /\ proc' = [proc EXCEPT ![i].life = "gone"]
                /\ UNCHANGED <<starts, active, act, timers, summary, suppress, stamps,
                               pending, seen>>
           ELSE /\ proc' = [proc EXCEPT ![i].life = "gone"]
                /\ active' = 0 /\ act' = Inactive
                /\ timers' = StopTimers
                /\ IF kind = "shell"
                   THEN /\ summary' = [summary EXCEPT
                               !.state = IF interrupted THEN "interrupted" ELSE "idle",
                               !.reason = IF interrupted THEN "interrupted" ELSE "none"]
                        /\ UNCHANGED <<starts, suppress, stamps, pending, seen>>
                   ELSE /\ summary' = ExitPatch(summary, code, interrupted)
                        /\ suppress' = FALSE
                        /\ stamps' = IF suppress \/ ~attached THEN stamps
                                     ELSE IF restart THEN Append(InWindow, clock) ELSE InWindow
                        /\ IF restart /\ pending = 0
                           THEN /\ Unstarted # {}
                                /\ pending' = NextStart
                                /\ starts' = [starts EXCEPT ![NextStart] =
                                       [at |-> "preparing", auto |-> TRUE, resume |-> request]]
                                /\ seen' = [seen EXCEPT !.overlap = @ \/ Preparing # {}]
                           ELSE UNCHANGED <<starts, pending, seen>>
    /\ UNCHANGED <<scenario, request, attached, clock, checkpointing>>

(***************************************************************************)
(* Output of a process, also of one that is no longer the active one. It   *)
(* feeds the active process's trust buffer, may arm the trust-confirm      *)
(* timeout, may release the input deferred until the TUI is up, and a      *)
(* prompt returns a reviewed session to running after an Enter.            *)
(***************************************************************************)
ArmTimer(a) == a.trust /\ ~a.confirmed /\ ~a.timer

PromptReady(prompt) ==
    /\ prompt /\ summary.state = "awaiting_review"
    /\ summary.reason \in {"attention", "hook"} /\ act.enter

Output(i, trust, prompt) ==
    /\ proc[i].life \in {"live", "killed"} /\ active # 0 /\ kind = "task"
    /\ (trust \/ prompt) /\ scenario.prompts
    /\ LET fed == [act EXCEPT !.trust = @ \/ trust, !.prompt = @ \/ prompt]
           armed == IF ArmTimer(fed) THEN [fed EXCEPT !.confirmed = TRUE, !.timer = TRUE] ELSE fed
           sent == IF armed.prompt /\ ~armed.trust THEN [armed EXCEPT !.deferred = FALSE] ELSE armed
       IN  /\ timers' = IF ArmTimer(fed) THEN timers \cup {active} ELSE timers
           /\ IF PromptReady(prompt)
              THEN /\ summary' = ToRunning(summary)
                   /\ act' = [ClearBuffer(sent) EXCEPT !.enter = FALSE]
              ELSE summary' = summary /\ act' = sent
    /\ UNCHANGED <<scenario, starts, proc, active, request, attached, suppress, stamps,
                   pending, clock, checkpointing, seen>>

\* The timeout presses Enter in whatever process is active when it fires.
ConfirmTrust(i) ==
    /\ i \in timers
    /\ timers' = timers \ {i}
    /\ IF active # 0 /\ act.confirmed
       THEN act' = [ClearBuffer(act) EXCEPT !.timer = FALSE]
       ELSE act' = act
    /\ UNCHANGED <<scenario, starts, proc, active, summary, request, attached, suppress, stamps,
                   pending, clock, checkpointing, seen>>

\* writeInput of a line end, by the user.
PressEnter ==
    /\ active # 0 /\ kind = "task" /\ scenario.prompts
    /\ act' = [act EXCEPT !.enter = @ \/ (/\ summary.state = "awaiting_review"
                                          /\ CanReturnToRunning(summary.reason))]
    /\ seen' = [seen EXCEPT !.entered = @ \/ summary.state = "awaiting_review"]
    /\ UNCHANGED <<scenario, starts, proc, active, timers, summary, request, attached,
                   suppress, stamps, pending, clock, checkpointing>>

(***************************************************************************)
(* stopTaskSession, and markInterruptedAndStopAll at a shutdown or at the  *)
(* removal of the project.                                                 *)
(***************************************************************************)
StopTaskSession ==
    /\ active # 0
    /\ suppress' = TRUE
    /\ proc' = [proc EXCEPT ![active].life = "killed"]
    /\ timers' = StopTimers
    /\ act' = [act EXCEPT !.timer = FALSE]
    /\ UNCHANGED <<scenario, starts, active, summary, request, attached, stamps, pending,
                   clock, checkpointing, seen>>

MarkInterruptedAndStop ==
    /\ active # 0
    /\ proc' = [proc EXCEPT ![active].life = "killed", ![active].interrupted = TRUE]
    /\ timers' = StopTimers
    /\ act' = [act EXCEPT !.timer = FALSE]
    /\ UNCHANGED <<scenario, starts, active, summary, request, attached, suppress, stamps,
                   pending, clock, checkpointing, seen>>

(***************************************************************************)
(* hooks.ingest: the state is read and changed without an await between;   *)
(* a review captures the next turn's checkpoint, remembering the ref it    *)
(* will make stale. Hooks name the task, not the process, so one may come  *)
(* late, twice or out of order.                                            *)
(***************************************************************************)
\* Mutant: the ref that is about to become the previous one is deleted.
LatestRef(sum) == sum.latest.turn

StaleRef(sum) == sum.prev.turn

\* Mutant: a new review keeps the Enter typed for an earlier one.
StaleEnterReview ==
    /\ kind = "task" /\ summary.state = "running"
    /\ summary' = ToReview(summary)
    /\ act' = IF active = 0 THEN act ELSE ClearBuffer(act)
    /\ BeginCapture(summary, StaleRef(summary))
    /\ seen' = [seen EXCEPT !.entered = FALSE,
                            !.crossed = @ \/ (captures' # captures /\ CapturesOverlap)]
    /\ UNCHANGED <<scenario, starts, proc, active, timers, request, attached, suppress,
                   stamps, pending, clock>>

HookToReview ==
    /\ kind = "task" /\ summary.state = "running"
    /\ summary' = ToReview(summary)
    /\ act' = IF active = 0 THEN act ELSE [ClearBuffer(act) EXCEPT !.enter = FALSE]
    /\ BeginCapture(summary, StaleRef(summary))
    /\ seen' = [seen EXCEPT !.entered = FALSE,
                            !.crossed = @ \/ (captures' # captures /\ CapturesOverlap)]
    /\ UNCHANGED <<scenario, starts, proc, active, timers, request, attached, suppress,
                   stamps, pending, clock>>

HookToInProgress ==
    /\ kind = "task" /\ summary.state = "awaiting_review" /\ CanReturnToRunning(summary.reason)
    /\ summary' = ToRunning(summary)
    /\ act' = ClearBuffer(act)
    /\ UNCHANGED <<scenario, starts, proc, active, timers, request, attached, suppress,
                   stamps, pending, clock, checkpointing, seen>>

(***************************************************************************)
(* A capture: git writes the ref, the summary takes the checkpoint, and    *)
(* the stale ref is deleted without anyone waiting for it.                 *)
(***************************************************************************)
CaptureRef(c) ==
    /\ captures[c].step = "git"
    /\ refs' = [refs EXCEPT ![captures[c].turn] = c]
    /\ captures' = [captures EXCEPT ![c].step = "apply"]
    /\ UNCHANGED <<session, summary, deletes, seen>>

CaptureFails(c) ==
    /\ captures[c].step = "git"
    /\ captures' = [captures EXCEPT ![c].step = "over"]
    /\ UNCHANGED <<session, summary, refs, deletes, seen>>

ApplyTurnCheckpoint(c) ==
    /\ captures[c].step = "apply"
    /\ summary' = [summary EXCEPT !.prev = summary.latest,
                                  !.latest = [turn |-> captures[c].turn, commit |-> c]]
    /\ deletes' = deletes \cup ({captures[c].stale} \ {0})
    /\ captures' = [captures EXCEPT ![c].step = "over"]
    /\ UNCHANGED <<session, refs, seen>>

DeleteRef(t) ==
    /\ t \in deletes
    /\ refs' = [refs EXCEPT ![t] = 0]
    /\ deletes' = deletes \ {t}
    /\ UNCHANGED <<session, summary, captures, seen>>

(***************************************************************************)
(* A terminal connects: a stale summary is reset first. Then time.         *)
(***************************************************************************)
RecoverAndAttach ==
    /\ LET stale == active = 0 /\ IsActiveState(summary.state)
       IN  /\ summary' = IF stale THEN Fresh("idle", "none") ELSE summary
           /\ seen' = [seen EXCEPT !.crossed = @ \/ (stale /\ CapturesOverlap)]
           /\ ~attached \/ stale
    /\ attached' = TRUE
    /\ UNCHANGED <<scenario, starts, proc, active, act, timers, request, suppress, stamps,
                   pending, clock, checkpointing>>

Detach ==
    /\ attached
    /\ attached' = FALSE
    /\ UNCHANGED <<scenario, starts, proc, active, act, timers, summary, request, suppress,
                   stamps, pending, clock, checkpointing, seen>>

Tick ==
    /\ clock < scenario.time
    /\ clock' = clock + 1
    /\ UNCHANGED <<scenario, starts, proc, active, act, timers, summary, request, attached,
                   suppress, stamps, pending, checkpointing, seen>>

Next ==
    \/ \E resume \in BOOLEAN : RequestStart(resume)
    \/ StartShell
    \/ \E i \in Starts : \/ Spawn(i) \/ SpawnFails(i) \/ PrepareFails(i)
                         \/ ConfirmTrust(i)
                         \/ \E code \in {0, 1} : Exit(i, code)
                         \/ \E trust, prompt \in BOOLEAN : Output(i, trust, prompt)
    \/ PressEnter \/ StopTaskSession \/ MarkInterruptedAndStop
    \/ HookToReview \/ HookToInProgress
    \/ \E c \in DOMAIN captures : CaptureRef(c) \/ CaptureFails(c) \/ ApplyTurnCheckpoint(c)
    \/ \E t \in Turns : DeleteRef(t)
    \/ RecoverAndAttach \/ Detach \/ Tick

Spec == Init /\ [][Next]_vars

(***************************************************************************)
(* What the session promises.                                              *)
(***************************************************************************)

\* Unless two starts overlapped, a live process nobody has killed is the one
\* the entry manages: stop, input and shutdown reach it.
ManagedUnlessOverlapped ==
    seen.overlap \/ \A i \in Starts : proc[i].life = "live" => active = i

\* The prompt of an idle agent never takes a task out of review by itself:
\* the user has pressed Enter in this review.
ReviewLeftOnRequest ==
    [][(\E i \in Starts, trust, prompt \in BOOLEAN :
            Output(i, trust, prompt) /\ summary'.state # summary.state)
       => seen.entered]_vars

\* Unless a capture, a deletion and a restart overlapped, the checkpoints the
\* summary shows are those of consecutive turns and their refs are in git.
CheckpointsKept ==
    \/ seen.crossed
    \/ /\ \A cp \in {summary.latest, summary.prev} :
              cp.turn # 0 => refs[cp.turn] = cp.commit
       /\ summary.prev.turn # 0 => summary.latest.turn = summary.prev.turn + 1
==============================================================================
