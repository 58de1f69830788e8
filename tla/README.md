# AgentPatchCheck in TLA+

This directory specifies the concurrent and crash-prone core of AgentPatchCheck
and of the Kanban runtime it grew out of in TLA+, model-checks it with
TLC on small instances, and proves the central theorems with TLAPS for every
value of the constants.  Every definition is a translation of the TypeScript
under `src/src/`; `PROJECT.json` ("map") gives the lines.

    tlc -config MCHeadlessRun.cfg MCHeadlessRun      # check a module
    tlapm HeadlessRun_proofs.tla                     # check its proofs

## 1. The system

AgentPatchCheck runs a coding agent on a task in an isolated Git worktree,
verifies what it did, writes evidence and a verdict, and applies the patch to
the user's repository only after risk checks and, if need be, an approval.
Everything is a CLI process: several may name the same run, and any of them may
die at any point.  The Kanban runtime is a long-lived server that starts agents
in terminals or through an SDK, keeps a board per workspace and streams it to
browsers.

### Components of AgentPatchCheck (`src/src/agentpatchcheck/`)

| Component | State | Operations | Talks to |
|---|---|---|---|
| **Task execution** `execute.ts`, `task-finalization.ts`, `agent-adapter.ts` | finalization lock; evidence, assessment and finalization files; wall clock of the run | `executeAgentPatchCheck`: lock, read a completed finalization or execute, write three files, reread | worktree, adapter, verification, oracle, evidence |
| **Attempt loop** `harness-native-runtime.ts:452-607`, `attempt-controller.ts`, `public-verification-repair-policy.ts` | attempts of the runtime record (started, ended, reviewed) | start, resume, continue, repair, replay, review | runtime record, agent loop |
| **Agent loop** `harness-native-runtime.ts:1600-2439`, `runtime-events.ts`, `completion-controller.ts`, `protocol-recovery.ts`, `planner.ts`, `plan-executor.ts` | counters (iterations, tool calls, rejected calls, deferrals), events, plan state, completion obligation | model call, tool batch, planner call, finish, defer, recover, time out | provider, tools, record |
| **Nested calls** `harness-native-runtime.ts:1996-2290`, `programmatic-tool-runtime.ts`, `dsh-compatible-code-runtime.ts`, `programmatic-tool-facade.ts` | scheduler queues, reservations, ownership of changed files, checkpoints | submit, dispatch, reject, write, count, log, seal, reply, drain, terminate | worktree, record, budget |
| **Runtime record** `runtime-record.ts`, `mutation-patch.ts` | JSONL file: header, events, worktree checkpoints | open, append, resume check | worktree |
| **Resource ledger** `resource-ledger.ts` | none: a fold of the record | derive counters on resume | agent loop |
| **Workspace and bootstrap** `isolated-workspace.ts`, `execution-bootstrap*.ts` | registered worktrees, bootstrap cache | create, open, remove, bootstrap | git, task execution |
| **Evidence and assessment** `evidence-bundle.ts`, `assessment-report.ts`, `patch-verdict.ts`, `git-patch-verifier.ts` | files of a run | write, assess, list, show, audit | worktree |
| **Approval and apply** `approval.ts`, `apply-plan.ts`, `apply-recorded-patch.ts`, `risk-policy.ts`, `cleanup.ts`, `evidence-retention.ts` | approval history and record, the user's repository | plan, approve, reject, apply, clean up, retain | evidence files, repository |
| **Verification and oracle** `command-verifier.ts`, `hidden-oracle.ts`, `verification-*.ts` | none | run commands in the worktree | worktree |
| **Providers** `model-provider.ts`, `deepseek-*.ts`, `credential-resolver.ts` | none | render, call, parse | agent loop |
| **Other runtimes** `codex-runner.ts`, `cline-runtime-adapter.ts`, `windows-job-backend.ts` | a child process each | start, stop, confirm the end of the process tree | task execution |
| **Benchmarks** `benchmark-*.ts`, `generalization-*.ts`, `swebench-*.ts` | reports; Docker containers | run tasks one by one | task execution |

### Components of the Kanban runtime

| Component | State | Operations |
|---|---|---|
| **Locked file system** `fs/locked-file-system.ts` | lock directories | lock one or many in order, write atomically, take over a stale lock |
| **Terminal sessions** `terminal/session-manager.ts`, `session-state-machine.ts`, `pty-session.ts` | session state and review reason per task, the PTY, restart timers | start, stop, hook events, exit, auto-restart, stale recovery |
| **Terminal streaming** `terminal/ws-server.ts`, `terminal-state-mirror.ts` | per viewer: unacknowledged bytes, paused, restore pending | output, acknowledge, restore, resize |
| **State hub** `server/runtime-state-hub.ts`, `workspace-metadata-monitor.ts` | clients, pending broadcasts | connect, snapshot, broadcast, dispose |
| **Workspace state** `state/workspace-state.ts`, `core/task-board-mutations.ts` | board, sessions, revision | load, save with an expected revision, mutate, link tasks |
| **The page's board** `web-ui/src/hooks/use-workspace-{sync,persistence}.ts`, `runtime/use-runtime-state-stream.ts` | board, revision, a debounced save, a refresh | edit, save, apply a stream message, refetch |
| **The page's flows** `web-ui/src/hooks/use-{board-interactions,linked-backlog-task-actions,programmatic-card-moves,review-auto-actions}.ts`, `components/kanban-board.tsx`, `state/{board-state,drag-rules}.ts` | columns and links, the card being dragged, starts, restores and moves to done under way, timers of the automation | start, finish, restore, link, clear, follow the sessions, commit and finish automatically |
| **Task worktrees** `workspace/task-worktree.ts`, `turn-checkpoints.ts` | worktrees, saved patches | ensure, delete with a patch, restore, checkpoint |
| **Cline sessions** `cline-sdk/cline-task-session-service.ts`, `cline-session-runtime.ts`, `cline-message-repository.ts` | sessions, queued turns, messages | start, send, cancel, reload, apply events |
| **Server, shutdown, desktop** `server/*.ts`, `core/graceful-shutdown.ts`, `packages/desktop/src` | process lifecycles | start, attach, stop, restart after a crash |

### What is hard, and what makes each part correct

* *Several processes, one run id.*  Two commands at once, or one after a crash of
  another: the task must be executed by one of them at a time and have one
  result, which later commands are given.
* *Crashes between two writes.*  Evidence, assessment and finalization; a
  mutation and its checkpoint; the end of an attempt and its review.  What the
  next process makes of the half must be what the whole would have led to.
* *The deadline.*  It races the agent, its tools, its child processes and their
  clean-up; a late success is not a success, and a timeout is final.
* *A program calling tools concurrently.*  Budgets that are checked before and
  charged after an await; ordering of exclusive calls; calls under way when the
  program ends; a worktree written by the program, by its calls and by commands.
* *Files read twice.*  Apply and approve read the evidence, the assessment, the
  approval and the repository one after the other, without a lock.
* *Flows of the page.*  Starting, finishing and restoring a task are async functions
  that cross each other, the user's drags and what the sessions do by themselves.
* *Server state.*  Hooks, exits and restarts of sessions out of order; writers
  with stale board revisions; slow viewers; shutdown in the middle of it all.

The properties of sections 4 and 6 are what "correct" means for the parts
modelled so far; `PROJECT.json` ("hazards") lists the places where they could
fail, each at its line.

## 2. Plan

In the order of importance; a module is written so that it can be proved about
(constants with named assumptions, one action per operation, no `RECURSIVE`).

1. `HeadlessRun` with its abstract specification `RunOnce` — done, checked, proved.
2. `RunCode`: one run-code action — done, checked, proved.
3. `AgentLoop`: one attempt with its durable events — done, checked, proved.
4. `ApplyGate`: evidence, assessment, approval, apply, cleanup and retention as
   concurrent commands on one run — done, checked.
5. `TerminalSession` and `TerminalStream`: the agent's process, and its output on
   the way to the viewers — done, checked.
6. `BoardSync`: the composition of the workspace's files, their writers, the hub's
   stream and the page — done, checked.
7. `TaskWorktree` and `ClineSession` — done, checked.
8. `TaskBoard`: the flows of the board page with the sessions and worktrees they
   start and end — done, checked.
9. Proofs of the safety properties of `HeadlessRun`, `RunCode`, `AgentLoop`,
   `ApplyGate`, `TerminalSession`, `TerminalStream`, `BoardSync`, `TaskWorktree`,
   `ClineSession` and `TaskBoard` — done: every invariant a run checks is proved.
10. Then, as far as it is worth it: the lock of the file system, the shutdown of the
   server and the desktop's runtime child, the Docker environment of SWE-bench.

Composition: an attempt is one step of `HeadlessRun` with the outcomes that
`AgentLoop` produces; an action is one step of `AgentLoop` with the outcomes of
`RunCode`.  `BoardSync` composes four components that run in three programs.
`TerminalSession` and `TerminalStream` meet at the PTY, `TaskWorktree` and the
sessions at the directory an agent is started in: there each sees of the other
what it can observe (output and exits; an agent that works or is gone).  `TaskBoard`
composes the page with sessions and worktrees in the same way: a start, a stop, an
ensure and a delete are one step each there, with the outcomes that
`TerminalSession`, `ClineSession` and `TaskWorktree` give them.

## 3. The modules

| Module | Models | State in the code | Actions in the code |
|---|---|---|---|
| `HeadlessRun` | `executeAgentPatchCheck` by several processes, around the attempt loop | the variables named durable are the lock, the worktree path, the runtime record (attempts only) and three files; `mem[i]` is what the process holds | one action per await, `pc[i]` is where the function stands; `Crash` and `Throw` anywhere inside |
| `RunOnce` | what `HeadlessRun` promises: one result, committed once, given to all | — | — |
| `RunCode` | a `run-code` or `run_code` action with its nested calls | `calls[n]` is a nested call with its place in the scheduler and its result; `owned`, `envelope`, `lastMutation`, `obligation` are what the runtime and the record hold of it | the program submits, writes and ends; the scheduler starts or abandons; a call executes, is counted, logged, sealed, settled, replied; then drain, terminate, collect, record, seal |
| `AgentLoop` | `runHarnessNativeRuntime` for one attempt and the processes that resume it | `events` is the attempt's part of the record, `m` the local variables, `at` the await the function is in | one action per stretch of code between two awaits, except that the refusal of a batch is one per call (`RefuseNext`, `AllRefused`); `Write` makes what it appended durable, `Crash` any prefix of it |
| `ApplyGate` | the commands `assess`, `approve`, `reject`, `apply`, `cleanup` and `evidence-retention` on one run id, beside its executions and the user | one variable per file beside the evidence; `worktree` and `tree` say whose content is there; `cmd[c]` is what a command has read | one action per file read or written; `Crash` between two writes of a command |
| `TerminalSession` | one entry of `TerminalSessionManager`, a task's or the workspace shell's, and its turn checkpoints | `starts` are the calls in flight, `proc` the processes they spawned, `active` and `act` the entry's `ActiveProcessState`, `summary` what the board reads, `refs` the checkpoint refs in git | starts (preparing, spawning, failing), output with its prompts, exit with auto-restart, Enter, stop, hooks, stale recovery, the three steps of a checkpoint; a clock for the restart window |
| `TerminalStream` | `ws-server.ts` with the PTY on one side and browsers on the other | `view` is `TerminalViewerState` with its `IoOutputState`, `io`/`restore`/`up` are the sockets, `client` is the page | output of the PTY, batch flush, acknowledgement, resume check, restore, and connecting, losing and noticing each socket by itself |
| `BoardSync` | `workspace-state.ts` on disk, the server's and a command's writes, `runtime-state-hub.ts`, and the page's hooks | `boardFile`, `metaFile` and `lock` are the directory, `hub` and `stream` the WebSockets, `ui` the refs and timers of the page | a write is three steps under the lock, a read two without it; stream messages, refetches and save answers arrive in any order between them; hiding, reconnecting, losing an answer, a read that fails for a broadcast, a snapshot or a refetch, killing a command |
| `TaskWorktree` | `ensureTaskWorktreeIfDoesntExist` and `deleteTaskWorktree` | `tree` is the directory, `entry` the path's place in git's list and git's lock on it, `patches` the saved patches, `pc` where each call is | one action per await between two looks at the disk, two for the git commands that add and remove a worktree, as a death or another call may come between their beginning and their end; the agent's work and commits, the base branch, a failure of any git command, a death of the server |
| `ClineSession` | the task service, the session runtime and the event adapter | `entries` are the conversations of a task, `bound` its SDK session, `calls` the background part of each call, `host` the sessions with their turns and undelivered events | start, restore, message, stop, abort, cancel, reload, clear, rebind, the host's turns and events, credit abort, restart of the runtime |
| `TaskBoard` | the hooks and the board component that move cards, and what they ask of the server | `board` is columns and links, `flows` the async functions under way with the await each is at, `drag` the card in the air, `shown`/`changes` what the page was told, `armed`/`timer`/`moving` the refs of the automation | lift, drop and cancel of a drag; start, start all, done, restore, link, unlink, clear; each step of a flow; the effect that follows the sessions; the timers; the agents' turns |
| `HeadlessRun_proofs`, `RunCode_proofs`, `AgentLoop_proofs`, `ApplyGate_proofs`, `TaskWorktree_proofs`, `ClineSession_proofs` | — | — | theorems about the module named |
| `Terminal_proofs` | — | — | theorems about `TerminalSession` and `TerminalStream`, the two ends of one PTY; the two modules share no name |
| `Board_proofs` | — | — | theorems about `BoardSync` and `TaskBoard`, the board on its way and the page at work; these two share no name either |

The modules named `MC...` give the constants their values.
Definitions whose comment begins with "Mutant" are the plausible bugs each
property is tested against; no action refers to them.

*How the code's single thread is used.*  Node runs one callback at a time, so a
stretch without an await is one step.  `AgentLoop` splits the *effects* of such a
stretch, since `appendDurably` (runtime-record.ts:59) flushes each event before
the next line runs: after a crash the record holds any prefix of what the stretch
appended.  `RunCode` splits where nested calls await, and so do the modules of the
Kanban runtime: what one WebSocket message, timer or exit callback does up to its
first await is one action.

*Time.*  `HeadlessRun` counts ticks of the run's wall clock; in `RunCode` and
`AgentLoop` the deadline is an event that may come at any await.

*Identities.*  A worktree is known by a version in `AgentLoop` (a successful
mutation gives it a new one) and by the writer of each file in `RunCode`; a plan
by the kind of its step in progress, a tool call by the kind of its facts.  A board
is the set of the edits it contains, the terminal's output a sequence of numbered
chunks, the content of a task's worktree the set of the pieces of work in it.

*History variables* (`past`, `saved`, `answers`, `discarded`, `overlapped`,
`misled`, `missed`, `owed`, `crossed`, `mixed`, `failed`) record what a property needs to know of the past.  No guard reads them,
except that `BoardSync` finds in `saved` what a read should have returned.

## 4. What the runs check

| Run | Instance | States | Shows |
|---|---|---|---|
| `headless_run` | 3 invocations (symmetric), 2 attempts, timeout of 1 tick, 2 faults | 3.6 M | safety and refinement of `RunOnce` |
| `headless_run_liveness` | 2 invocations, 1 fault, fair | 0.2 M | `InvocationsSettle` |
| `run_code` | both presentations, 3 nested calls, 2 direct writes, 1 file, budget of 2 calls, 1 rejection, 2 in parallel, fair | 2.5 M | safety and `CompositionEnds` |
| `agent_loop` | four configurations (below), budgets of 2 calls, 1 correction, 1 deferral, 1 revision, 1 crash, fair | 1.0 M | safety and `AttemptEnds` |
| `apply_gate` | 2 commands at a time (symmetric), 3 in all, 2 versions of the evidence, 2 decisions, 1 crash or edit or commit | 2.8 M | safety |
| `terminal_session` | four scenarios (below) | 1.7 M | safety |
| `terminal_stream` | 2 viewers, 3 chunks, 2 lost sockets, high water mark 2, low 1, fair | 0.3 M | safety and `PausedResumes` |
| `board_sync` | 1 page and a command, 2 edits, 2 mishaps, fair | 2.0 M | safety and `VisiblePagesCatchUp` |
| `board_sync_conflict` | the same without mishaps | | section 6 |
| `task_worktree` | 2 calls at a time, 4 in all, 2 pieces of work, 1 commit of the base, 2 faults, 1 death | 4.3 M | safety |
| `cline_session` | 3 calls, 1 report of a turn that goes on, 1 fault, fair | 1.4 M | safety and `RunningSettles` |
| `task_board` | 2 tasks, the second linked to the first, which is in the backlog or under review and may be automated; 3 events, 2 flows beside the one begun, fair | 0.5 M | safety, `ColumnsFollowSessions`, `LinkedTasksStart` |

**Properties of a run** (`HeadlessRun`).  `OneInvocationInside`,
`FinalizationMatchesFiles` and `RunsOnce` say that commands which race, or follow
a crashed one, come to one result.  `AttemptRecordIsSound` is about the record of
attempts: each has an owner, none follows one that ended in a timeout, and a
process that was not interrupted stays within its bounds.  `SuccessIsCurrent` says
that a finalized success was verified after its last attempt.

**Properties of an action** (`RunCode`).  `CallsAreAccounted`: the budget holds
although it is checked before an await and charged after it, and the ledger a
resume would derive agrees with the counters.  `InSubmissionOrder` is about calls
that exclude each other.  `WorktreeIsKnown`: the record can be replayed and a
verification is owed where the worktree has changed; it names its exceptions,
which are the limits of comparing worktrees before and after.  `CompositionEnds`:
the action ends, and nothing works after its result.

**Properties of an attempt** (`AgentLoop`).  `BudgetsHold` is counted over the
record, not over the counters that guard it, so that it holds across resumptions;
so are the protocol recoveries.  `ResumeLosesNothing` compares what a process
remembers with what another would derive.  `FinishedIsVerified` ties a finish to
the worktree.  That the record is one `validateEvents` (runtime-events.ts:115)
accepts is part of `TypeOK`.

**Properties of the gate** (`ApplyGate`).  `AppliesAreSound` ties what an apply
writes to what its plan checked and to what somebody was shown who approved it,
and asks that a successful apply is whole.  Its first half is about applies that
begin on a finalized run; before that, nothing in `apply` or `approve` asks
whether the run is over, and the second reading of the evidence
(apply-recorded-patch.ts:117, cli.ts:362) may give another bundle.
`LatestDecisionCounts` is about the two files of a decision; it leaves out plans
made while a retention removes them, when a record left by a crash can outlive the
history.  `UserFilesSurvive` is about applies that race each other and the user;
an apply that *fails* may leave the tracked half of its patch behind, as the code
has no rollback.

**Properties of a terminal session** (`TerminalSession`).
`ManagedUnlessOverlapped`: every living process is the one that `stop`, input and
shutdown reach.  Two starts that overlap do break it (section 6), so the property
says "unless two starts overlapped", which is also the only way: an exit that is
reported late, an automatic restart, a stop during a restart and a stale recovery
do not.  `ReviewLeftOnRequest`: what an agent prints moves a task from review to
running only after the user has pressed Enter in that review.  `CheckpointsKept`:
the two checkpoints of the summary are those of consecutive turns and their refs
exist in git, unless a capture, a deletion and a restart overlapped.

**Properties of a stream** (`TerminalStream`).  `StreamIsExact`: snapshot, what was
held while it was under way, and what followed are together the PTY's output,
once and in order.  `PauseIsOwed`: a paused PTY has a viewer whose outstanding
output, or whose close, will release it.  `PausedResumes` is the liveness that
follows from it.

**Properties of the board** (`BoardSync`).  `OneBoardPerRevision`: a revision names
one board, whoever was killed half-way through the two files.
`StaleSavesAreRefused`: a save that is accepted contains every edit of the board it
replaces, whatever order answers, stream messages and refetches took.
`VisiblePagesCatchUp`: a page that is visible comes to show the newest board,
although the snapshot is read before the client is registered.  The last two leave out
a page that a conflict or a torn read has misled.  The last is about pages whose stream
has not broken, and leaves out a command killed before it told the server and a page
that has missed a read: its refetch failed, or the read for its snapshot or for a
broadcast did, and it has not fetched the state since.  The code repeats none of these
reads (section 6).

**Properties of a worktree** (`TaskWorktree`).  `WorkIsKept`: without failures and
with one delete at a time, uncommitted work survives the trash and back.
`EnsureLosesNothing`: an ensure never loses work, also when it overlaps another,
fails or follows a death; left out is the work of an agent that another ensure has let
in too early, into a checkout under way or a worktree whose preparation then fails.
`EnsureRecovers`: an ensure that has the lock or needs none, and whose git commands
succeed, ends with a whole worktree, whatever directory without HEAD and whatever entry
of git's list it finds, the half-removed ones a death leaves included.  It does not
hold where the code does not recover: a path that answers `rev-parse HEAD` and lacks
files, because a death cut a removal or a checkout short or another ensure is just
checking it out, is handed out by the fast path as it is; and an addition that died
has left an entry that git has locked as "initializing", which prune keeps and which
makes every later addition fail.  The property says that nothing else goes wrong, and
that these two need a death or, for the missing files, another ensure's checkout.

**Properties of a Cline session** (`ClineSession`).  `EventsStayWithTheirEntry`:
what an ended session still reports does not reach the next conversation.
`InterruptedOnRequest`: a task is shown as interrupted only if somebody asked for
it; a canceled turn can go on.  `RunningSettles`: a task does not stay "running"
for ever.  All three are about calls that do not cross: the service has no queue of
calls, and two that overlap can take each other's session.  They leave out sessions that
were to be stopped and were not: the host refused, the sessions of a task to be cleared
could not be listed, or a task was restored while it was at work.  A message that is
rejected in its turn is sent once more by itself, which crosses if another one has a
turn or another call has come by then.

**Properties of the page's flows** (`TaskBoard`).  `ColumnsFollowSessions`: a card
that is behind its session when the effect runs, or that is refused the drag because
another card has it, gets to its column; the slot's release has to be noticed for
that.  `LinkedTasksStart`: a task that waited for one that is moved to done is
started, by whichever of the five ways the move took, unless the user cancels a drag
that carries it.  `NoAgentForDoneTask`: when the flow that finished a task is over,
no agent works on it.  The first and the last leave out the two cards of a drop that
took one in another's place.  The last also leaves out a start that is under way as the
task is finished or beside another flow of the task, a task whose stop failed or was
lost (the page takes either for done), and one whose start or restore failed after its
session had begun: all of these do leave an agent at work (section 6).  What remains are
the ways a task gets to done (by hand, by the automation, by the effect that follows the
sessions, with or without an animation, by a failed restore) beside agents that end, work
on and are heard of late.

**Bounds, and why they are enough.**  Three invocations are one that works, one
that crashed and one that waits; a second fault is a crash in the recovery from
the first.  Two attempts are needed for a continuation and for a repair, and both
can happen again after a restart.  In `RunCode` three calls give a running, a
waiting and a refused one; with two places in the scheduler and a budget of two
each limit is met and exceeded; two direct writes are one before and one after a
nested call.  In `AgentLoop` the configurations are a planner with all kinds of
calls and two mixed batches, which no longer fit into the budget in the second
iteration; compositions under a planner; a repair with a record in memory; and
three iterations without a planner, in which a finish is put off and then refused,
or a worktree is changed, verified and found wanting.  Two equal results are enough
to be stuck.  The alternating pattern needs four results and does not occur.
In `ApplyGate` three commands are an approval, a rejection and an apply, or a
cleanup, a retention and one that meets them; the second version of the evidence is
the one of an execution that follows a crashed one.  The one patch has a tracked
and a new file and needs an approval: that is the path with every check on it.
The scenarios of `TerminalSession` are three starts with time enough for one
restart window to pass and one to be exceeded; two starts with prompts, where the
second can overlap the first; two starts over three turns, as a checkpoint replaces
the last but one; and three starts of a shell.  In `TerminalStream` the second
viewer is the one that has to wait for the first, three chunks pass a high water
mark of two, and two losses are one socket lost and lost again, or both sockets.
In `BoardSync` one edit makes a page stale and the second is the one that would
overwrite it; two mishaps are a lost answer with a page hidden at the same time, a
killed command with a broken stream, or two reads that fail one after the other.  In `TaskWorktree` four calls are a trash, a
restore, and the same again with a stored patch.  In `ClineSession` three calls are
a start, a stop and a message, with one fault between any two of them; a message sent
once more after a later abort needs four, and the theorems are about any number.
In `TaskBoard` two tasks are the one that has the drag and the one that is refused
it, or the one that is done and the one that waits for it, an agent in a terminal
and one in the SDK; three events are an order, a second that crosses it and what an
agent does or a failure brings between them.

**Fairness, and why the code justifies it.**  `HeadlessRun`: weak fairness of each
process, an asynchronous function that nothing else suspends; that an attempt ends
is `AttemptEnds`.  `RunCode`: the wall timer of the program, every nested call
(tools and commands have time limits of their own), and the promises of the
harness; none for the program, which may compute or wait for ever.  `AgentLoop`:
the process, except while it waits for an answer of the provider that has not been
aborted (the provider is given the signal, and rejects when it fires), and the
deadline, which is a timer.  The command that opens the record of a dead process
is not fair: nobody need start it.  `TerminalStream`: the event loop of the server
and of the page, the delivery of a socket that is up, and that the server notices
one that is down; nobody has to reconnect.  `BoardSync`: whatever server, streams
and page timers have to do; people and failures are bounded, so weak fairness of
the whole is enough for each part.  `ClineSession`: the steps of each call that the
runtime makes, the end of a turn and the delivery of its events; it assumes of the
SDK that what a turn reports is delivered before the rejection of its `send` is
handled.  `TaskBoard`: the effect runs when React was asked to run it,
a drag ends (an animation has an end, and a user lets go), and the flows under way
go on; agents, the automation's timers and news of a session need not come.
`CHECK_DEADLOCK FALSE` is right for all of
them: a run, an action and an attempt stop when they are over, commands when none
is started any more, and the Kanban modules when the bounded users and failures
have done what they do.

## 5. What is proved

Each theorem holds for every value of the constants that the named assumptions
allow: any number of processes, calls, viewers, pages, files, attempts, faults and
deaths.  `PROJECT.json` ("theorems") lists them.

| Module | Theorem | States |
|---|---|---|
| `HeadlessRun_proofs` | `Invariance`, `RecordInvariance` | `Spec => []IInv`, `Spec => []RecordInv` |
| | `TypeCorrect` | `Spec => []TypeOK` |
| | `MutualExclusion` | `Spec => []OneInvocationInside` |
| | `FinalizationIntegrity` | `Spec => []FinalizationMatchesFiles` |
| | `OneResult`, `Finality` | `Spec => []ReturnsDurableResult`, `Spec => FinalizationIsFinal` |
| | `Implementation` | `Spec => RunsOnce`, the refinement of `RunOnce` |
| | `RecordIsSound` | `Spec => []AttemptRecordIsSound` |
| | `SuccessIsLast` | `Spec => []SuccessIsCurrent` |
| `RunCode_proofs` | `Invariance`, `TypeCorrect` | `Spec => []IInv`, `Spec => []TypeOK` |
| | `Accounted` | `Spec => []CallsAreAccounted` |
| | `Ordered` | `Spec => []InSubmissionOrder` |
| | `Known` | `Spec => []WorktreeIsKnown` |
| `AgentLoop_proofs` | `LoopInvariance`, `LoopTypeCorrect` | `Spec => []LoopInv`, `Spec => []TypeOK` |
| | `BudgetsKept` | `Spec => []BudgetsHold` |
| | `NothingLost` | `Spec => []ResumeLosesNothing` |
| | `OnlyVerified` | `Spec => []FinishedIsVerified` |
| `ApplyGate_proofs` | `Invariance` | `Spec => []IInv` |
| | `AppliesSound` | `Spec => []AppliesAreSound` |
| | `LatestCounts` | `Spec => []LatestDecisionCounts` |
| | `FilesSurvive` | `Spec => UserFilesSurvive` |
| `Terminal_proofs` | `Invariance` | `Spec => []IInv` |
| | `Managed` | `Spec => []ManagedUnlessOverlapped` |
| | `Checkpoints` | `Spec => []CheckpointsKept` |
| | `ReviewEnds` | `Spec => ReviewLeftOnRequest` |
| | `StreamInvariance` | `StreamSpec => []StreamInv` |
| | `PauseOwed` | `StreamSpec => []PauseIsOwed` |
| | `ExactStream` | `StreamSpec => []StreamIsExact` |
| `Board_proofs` | `Invariance`, `TypeCorrect` | `Spec => []IInv`, `Spec => []TypeOK` |
| | `Revisioned` | `Spec => []OneBoardPerRevision` |
| | `SavesKeepEdits` | `Spec => StaleSavesAreRefused` |
| | `FlowsInvariance` | `FlowsSpec => []FlowsInv` |
| | `NoAgentForDone` | `FlowsSpec => []NoAgentForDoneTask` |
| `TaskWorktree_proofs` | `EnsureInvariance`, `Invariance` | `Spec => []EnsureInv`, `Spec => []IInv` |
| | `EnsureKeepsWork` | `Spec => EnsureLosesNothing` |
| | `EnsureSucceeds` | `Spec => EnsureRecovers` |
| | `RoundsKeepWork` | `Spec => []WorkIsKept` |
| `ClineSession_proofs` | `Invariance`, `TypeCorrect` | `Spec => []IInv`, `Spec => []TypeOK` |
| | `EventsStay` | `Spec => []EventsStayWithTheirEntry` |
| | `InterruptedAsked` | `Spec => []InterruptedOnRequest` |

`OneResult` and `Finality` state two properties that no run lists by themselves, as
`RunsOnce` is checked there.

*The assumptions* are those of the modules.  The policy's numbers and the bounds are
in their ranges (`PolicyAssumption`, `BoundsAssumption`, `WorktreeAssumption` and
their like), patches and scenarios are of the shape the code gives them
(`GateAssumption`, `SessionAssumption`), and the values that mean "nothing" are none
of the data: no file, no process, no patch (`NoneAssumption`, `NoPatchAssumption`),
as `null` is not in TypeScript.  Two proofs need sets to be finite:
that of `RunCode`, whose calls are finite by the bound, and that of `TaskBoard`, whose
tasks are (`BoardAssumption`), as a board is a file.

*How the proofs are laid out.*  The invariant is a conjunction of named parts, each
of which is a comment's worth of the code's reasoning.  Where every actor has the
same part (`Own(q)`, `ViewerInv(v)`, `CommandInv(c)`) a step of one is split into
what it does to its own part and a relation (`Evolves`, `Moves`) that says what it
may do to what the others rely on; one lemma shows that the others keep theirs under
that relation, and each action is one lemma that shows the rest.  The invariants were
checked by TLC on the instances of the runs before they were proved.

*The argument, module by module.*

`HeadlessRun`.  None of the four safety properties is inductive.  That two
invocations are never inside follows from who holds the lock, so `LockHeld` (who
is inside holds it) is added; it survives a takeover because a lock is only taken
over from a process that has crashed, which is not inside.  That the finalization
matches the files on disk needs `FilesInOrder`: past the first read nobody works
on a finalized run, and whoever is about to write a file has written those before
it.  That every answer is the durable result needs `AnswersHaveAResult`.  Their
conjunction with `TypeOK` is `IInv`.  `StepType`, `StepLock`, `StepFiles` and
`StepAnswers` show each conjunct to be preserved, action by action; `StepShape`
reduces the many actions that neither touch the lock nor the files to one case.
The refinement maps `pc` to `RunOnce`'s status and the finalization, with the two
files it refers to, to its outcome; `StepOnce` shows every step to be one of
`RunOnce` or a stutter, using `IInv` (an outcome is committed only when there is
none, and the files of a committed one stay).
The attempts need more, as they are read by a process that may have died since:
`RecordInv` adds where the invocation that is inside stands between its attempt and
the review (`Stand`: open while it attempts, closed while it reviews, a success
verified after the last attempt before anything of it is written), and that the
record of a run only one process has touched is within the bounds that process
counts in its memory (`Bound`).  A resumption starts from the record alone, which is
why `ReviewsFit` and `AttemptsHaveAnOwner` speak of every record, also a dead one's.

`RunCode`.  The budget is checked when a call is submitted and charged when it has
returned, so `BudgetReserved` counts the calls that are yet to be charged; that the
record's ledger is the counters (`Ledger`) holds at every step, although the log is
written after the count, because the ledger is read from the calls' results.  Order
among exclusive calls follows from `PendingLast`, what waits in the program comes
after what the scheduler has.  What is known of the worktree is split by the
presentation: with nested mutations `TreeIsSealed` names the call whose checkpoint
is the worktree, with a program `Found` ties what the action looked at to what is
there, which stays so because no call is under way by then (`Closed`).

`AgentLoop`.  A process that is resumed knows the record and nothing else, so the
invariant is about the record first.  `Digest` is all that the runtime derives from
one: the calls made and answered, the counts of the ledger, the plan that a replay
ends with, the obligation.  `Accepts` says which event may follow a record with a
given digest, and `Consistent` and `Settled` what such a record then satisfies.
`Kept` asks this of *every prefix*, because any prefix that holds what was durable may
be all that a crash leaves, and adds that the worktree is the one the record tells of
wherever the attempt may be resumed: that holds because a tool's result is appended
when the worktree has changed, and a dispatched call without a result stops a
resumption.  `Lives` ties the memory of the process, stage by stage, to the digest of
what it has appended.  From `Consistent` follow the budgets, from `Settled` that only
a verified worktree is finished, from `Lives` that a resumption loses nothing, as
`Restored` is a function of the digest (the lemmas before `OpenInv`).  `DigestAppend`
computes the digest of a record with one more event from the old one; each action is
then a sequence of such events.  The digest has two folds over the record in it.
Their values for every length cannot be had by the library's induction theorems (see
below), but one step of a fold can: `FoldOf` describes the function `FoldLeft` iterates,
and that it exists, with the operator applied once more for an event more, follows
from there being no least length at which it does not.

`ApplyGate`.  A command decides on files it read one by one.  What of that still
holds is: a bundle is known by its number (`Numbered`), so that a report or an
approval of that number is about that bundle; a passing report says that the bundle
was verified (`Reported`); once a run is finalized nothing but a removal changes its
evidence (`Finalized`, `ReadFinal`), so that the second reading is the first or
fails; what goes past the plan is what the plan asked for (`PlanHeld`); the history
only grows until a retention begins (`Evolves`), so that what was its last entry
stays an entry after the one the command began at (`ReadLatest`), and the record is
one of them (`RecordFollows`), which is what the order of the two writes is for.
That an apply is whole is `Wrote`; others keep it because a file that is not as at
the base commit is only written by the user.

`TerminalSession`.  All callbacks of a process read the one active entry, so what
they do is right as long as the active process is the one that called.  `Alone` says
so unless two starts overlapped, and needs the summary to show an agent at work
while there is one, since that is what a second start looks at.  `InTurn` is the same
for checkpoints: one capture at a time, for the turn after the latest, and no ref
that is being deleted is shown.  `EnterIsOwn` gives `ReviewLeftOnRequest`.

`TerminalStream`.  `InOrder` and `Exact` say where each chunk is: shown, on the
socket, in the batch, or held, and in that order; until a restore no chunk is sent.
`Outstanding` says that what a viewer has not acknowledged is on one of its sockets,
from which follows that its pause will be released.  Both speak of sockets that one
end may have lost without the other's knowledge (`SocketsAgree`).

`BoardSync`.  Nobody who holds a revision need hold its board, but if the revision is
the newest, it has all of it (`Has`); this is what `PageIsWhole` says of a page, of
the save it has asked for and of the answer on its way.  A save in the section was
accepted for the newest revision, which stays the newest until it is written, as the
section has the lock (`Section`).  A killed command leaves board and meta of
different revisions on disk; a reader of that is misled, and the property exempts it.

`TaskWorktree`.  An ensure makes a worktree only after it has found none under its
lock (`MakesNew`), and a delete needs no lock but is alone unless something overlaps
it (`Solitary`).  That is enough for `EnsureLosesNothing`, also
after faults and deaths.  For `EnsureRecovers` the invariant follows the path and the
entry through an addition: the entry is locked only while an ensure is `adding` or after
a death; a path with files missing is one that is being added, that is being removed by
a call in flight, or that a death has left.  So an ensure that finds HEAD finds a whole
worktree but for the two exceptions of the property, and one that finds none removes and
prunes whatever else is there.  `RoundsKeepWork` needs where the work is at each step of a
round (`CalmState`): what is to be removed is in the patch, what a patch holds beside
a worktree is in the worktree or done with.

`ClineSession`.  The properties leave out calls that cross and sessions that were to be
stopped and were not, so the invariant is that of a `Clean` run, in which neither has
happened; outside of one `IInv` says no more than the types.  In a clean run all
calls but the latest are over or only wait for the end of a turn (`OneAtATime`), and
the latest is about the current conversation (`LatestIsCurrent`).  A session that is
bound belongs to that conversation, or has nothing to report any more and is about to
be replaced (`BoundToCurrent`, `QuietAtRest`, `NewSession`); a session that is no longer bound is routed nowhere, so
no event is mixed up.  An entry is interrupted by an order or by one of three events,
and while such an event is on its way it was asked for or the turn was canceled
(`BadIsMeant`, `CancelIsOver`).  A cancel must not outlive its turn for that:
`LiveTurn` says that the entry shows its turn while a prompt is on its way.

`TaskBoard`.  A step that takes a card to done must know that its session is down or
will be stopped, so `FlowsInv` says who holds a live session (`LiveIsHeld`): a card at
work or under review, a start that has begun it and is to answer for it, or a flow
that moved the card to done and has yet to stop it.  The moves are then safe for
different reasons.  A start whose card went ahead of its session takes the card back
when it fails; that is harmless as such a start is the only one of its task and has
found no session to lose (`OneStart`, `AheadIsDown`).  The effect moves a card to
done quietly, with no flow to stop anything, when its session was shown as
interrupted; a live session is shown so only while a start is to be answered
(`ToldOf`), and a card on such a drag has no start and no live session
(`QuietIsDown`).  These speak of tasks whose flows did not cross, whose card was
not taken in another's place, and of which no stop failed and no answer of a begun
session was lost (`Clear`): what is remembered of each step says that a start of
any other task is alone and its card not done (`Alone`).  Most steps leave most tasks
alone (`Calm`), so a lemma about an action shows what it does to one task and that it
is calm for the others.  That a card is in one column (`Tidy`) rests on lemmas about
columns and about moving many cards one after another, `FoldOf` again.

*Only model-checked*: all liveness and ENABLED, which the proof system does not
reach; the restart stamps of `TerminalSession` (`SelectSeq` is recursive), which
its type invariant leaves out and on which no proved property depends.

## 6. Where code and documentation disagree

One disagreement is a run that ends in a counterexample; `PROJECT.json`
("findings") quotes the lines.

* `ConflictSyncsThePage` (use-workspace-persistence.ts:130): after a refused save
  the page stores the revision of the refusal before it fetches the state, and then
  ignores the fetched board because it has that revision already.  It goes on
  showing the stale board, and its next save overwrites the other's edit, where the
  message shown promises the latest state (App.tsx:463).

Observed while modelling, without a run.  In AgentPatchCheck:

* A run restarted after its repair repairs again (execute.ts:230;
  docs/harness-native-benchmark-suite.md:110 allows one).
* A repair that times out is verified and judged all the same (execute.ts:212;
  docs/formal-runtime-contract.md:93).
* Without a scheduler a verification runs beside a mutation
  (harness-native-runtime.ts:2178; programmatic-tool-facade.ts:343).
* A malformed nested call ends the process instead of rejecting the call
  (dsh-compatible-code-runtime.ts:303, 340; programmatic-tool-facade.ts:342).
* With a durable record a repair is attempt 2 or later and is started as a
  continuation, so it may finish without a verification
  (harness-native-runtime.ts:554;
  src/test/agentpatchcheck/harness-native-headless.e2e.test.ts:625).
* After a composition the replay of a plan counts steps the loop does not, so the
  active step of a resumed attempt may differ (plan-executor.ts:28, 38).
* A crash between the creation of the worktree and of the record leaves a path that
  blocks its run id (isolated-workspace.ts:88).
* `maxRejectedToolCalls` is tested after single results only
  (harness-native-runtime.ts:1986), so a refused batch may exceed it.
* `maxAttempts` is counted from the last recorded attempt on a resume
  (harness-native-runtime.ts:486), so restarts can add attempts.
* Each process has the whole wall budget again (agent-adapter.ts:29), where
  docs/formal-runtime-contract.md:129-130 speaks of one budget.
* A mutation under way at the deadline gets no checkpoint
  (harness-native-runtime.ts:2280), so a restart may turn a recorded timeout into a
  failure (docs/formal-runtime-contract.md:131-132).
* A nested call that is reserved and then rejected by its tool can end the attempt
  as `tool-limit` with budget left (harness-native-runtime.ts:2074;
  docs/harness-native-benchmark-suite.md:161-162).
* After a graceful end of its host a program's subprocess may go on
  (dsh-compatible-code-runtime.ts:399; docs/formal-runtime-contract.md:70-72).
* `assess` on a finalized run, step 3 of the recommended flow
  (docs/agentpatchcheck-headless-core.md:84), replaces the report the finalization
  record hashes (assessment-report.ts:68), so the run can no longer be replayed
  (task-finalization.ts:119).  After `cleanup` the new report is a failure, as the
  worktree is gone (git-patch-verifier.ts:111).
* An accepted finish whose `attempt-ended` was not written before a crash is asked
  for again, and is an `iteration-limit` when it came in the last iteration.

In the terminal bridge and sessions:

* Two overlapping starts leave a process nobody manages, and the exit of one clears
  the other's entry; a stop while a launch is prepared is lost; a start right after
  a stop is answered with the session that is ending.
* A late `to_in_progress` hook after an exit with an error shows "running" without
  a process.
* Sessions that were interrupted are restarted automatically
  (session-manager.ts:982-1000; CHANGELOG.md:353).
* Two captures of one turn use the same ref.
* A page that reconnects only one of its two sockets repeats or misses output; a
  control socket lost with acknowledgements unsent keeps the PTY paused for all
  viewers; output held for a viewer whose io socket never opens is not bounded; a
  process restarted under backpressure is not paused again.

On the board:

* A read of the two files takes no lock, so it may give the old board with the new
  revision; the answer to an older save, when late, moves the page's revision back.
* An edit made after a hydration, while a save is under way, is not saved.
* A refetch that fails shows its error and is not repeated
  (use-workspace-sync.ts:154-162), also when it was to repair a conflict; a state that
  cannot be read for a broadcast is not sent, and "next update will resync" only if
  there is one (runtime-state-hub.ts:321-323); a snapshot that cannot be put together
  leaves the page with an open socket that is registered for nothing (475-484).  Each
  leaves a visible page with an unbroken stream as it was until something else happens.
* A command killed before it notifies the server leaves the pages as they are.
* At shutdown interrupted sessions are saved without an expected revision
  (shutdown-coordinator.ts:60-95).

Of the page's flows (file names in `web-ui/src/`):

* A start does not look at the card again after it has waited for the slot, the
  worktree or the session (hooks/use-board-interactions.ts:293-369, 400-411), so an
  agent may start for a task that is done by then; a failed restore may send a card
  to done that another start has made live.
* A move to done that waits is carried out whatever column the card is in by then
  (`_fromColumnId`, hooks/use-linked-backlog-task-actions.ts:185): an automatic one
  may finish a task that is running again.
* A drop moves the card that is at the index the dragged one had when it was lifted
  (state/board-state.ts:435-436).  If sessions or flows have moved cards meanwhile,
  another card goes to done with its agent left running, and two cards can push each
  other back and forth between review and in progress.
* A task restored while its move to done is still cleaning up has its new session
  stopped and its worktree removed (hooks/use-linked-backlog-task-actions.ts:169-170);
  in the SDK the late "interrupted" then takes the card to done again, without its flow.
* A stop that answers `ok: false` or is lost is taken for done
  (hooks/use-task-sessions.ts:189-202): the worktree is deleted under an agent that works
  on, with its task in done.
* A start or restore whose answer is lost counts as failed although its session has begun
  (hooks/use-task-sessions.ts:181-187); a restored card goes back to done with its agent
  at work (hooks/use-board-interactions.ts:579-592).
* A failed start takes the card back to the backlog, but not the link that was
  turned round when it left (hooks/use-board-interactions.ts:305-311).
* An interrupted task goes to done without starting the tasks that waited for it
  (hooks/use-board-interactions.ts:475-500); a cancelled animation strands them too.
* A card moved to in progress after its session has begun to wait for review stays
  there until something is heard of its session.
* A task with several prerequisites is started after the first of them, and the user
  can start it before any, although "Tasks with uncompleted dependencies can no longer
  be started" (CHANGELOG.md:376).
* The command that moves a task to done stops at the first linked task that fails to
  start, and leaves the worktree (src/commands/task.ts:850-859).

Of worktrees:

* A second delete of a task whose worktree is gone deletes its saved patch; a
  restore whose patch does not apply, followed by a delete, replaces it; a patch
  that cannot be captured does not stop the removal.
* A death between the creation of the worktree and the application of the patch
  leaves a worktree without it, which the next delete takes for the whole work
  (CHANGELOG.md:387 speaks of work that is kept).
* The fast path takes no lock and asks for HEAD only, so it hands out a worktree that is
  being removed, checked out or prepared, and one that a death has left with files
  missing, for good; what an agent writes into a checkout under way may be overwritten.
  An ensure that waits more than five seconds for the lock fails.
* A death inside `git worktree add` leaves an entry locked as "initializing".  Prune keeps
  it and a single `--force` removes no locked worktree (git-worktree's documentation), so
  once the path is gone every ensure of the task fails (task-worktree.ts:511-532), also
  after the task was deleted and restored.
* Commits of the agent on the detached head are not part of a patch.

Of Cline sessions:

* After a restart of the runtime a message to a task that is bound again always
  fails (cline-session-runtime.ts:289-292;
  src/test/runtime/cline-sdk/cline-task-session-service.test.ts:1058).
* "Rebind first so stop() can target..." (cline-task-session-service.ts:466), but a
  rebind binds nothing.
* A stop, cancel or abort while the session is being started is lost; an abort at
  the credit limit shows "interrupted", refuses messages and races the user's next
  one; a setup that was rejected stays cached (859-868); two quick messages after
  the end of a session start two.
* A restore does not look at the state of the task (cline-task-session-service.ts:320-346),
  so one that is at work has its session replaced without being stopped; a task whose
  sessions cannot be listed is cleared and stays bound to a session that goes on
  (cline-session-runtime.ts:383-386); a host that cannot be had leaves the requested
  session bound (201).
* A message that the host rejects in its turn is compacted and sent once more also
  when the user has aborted or canceled the turn in the meantime.

## 7. What is not modelled, and why

* In `HeadlessRun`: the content of evidence and verdicts and the inside of bootstrap, verification and oracle, which are outcomes.
* In `RunCode`: the language subset and the output limits of the program.
* In `AgentLoop`: an append that fails (it is seen as a crash by the record),
  `plan-execution-updated` events and execution ids (only the texts of prompts,
  continuations and evidence are derived from them), token and time accounting, shell and todo calls, the texts of prompts,
  observations and projections, and changes of the worktree outside recorded
  mutations (`RunCode` has them).  A composition has at most one nested call
  there.  Earlier attempts of the record are left out: an attempt that finished
  leaves no obligation, and a repair follows one that finished.  A composition that was
  aborted after a nested call was recorded is in `RunCode` only, and so is a worktree that
  a refused or failed tool has changed: the batch mutation whose second file is refused
  (harness-native-runtime.ts:1308-1331) keeps its first one in the code, and nothing that
  `AgentLoop` states tells such a worktree from an unchanged one, as the code does not.
* In `ApplyGate`: paths and their checks (one run id, its own repository), the rules
  that turn file names into risk findings, the age of evidence and the benchmark
  reports that refer to it (both are choices), and commands that only read.  A run
  is what it writes.  A file of the repository is untouched, the user's, or as a
  bundle has it, so a patch that git could apply beside an edit elsewhere in the same file
  counts as refused; medium and high risk, which need an approval alike
  (risk-policy.ts:186), are one flag; a git process is one step.
* In `TerminalSession`: how each agent's command line is built, what its screen looks
  like (that a prompt is on it is a choice), activity previews, resizes and input
  other than Enter.
* In `TerminalStream`: sizes and batching delays (a chunk is one unit), the content of
  the mirror, and the size of the terminal.  The snapshot is taken in one
  step although the code awaits the mirror's queue (terminal-state-mirror.ts:58): what the
  PTY prints during that await queues up behind it, so it is not in the snapshot and is
  held for the viewer like all that follows.
* In `BoardSync`: what an edit changes on the board, sessions and git metadata that
  ride along with it, several workspaces, and the project list.
* In `TaskWorktree`: the files mirrored into a worktree and its submodules, which are
  prepared or fail; the lock is one that is held, free or left by a dead process.
* In `ClineSession`: messages and their texts, tool bundles, modes, images, providers
  and accounts.
* In `TaskBoard`: the user does not order what a flow of the task is already doing;
  the page is told of a session only when its state has changed, and of a worktree's
  changes only for automated tasks under review; a process exits as soon as it is
  stopped, and is not restarted automatically (`TerminalSession` has both).  A start may
  fail before its session has begun or after, but not before with the server beginning
  it later, when the page has given up.  That a drag cannot
  be had is a choice, and that the drag library keeps the index of the lift is an
  assumption about that library.  The user's own commit button and the `task`
  commands change the board the same way and are left out.
* Providers, prompt rendering, parsing and policies are pure functions or network
  calls; their answers are inputs.
* The benchmark drivers run one task after another around `HeadlessRun`.  The rest
  of the web UI, the console, settings, scripts and the Windows job helper show,
  configure or package what is modelled.
  `PROJECT.json` ("components") lists every part with its reason.
