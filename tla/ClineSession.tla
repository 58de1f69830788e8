---------------------------- MODULE ClineSession ----------------------------
(***************************************************************************)
(* One task of the native Cline agent: the service that keeps its entry    *)
(* (src/cline-sdk/cline-task-session-service.ts), the runtime that binds   *)
(* the task to a session of the SDK host (cline-session-runtime.ts), and   *)
(* the events of that session applied to the entry                         *)
(* (cline-event-adapter.ts).                                               *)
(*                                                                         *)
(* A start and a message answer at once and go on in the background, on    *)
(* the entry they were made for. A stop, an abort or a cancel waits for    *)
(* the host. What a session still reports is routed by the binding alone.  *)
(* Chat messages, tool bundles, modes and checkpoints are left out.        *)
(***************************************************************************)
EXTENDS Integers, Sequences, FiniteSets

CONSTANTS
    MaxCalls,       \* bound: calls of the user, one that crosses another counts
                    \* twice
    MaxWork,        \* bound: reports of turns that go on
    MaxFaults       \* bound: host calls, setups and turns that fail, and
                    \* restarts of the runtime process

ASSUME ClineAssumption == {MaxCalls, MaxWork, MaxFaults} \subseteq Nat

VARIABLES
    home,           \* the task is the home agent's chat
    entries,        \* the entries of the task so far; the last one is current
    bound,          \* sessionIdByTaskId: a session of the host, or 0
    last,           \* lastStartRequestByTaskId has the task
    canceling,      \* pendingTurnCancelTaskIds has the task
    setup,          \* runtimeSetupLeaseByWorkspacePath of the workspace
    calls,          \* what the user has called, with its background part
    host,           \* the sessions of the SDK host
    spent,          \* what the bounds count
    seen            \* history, read by the properties only

vars == <<home, entries, bound, last, canceling, setup, calls, host, spent, seen>>

Cur == Len(entries)
State == IF Cur = 0 THEN "none" ELSE entries[Cur].state
Entry(state, reason) == [state |-> state, reason |-> reason]
Sessions == DOMAIN host
Calls == DOMAIN calls

\* Work that is on its way: a call that does not just wait for the turn of its
\* prompt, or the abort that follows a credit limit.
Waiting == {"sending", "rejected", "refused", "over"}
InProgress ==
    \/ \E c \in Calls : calls[c].at \notin Waiting
    \/ \E s \in Sessions : host[s].abort # "none"

Fault == spent.faults > 0 /\ spent' = [spent EXCEPT !.faults = @ - 1]
Fine == UNCHANGED spent

Init ==
    /\ home \in BOOLEAN
    /\ entries = <<>> /\ bound = 0 /\ last = FALSE /\ canceling = FALSE /\ setup = "unknown"
    /\ calls = <<>> /\ host = <<>>
    /\ spent = [calls |-> MaxCalls, work |-> MaxWork, faults |-> MaxFaults]
    /\ seen = [crossed |-> FALSE, failed |-> FALSE, asked |-> FALSE, mixed |-> FALSE]

(***************************************************************************)
(* Entries and the binding.                                                *)
(***************************************************************************)
Patched(e, state, reason) == [entries EXCEPT ![e] = Entry(state, reason)]

CanReturnToRunning(reason) == reason \in {"attention", "hook", "error"}

\* Mutant: what failed in the background is not reported.
NotReported(e) == entries

\* emitTaskFailure, on the entry the call was made for.
Failed(e) == Patched(e, "awaiting_review", "error")

\* Mutant: the binding survives the end of the session.
StillBound(s) == bound

\* clearTaskSessionBinding.
Unbound(s) == IF bound = s THEN 0 ELSE bound

\* Mutant: bindTaskSession does not remove the route of the previous session.
EveryRoute(s) == TRUE

\* taskIdBySessionId has the sessions of sessionIdByTaskId and no others.
Routed(s) == s = bound

\* A call of the user with its background part; nothing is kept of one that is
\* over.
Call(op, at, entry, queue, prompt) ==
    [op |-> op, at |-> at, entry |-> entry, session |-> bound, queue |-> queue,
     prompt |-> prompt, own |-> FALSE, retried |-> FALSE]

Over == [op |-> "none", at |-> "over", entry |-> 0, session |-> 0, queue |-> FALSE,
         prompt |-> FALSE, own |-> FALSE, retried |-> FALSE]

Go(c, at) == calls' = [calls EXCEPT ![c] = IF at = "over" THEN Over ELSE [@ EXCEPT !.at = at]]

Snapshot == \E s \in Sessions : host[s].stored

(***************************************************************************)
(* The SDK host. mail: events it has emitted and the runtime has not yet   *)
(* handled.                                                                *)
(***************************************************************************)
Emitted(s, events) == [host EXCEPT ![s].mail = @ \o events]

\* The promises of the sends a session has accepted are settled.
Settled(s, at) ==
    [c \in Calls |->
        IF calls[c].at = "sending" /\ calls[c].session = s
        THEN IF at # "over" THEN [calls[c] EXCEPT !.at = at]
             ELSE IF calls[c].op = "reload" THEN [calls[c] EXCEPT !.at = "resolved"]
             ELSE Over
        ELSE calls[c]]

\* What a turn that goes on reports: text or a status, a tool that asks the
\* user, another tool, a credit limit.
HostWorks(s) ==
    /\ host[s].life = "busy" /\ spent.work > 0
    /\ spent' = [spent EXCEPT !.work = @ - 1]
    /\ \E event \in {"text", "status", "attention", "tool", "credit"} : host' = Emitted(s, <<event>>)
    /\ UNCHANGED <<home, entries, bound, last, canceling, setup, calls, seen>>

\* A turn ends, well or not, and the next prompt of the queue follows; or the
\* session ends with it; or the turn ends in an exception and no event.
HostEndsTurn(s) ==
    /\ host[s].life = "busy"
    /\ \/ /\ \E event \in {"done", "failed"} : host' =
              [host EXCEPT ![s].mail = Append(@, event),
                           ![s].life = IF host[s].queue > 0 THEN "busy" ELSE "idle",
                           ![s].queue = IF @ > 0 THEN @ - 1 ELSE 0]
          /\ calls' = IF host[s].queue > 0 THEN calls ELSE Settled(s, "over")
          /\ Fine
       \/ /\ Fault
          /\ \E events \in {<<"failed", "ended">>, <<"ended">>} : host' =
              [host EXCEPT ![s].mail = @ \o events, ![s].life = "ended", ![s].queue = 0]
          /\ calls' = Settled(s, "rejected")
       \/ /\ Fault
          /\ host' = [host EXCEPT ![s].life = "idle", ![s].queue = 0]
          /\ calls' = Settled(s, "rejected")
    /\ UNCHANGED <<home, entries, bound, last, canceling, setup, seen>>

\* host.send. Every session but an idle or a busy one is refused; a prompt for
\* a busy one waits in the queue, or is refused where no queue was asked for.
HostSends(c, s) ==
    \/ /\ host[s].life = "idle"
       /\ host' = [host EXCEPT ![s].life = "busy"]
       /\ calls' = [calls EXCEPT ![c].at = "sending", ![c].session = s, ![c].own = FALSE]
    \/ /\ host[s].life = "busy"
       /\ host' = [host EXCEPT ![s].queue = @ + 1]
       /\ calls' = [calls EXCEPT ![c].at = "sending", ![c].session = s, ![c].own = FALSE]
    \/ /\ host[s].life \in {"none", "ended"} \/ (host[s].life = "busy" /\ ~calls[c].queue)
       /\ host' = host
       /\ calls' = [calls EXCEPT ![c].at = "refused", ![c].session = s, ![c].own = FALSE]

\* host.stop ends the session; host.abort ends its turn and perhaps the session.
Stopped(x) ==
    CASE x.life \in {"none", "ended"} -> {x}
      [] x.life = "idle" -> {[x EXCEPT !.life = "ended", !.mail = Append(@, "ended")]}
      [] x.life = "busy" -> {[x EXCEPT !.life = "ended", !.queue = 0, !.mail = @ \o <<"aborted", end>>] :
                                end \in {"ended", "endedAbort"}}

Aborted(x) ==
    IF x.life # "busy" THEN {x}
    ELSE {[x EXCEPT !.life = "idle", !.queue = 0, !.mail = Append(@, turn)] :
             turn \in {"aborted", "runFailed"}}
         \cup {[x EXCEPT !.life = "ended", !.queue = 0, !.mail = @ \o <<turn, "endedAbort">>] :
             turn \in {"aborted", "runFailed"}}

(***************************************************************************)
(* handleSessionEvent and applyClineSessionEvent, on the current entry.    *)
(***************************************************************************)
Canceled == Entry("idle", "none")
Interrupted == Entry("interrupted", "interrupted")

\* The agent speaks or thinks.
Spoke(sum) == [sum EXCEPT !.state = "running"]

\* A tool that asks the user, or another one.
UsedTool(sum, asks) ==
    CASE asks /\ sum.state \in {"running", "idle"} -> Entry("awaiting_review", "hook")
      [] ~asks /\ CanReturnToRunning(sum.reason) -> Entry("running", "none")
      [] OTHER -> sum

\* The agent's turn is over.
TurnOver(how) ==
    CASE how = "done" -> Entry("awaiting_review", "hook")
      [] how = "failed" -> Entry("awaiting_review", "error")
      [] how = "aborted" -> IF canceling THEN Canceled ELSE Interrupted

\* The run has broken off, or a limit was hit.
RunFailed(limit) ==
    IF canceling /\ ~limit THEN Canceled ELSE Entry("awaiting_review", "error")

\* The session is over.
SessionOver(aborted) ==
    CASE ~aborted -> Entry("awaiting_review", "exit")
      [] aborted -> IF canceling THEN Canceled ELSE Interrupted

\* The host says that the session is running.
StatusRunning(sum) ==
    IF sum.state = "awaiting_review" /\ CanReturnToRunning(sum.reason) THEN sum
    ELSE [sum EXCEPT !.state = "running"]

Applied(sum, event) ==
    CASE event = "text" -> Spoke(sum)
      [] event = "status" -> StatusRunning(sum)
      [] event \in {"attention", "tool"} -> UsedTool(sum, event = "attention")
      [] event \in {"done", "failed", "aborted"} -> TurnOver(event)
      [] event \in {"runFailed", "credit"} -> RunFailed(event = "credit")
      [] event \in {"ended", "endedAbort"} -> SessionOver(event = "endedAbort")

EndsCancel(event) == event \in {"runFailed", "aborted", "endedAbort"}

HandleEvent(s) ==
    /\ host[s].mail # <<>>
    /\ LET event == Head(host[s].mail) IN
       IF Routed(s)
       THEN /\ host' = [host EXCEPT ![s].mail = Tail(@),
                                    ![s].abort = IF event = "credit" /\ Cur # 0 THEN "asked" ELSE @]
            /\ entries' = IF Cur = 0 THEN entries
                          ELSE [entries EXCEPT ![Cur] = Applied(@, event)]
            /\ canceling' = (canceling /\ ~(Cur # 0 /\ EndsCancel(event)))
            /\ bound' = IF event \in {"ended", "endedAbort"} THEN Unbound(s) ELSE bound
            /\ seen' = [seen EXCEPT !.mixed = @ \/ host[s].owner # Cur,
                                    !.asked = @ \/ event = "credit",
                                    !.crossed = @ \/ (event = "credit" /\ InProgress)]
       ELSE /\ host' = [host EXCEPT ![s].mail = <<>>]
            /\ UNCHANGED <<entries, canceling, bound, seen>>
    /\ UNCHANGED <<home, last, setup, calls, spent>>

\* The abort that follows a credit limit; nobody waits for it.
CreditAbort(s) ==
    /\ \/ /\ host[s].abort = "asked"
          /\ \E x \in Aborted(host[s]) : host' = [host EXCEPT ![s] = [x EXCEPT !.abort = "done"]]
          /\ \E at \in {"over", "refused"} : calls' = Settled(s, at)
          /\ bound' = bound
       \/ /\ host[s].abort = "done"
          /\ host' = [host EXCEPT ![s].abort = "none"]
          /\ bound' = Unbound(s)
          /\ calls' = calls
    /\ UNCHANGED <<home, entries, last, canceling, setup, spent, seen>>

(***************************************************************************)
(* The calls. One that comes while other work is on its way crosses it, and *)
(* so does a message tried once more while another one has a turn or after  *)
(* a later call, and a credit limit reported while a call is on its way.    *)
(***************************************************************************)
Arrives(call) ==
    /\ LET cost == IF InProgress THEN 2 ELSE 1 IN
       spent.calls >= cost /\ spent' = [spent EXCEPT !.calls = @ - cost]
    /\ calls' = Append(calls, call)

Calling(op, at, entry, queue, prompt, asked) ==
    /\ Arrives(Call(op, at, entry, queue, prompt))
    /\ seen' = [seen EXCEPT !.crossed = @ \/ InProgress, !.asked = asked]

Aside == UNCHANGED <<home, bound, last, setup, host>>

\* startTaskSession of a task.
StartTaskSession(prompt) ==
    /\ ~home /\ State \notin {"running", "awaiting_review"}
    /\ entries' = Append(entries, Entry(IF prompt THEN "running" ELSE "idle", "none"))
    /\ canceling' = FALSE
    /\ Calling("start", "setup", Cur + 1, FALSE, prompt, FALSE)
    /\ Aside

\* One restored from the trash, which reads what the host has stored before it
\* makes its entry. The page has stopped it before; the service does not look,
\* and a task at work counts as one whose session was not stopped.
AtRest == State \in {"none", "interrupted", "idle"}

RestoreTaskSession ==
    /\ ~home
    /\ Arrives(Call("restore", "hydrate", 0, FALSE, FALSE))
    /\ seen' = [seen EXCEPT !.crossed = @ \/ InProgress, !.asked = FALSE, !.failed = IF AtRest THEN @ ELSE TRUE]
    /\ UNCHANGED <<entries, canceling>> /\ Aside

\* The entry is made once the persisted history is read, or is not there.
\* "chat" is the home agent's: resumeFromPersistence.
Hydrate(c) ==
    /\ calls[c].at = "hydrate"
    /\ entries' = Append(entries, CASE calls[c].op = "restore" -> Entry("awaiting_review", "attention")
                                    [] calls[c].prompt -> Entry("running", "none")
                                    [] OTHER -> Entry("idle", "none"))
    /\ canceling' = FALSE
    /\ calls' = [calls EXCEPT ![c].at = "setup", ![c].entry = Cur + 1]
    /\ UNCHANGED <<spent, seen>> /\ Aside

Sendable == {"running", "awaiting_review", "idle", "failed"}

\* sendTaskSessionInput on an entry that takes input.
Accepted == Patched(Cur, "running", "none")

\* A message. Without an entry the task's is made from the persisted session;
\* the home agent's chat is started anew where there is nothing to restart.
SendMessage ==
    /\ \/ /\ State \in Sendable /\ ~(home /\ bound = 0 /\ ~last)
          /\ entries' = Accepted /\ canceling' = FALSE
          /\ Calling("send", "setup", Cur, State = "running", TRUE, FALSE)
       \/ /\ ~home /\ Cur = 0
          /\ Calling("send", "rebind", 0, FALSE, TRUE, FALSE)
          /\ UNCHANGED <<entries, canceling>>
       \/ /\ home /\ (State \notin Sendable \/ (bound = 0 /\ ~last))
          /\ Calling("chat", "hydrate", 0, FALSE, TRUE, FALSE)
          /\ canceling' = (canceling /\ State \notin Sendable)
          /\ UNCHANGED entries
    /\ Aside

\* rebindPersistedTaskSession, which leaves the session unbound, and what the
\* call does next.
Rebind(c) ==
    /\ calls[c].at = "rebind"
    /\ LET made == IF Cur = 0 THEN Append(entries, Entry("awaiting_review", "attention")) ELSE entries
           e == Len(made)
       IN  IF Cur = 0 /\ ~Snapshot THEN Go(c, "over") /\ UNCHANGED <<entries, canceling>>
           ELSE /\ canceling' = FALSE
                /\ IF calls[c].op = "send"
                   THEN IF made[e].state \in Sendable
                        THEN /\ entries' = [made EXCEPT ![e] = Entry("running", "none")]
                             /\ calls' = [calls EXCEPT ![c].at = "setup", ![c].entry = e,
                                                       ![c].queue = made[e].state = "running"]
                        ELSE entries' = made /\ Go(c, "over")
                   ELSE /\ entries' = made
                        /\ calls' = [calls EXCEPT ![c].at = "halt", ![c].entry = e, ![c].session = bound]
    /\ UNCHANGED <<spent, seen>> /\ Aside

\* stopTaskSession, abortTaskSession, cancelTaskTurn, reloadTaskSession and
\* clearTaskSession, up to the answer of the host.
StopTaskSession ==
    /\ ~home
    /\ Calling("stop", IF Cur = 0 THEN "rebind" ELSE "halt", Cur, FALSE, FALSE, TRUE)
    /\ canceling' = (canceling /\ Cur = 0)
    /\ UNCHANGED entries /\ Aside

AbortTaskSession ==
    /\ Cur # 0
    /\ Calling("abort", "halt", Cur, FALSE, FALSE, TRUE)
    /\ canceling' = FALSE
    /\ UNCHANGED entries /\ Aside

CancelTaskTurn ==
    /\ State = "running"
    /\ Calling("cancel", "halt", Cur, FALSE, FALSE, FALSE)
    /\ canceling' = TRUE
    /\ UNCHANGED entries /\ Aside

ReloadTaskSession ==
    /\ Calling("reload", IF Cur = 0 THEN "rebind" ELSE "halt", Cur, FALSE, FALSE, FALSE)
    /\ canceling' = (canceling /\ Cur = 0)
    /\ UNCHANGED entries /\ Aside

ClearTaskSession ==
    /\ Calling("clear", "halt", Cur, FALSE, FALSE, FALSE)
    /\ canceling' = FALSE
    /\ UNCHANGED entries /\ Aside

\* The host is asked to stop or to abort the session bound when the call came.
\* Where that fails the binding stays; a session the host does not know counts
\* as halted.
Outcomes(c, x) == IF calls[c].op \in {"stop", "reload", "send"} THEN Stopped(x) ELSE Aborted(x)

Halt(c) ==
    /\ calls[c].at = "halt"
    /\ LET s == calls[c].session IN
       \/ s = 0 /\ Go(c, "halted") /\ Fine /\ UNCHANGED <<host, seen>>
       \/ /\ s # 0 /\ Fine
          /\ \E x \in Outcomes(c, host[s]) : host' = [host EXCEPT ![s] = x]
          /\ \E at \in {"over", "refused"} : calls' = [Settled(s, at) EXCEPT ![c].at = "halted"]
          /\ UNCHANGED seen
       \/ /\ s # 0 /\ Fault /\ host[s].stored
          /\ calls' = [calls EXCEPT ![c].at = "halted", ![c].session = 0]
          /\ seen' = [seen EXCEPT !.failed = TRUE]
          /\ UNCHANGED host
    /\ UNCHANGED <<home, entries, bound, last, canceling, setup>>

\* clearTaskSession where the sessions of the task cannot be listed: nothing is
\* stopped or deleted, and an entry that was there is replaced all the same.
Emptied(c) == IF calls[c].entry = 0 THEN entries ELSE Append(entries, Entry("idle", "none"))

ClearFails(c) ==
    /\ calls[c].at = "halt" /\ calls[c].op = "clear"
    /\ Fault
    /\ entries' = Emptied(c) /\ Go(c, "over")
    /\ seen' = [seen EXCEPT !.failed = TRUE]
    /\ UNCHANGED <<home, bound, last, canceling, setup, host>>

Ending(c, changed) ==
    /\ entries' = changed /\ Go(c, "over")
    /\ bound' = Unbound(calls[c].session)
    /\ UNCHANGED host

\* A new session of the host is bound to the task before the host knows it.
Begins(c, e) ==
    /\ host' = Append(host, [life |-> "none", queue |-> 0, mail |-> <<>>, owner |-> e,
                             stored |-> FALSE, abort |-> "none"])
    /\ bound' = Len(host) + 1
    /\ calls' = [calls EXCEPT ![c].at = "starting", ![c].session = Len(host) + 1, ![c].own = TRUE]

\* The host has answered: the binding goes, and the entry of the call changes.
StopEnds(c) ==
    Ending(c, IF entries[calls[c].entry].state = "idle" THEN entries
              ELSE Patched(calls[c].entry, "interrupted", "interrupted"))

AbortEnds(c) == Ending(c, Patched(calls[c].entry, "interrupted", "interrupted"))

CancelEnds(c) == Ending(c, Patched(calls[c].entry, "idle", "none"))

\* clearTaskSession deletes every session of the task, whatever is bound, and
\* an entry that was there is replaced.
ClearEnds(c) ==
    /\ entries' = Emptied(c) /\ Go(c, "over")
    /\ bound' = 0
    /\ host' = [s \in Sessions |-> [host[s] EXCEPT !.stored = FALSE]]

\* A reload restarts the session; the home agent's chat is started anew.
ReloadGoesOn(c) ==
    /\ bound' = Unbound(calls[c].session)
    /\ IF bound' # 0 THEN HostSends(c, bound')
       ELSE /\ Go(c, IF home /\ ~last THEN "hydrate" ELSE "read")
            /\ UNCHANGED host
    /\ UNCHANGED entries

\* A message that overflowed the context is sent again to a new session.
RetryGoesOn(c) == Begins(c, calls[c].entry) /\ UNCHANGED entries

Halted(c) ==
    /\ calls[c].at = "halted"
    /\ CASE calls[c].op = "stop" -> StopEnds(c)
         [] calls[c].op = "abort" -> AbortEnds(c)
         [] calls[c].op = "cancel" -> CancelEnds(c)
         [] calls[c].op = "clear" -> ClearEnds(c)
         [] calls[c].op = "reload" -> ReloadGoesOn(c)
         [] calls[c].op = "send" -> RetryGoesOn(c)
    /\ UNCHANGED <<home, last, canceling, setup, spent, seen>>

(***************************************************************************)
(* The background of a start or of a message.                              *)
(***************************************************************************)
Fails(c) == entries' = Failed(calls[c].entry) /\ Go(c, "over")

\* dispatchResolvedTaskInput.
Dispatch(c) ==
    IF bound # 0 THEN HostSends(c, bound) /\ UNCHANGED entries
    ELSE Go(c, "read") /\ UNCHANGED <<host, entries>>

\* What a start leaves in lastStartRequestByTaskId.
Kept == TRUE

\* ensureRuntimeSetup keeps the promise of the first call, a rejected one too.
Setup(c) ==
    /\ calls[c].at = "setup"
    /\ \/ setup # "unknown" /\ setup' = setup /\ Fine
       \/ setup = "unknown" /\ setup' = "ready" /\ Fine
       \/ setup = "unknown" /\ setup' = "broken" /\ Fault
    /\ IF setup' = "broken" THEN Fails(c) /\ UNCHANGED <<bound, last, host>>
       ELSE IF calls[c].op = "send" THEN Dispatch(c) /\ UNCHANGED <<bound, last>>
       ELSE Begins(c, calls[c].entry) /\ last' = Kept /\ UNCHANGED entries
    /\ UNCHANGED <<home, canceling, seen>>

\* restartTaskSession, after the persisted history has been read: it wants the
\* configuration of an earlier start of this runtime.
Restart(c) ==
    /\ calls[c].at = "read"
    /\ \/ last /\ Begins(c, calls[c].entry) /\ UNCHANGED entries /\ Fine
       \/ ~last /\ Fails(c) /\ UNCHANGED <<bound, host>> /\ Fine
       \/ Fault /\ Fails(c) /\ UNCHANGED <<bound, host>>
    /\ UNCHANGED <<home, last, canceling, setup, seen>>

\* A reload that has come through leaves the task idle.
Reloaded(c) == IF calls[c].op = "reload" THEN Patched(calls[c].entry, "idle", "none") ELSE entries

\* host.start, with the bundle of tools before it; then the prompt is sent. Where
\* the host itself is not to be had, the binding made for the session stays.
HostStarts(c) ==
    /\ calls[c].at = "starting"
    /\ LET s == calls[c].session IN
       \/ /\ Fine
          /\ host' = [host EXCEPT ![s].life = IF calls[c].prompt THEN "busy" ELSE "idle", ![s].stored = TRUE]
          /\ bound' = s
          /\ Go(c, IF calls[c].prompt THEN "sending" ELSE "over")
          /\ entries' = IF calls[c].prompt THEN entries ELSE Reloaded(c)
       \/ /\ Fault
          /\ host' = host
          /\ bound' \in {Unbound(s), bound}
          /\ Fails(c)
    /\ UNCHANGED <<home, last, canceling, setup, seen>>

\* The promise of a send is rejected, after the host has delivered what it
\* reported of the turn. A call that started the session removes the binding;
\* a message that failed in its turn may be too long for the context, and is
\* then tried once more.
Rejected(c) ==
    /\ calls[c].at \in {"rejected", "refused"} /\ host[calls[c].session].mail = <<>>
    /\ LET unbound == IF calls[c].own THEN Unbound(calls[c].session) ELSE bound IN
       /\ bound' = unbound
       /\ \/ Fails(c) /\ seen' = seen
          \/ /\ calls[c].at = "rejected" /\ calls[c].op = "send" /\ ~calls[c].retried /\ Snapshot
             /\ calls' = [calls EXCEPT ![c].at = "halt", ![c].retried = TRUE, ![c].session = unbound]
             /\ seen' = [seen EXCEPT !.crossed = @ \/ \E d \in Calls \ {c} : d > c \/ calls[d].at # "over"]
             /\ UNCHANGED entries
    /\ UNCHANGED <<home, last, canceling, setup, host, spent>>

\* The empty prompt of a reload into a session that could not be stopped.
Resolved(c) ==
    /\ calls[c].at = "resolved"
    /\ entries' = Reloaded(c) /\ Go(c, "over")
    /\ UNCHANGED <<home, bound, last, canceling, setup, host, spent, seen>>

\* The runtime process is started again: what the host has stored is left.
RuntimeRestart ==
    /\ Fault
    /\ entries' = <<>> /\ bound' = 0 /\ last' = FALSE /\ canceling' = FALSE /\ setup' = "unknown"
    /\ calls' = [c \in Calls |-> Over]
    /\ host' = [s \in Sessions |-> [host[s] EXCEPT !.life = "ended", !.queue = 0, !.mail = <<>>,
                                                   !.abort = "none", !.owner = 0]]
    /\ seen' = [crossed |-> FALSE, failed |-> FALSE, asked |-> FALSE, mixed |-> FALSE]
    /\ UNCHANGED home

CallStep(c) ==
    \/ Hydrate(c) \/ Rebind(c) \/ Halt(c) \/ ClearFails(c) \/ Halted(c) \/ Setup(c) \/ Restart(c)
    \/ HostStarts(c) \/ Rejected(c) \/ Resolved(c)

UserCalls ==
    \/ \E prompt \in BOOLEAN : StartTaskSession(prompt)
    \/ RestoreTaskSession \/ SendMessage \/ StopTaskSession \/ AbortTaskSession
    \/ CancelTaskTurn \/ ReloadTaskSession \/ ClearTaskSession

Next ==
    \/ UserCalls \/ RuntimeRestart
    \/ \E c \in Calls : CallStep(c)
    \/ \E s \in Sessions : HostWorks(s) \/ HostEndsTurn(s) \/ HandleEvent(s) \/ CreditAbort(s)

\* The runtime's own steps are taken, a turn ends, and its events arrive.
Fairness ==
    /\ \A c \in 1 .. MaxCalls : WF_vars(c \in Calls /\ CallStep(c))
    /\ \A s \in 1 .. 2 * MaxCalls :
          /\ WF_vars(s \in Sessions /\ HostEndsTurn(s))
          /\ WF_vars(s \in Sessions /\ HandleEvent(s))
          /\ WF_vars(s \in Sessions /\ CreditAbort(s))

Spec == Init /\ [][Next]_vars /\ Fairness

(***************************************************************************)
(* What the service promises.                                              *)
(***************************************************************************)
\* Unless two calls crossed or a session that was to be stopped was not, no event
\* of a session reaches the entry of another conversation: what a session
\* stopped, aborted, cleared or replaced still reports never moves the task's
\* new one.
EventsStayWithTheirEntry == seen.mixed => seen.crossed \/ seen.failed

\* With the same exceptions, once the calls have returned a task is interrupted
\* only if it was stopped or aborted since its last prompt, by the user or at a
\* credit limit: a canceled turn leaves it able to go on, whatever the session
\* reports of the cancel and in whatever order.
InterruptedOnRequest ==
    (~InProgress /\ State = "interrupted") => seen.asked \/ seen.crossed \/ seen.failed

\* With the same exceptions, a task shown as running does not stay so: its turn
\* is reported as over, or what failed on the way is.
RunningSettles ==
    State = "running" ~> (State # "running" \/ seen.crossed \/ seen.failed)
=============================================================================
