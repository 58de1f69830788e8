------------------------- MODULE ClineSession_proofs -------------------------
(***************************************************************************)
(* Proofs about module ClineSession, for any number of calls, reports and  *)
(* failures.                                                               *)
(*                                                                         *)
(* As long as no two calls crossed and every session that was to be        *)
(* stopped was, the call in progress is the latest one, and what the task  *)
(* is bound to belongs to its latest conversation or is quiet and about to *)
(* be replaced.                                                            *)
(***************************************************************************)
EXTENDS ClineSession, TLAPS

\* The stages of a call, the kinds of calls, the events of a session, and what
\* an entry shows.
Ats == {"setup", "hydrate", "rebind", "halt", "halted", "read", "starting", "resolved",
        "sending", "rejected", "refused", "over"}
Ops == {"start", "restore", "chat", "send", "stop", "abort", "cancel", "reload", "clear", "none"}
Events == {"text", "status", "attention", "tool", "credit", "done", "failed", "ended",
           "aborted", "endedAbort", "runFailed"}
States == {"running", "idle", "awaiting_review", "interrupted"}
Reasons == {"none", "hook", "error", "exit", "interrupted", "attention"}

\* Entries, calls, sessions and the history.
EntryType == [state : States, reason : Reasons]
CallType == [op : Ops, at : Ats, entry : Nat, session : Nat, queue : BOOLEAN,
             prompt : BOOLEAN, own : BOOLEAN, retried : BOOLEAN]
SessionType == [life : {"none", "idle", "busy", "ended"}, queue : Nat, mail : Seq(Events),
                owner : Nat, stored : BOOLEAN, abort : {"none", "asked", "done"}]
SeenType == [crossed : BOOLEAN, failed : BOOLEAN, asked : BOOLEAN, mixed : BOOLEAN]

\* A call waits for the host to stop or to abort its session.
Halting == {"halt", "halted"}

\* What a call does at a stage is known by what it is.
Fits(x) ==
  /\ x.at \in Halting => x.op \in {"stop", "abort", "cancel", "reload", "clear", "send"}
  /\ x.at = "rebind" => x.op \in {"stop", "reload", "send"}
  /\ x.at = "hydrate" => x.op \in {"restore", "chat", "reload"}
  /\ x.op = "send" => x.prompt
  /\ x.op = "reload" => ~x.prompt
  /\ x.op = "clear" => x.at \in Halting
  /\ x.at = "starting" => x.session # 0

TypeOK ==
  /\ home \in BOOLEAN /\ last \in BOOLEAN /\ canceling \in BOOLEAN
  /\ setup \in {"unknown", "ready", "broken"}
  /\ entries \in Seq(EntryType)
  /\ calls \in Seq(CallType)
  /\ host \in Seq(SessionType)
  /\ bound \in 0 .. Len(host)
  /\ \A c \in Calls : calls[c].session \in 0 .. Len(host) /\ Fits(calls[c])
  /\ seen \in SeenType

------------------------------------------------------------------------------
(***************************************************************************)
(* The steps change one call, one session and one entry, or add one.       *)
(***************************************************************************)
\* The latest call of the user.
Latest == IF calls = <<>> THEN Over ELSE calls[Len(calls)]

\* Call c is now x; x is a new call.
Becomes(c, x) ==
  /\ calls' \in Seq(CallType) /\ Len(calls') = Len(calls) /\ Calls' = Calls
  /\ calls'[c] = x
  /\ \A d \in Calls : d # c => calls'[d] = calls[d]
  /\ Latest' = IF c = Len(calls) THEN x ELSE Latest

Added(x) ==
  /\ calls' \in Seq(CallType) /\ Len(calls') = Len(calls) + 1
  /\ Calls' = Calls \cup {Len(calls) + 1}
  /\ calls'[Len(calls) + 1] = x
  /\ \A d \in Calls : d # Len(calls) + 1 /\ calls'[d] = calls[d]
  /\ Latest' = x

\* One call is replaced.
LEMMA CallBecomes ==
  ASSUME calls \in Seq(CallType), NEW c \in Calls, NEW x \in CallType,
         calls' = [calls EXCEPT ![c] = x]
  PROVE  Becomes(c, x)
<1>1. /\ calls' \in Seq(CallType) /\ Len(calls') = Len(calls)
      /\ calls'[c] = x /\ \A d \in Calls : d # c => calls'[d] = calls[d]
  BY DEF Calls
<1>2. Calls' = Calls
  BY <1>1 DEF Calls
<1>3. calls # <<>> /\ calls' # <<>> /\ Len(calls) \in Calls
  BY <1>1 DEF Calls
<1> QED
  BY <1>1, <1>2, <1>3 DEF Becomes, Latest

\* A call is appended.
LEMMA CallAdded ==
  ASSUME calls \in Seq(CallType), NEW x \in CallType, calls' = Append(calls, x)
  PROVE  Added(x)
<1>1. /\ calls' \in Seq(CallType) /\ Len(calls') = Len(calls) + 1
      /\ calls'[Len(calls) + 1] = x
      /\ \A d \in Calls : d # Len(calls) + 1 /\ calls'[d] = calls[d]
  BY DEF Calls
<1>2. Calls' = Calls \cup {Len(calls) + 1}
  BY <1>1 DEF Calls
<1>3. calls' # <<>>
  BY <1>1
<1> QED
  BY <1>1, <1>2, <1>3 DEF Added, Latest

\* Session s is now x; x is a new session.
Turns(s, x) ==
  /\ host' \in Seq(SessionType) /\ Len(host') = Len(host) /\ Sessions' = Sessions
  /\ host'[s] = x
  /\ \A t \in Sessions : t # s => host'[t] = host[t]

Opened(x) ==
  /\ host' \in Seq(SessionType) /\ Len(host') = Len(host) + 1
  /\ Sessions' = Sessions \cup {Len(host) + 1}
  /\ host'[Len(host) + 1] = x
  /\ \A t \in Sessions : t # Len(host) + 1 /\ host'[t] = host[t]

\* One session is replaced.
LEMMA SessionTurns ==
  ASSUME host \in Seq(SessionType), NEW s \in Sessions, NEW x \in SessionType,
         host' = [host EXCEPT ![s] = x]
  PROVE  Turns(s, x)
<1>1. /\ host' \in Seq(SessionType) /\ Len(host') = Len(host)
      /\ host'[s] = x /\ \A t \in Sessions : t # s => host'[t] = host[t]
  BY DEF Sessions
<1> QED
  BY <1>1 DEF Turns, Sessions

\* A session is appended.
LEMMA SessionOpened ==
  ASSUME host \in Seq(SessionType), NEW x \in SessionType, host' = Append(host, x)
  PROVE  Opened(x)
<1>1. /\ host' \in Seq(SessionType) /\ Len(host') = Len(host) + 1
      /\ host'[Len(host) + 1] = x
      /\ \A t \in Sessions : t # Len(host) + 1 /\ host'[t] = host[t]
  BY DEF Sessions
<1> QED
  BY <1>1 DEF Opened, Sessions

\* A session the host has made is a session.
LEMMA SessionTyped ==
  ASSUME host \in Seq(SessionType), NEW s \in Sessions
  PROVE  host[s] \in SessionType /\ Len(host) \in Nat /\ Sessions = 1 .. Len(host)
  BY DEF Sessions

\* The fields of a session.
LEMMA SessionFields ==
  ASSUME NEW x \in SessionType
  PROVE  /\ x.life \in {"none", "idle", "busy", "ended"} /\ x.abort \in {"none", "asked", "done"}
         /\ x.queue \in Nat /\ x.owner \in Nat /\ x.stored \in BOOLEAN
         /\ x.mail \in Seq(Events)
  BY DEF SessionType

\* The current entry is number n and in this state.
Shows(n, state) ==
  /\ entries' \in Seq(EntryType) /\ Len(entries') = n
  /\ Cur' = n /\ State' = state

\* A patch changes what the task shows if it is one of the current entry.
LEMMA EntryPatched ==
  ASSUME entries \in Seq(EntryType), NEW e \in Nat, NEW state \in States, NEW reason \in Reasons,
         entries' = Patched(e, state, reason)
  PROVE  Shows(Cur, IF e = Cur /\ Cur # 0 THEN state ELSE State)
<1>1. Entry(state, reason) \in EntryType /\ Entry(state, reason).state = state
  BY DEF Entry, EntryType
<1> DEFINE z == Entry(state, reason)
<1> HIDE DEF z
<1>2. entries' \in Seq(EntryType) /\ Len(entries') = Len(entries)
      /\ \A i \in DOMAIN entries : entries'[i] = IF i = e THEN z ELSE entries[i]
  <2>1. entries' = [entries EXCEPT ![e] = z] /\ z \in EntryType
    BY <1>1 DEF Patched, z
  <2>2. CASE e \in DOMAIN entries
    BY <2>1, <2>2
  <2>3. CASE e \notin DOMAIN entries
    <3>1. entries = [i \in DOMAIN entries |-> entries[i]]
      OBVIOUS
    <3>2. entries' = [i \in DOMAIN entries |-> IF i = e THEN z ELSE entries[i]]
      BY <2>1, Zenon
    <3>3. entries' = [i \in DOMAIN entries |-> entries[i]]
      BY <2>3, <3>2
    <3>4. entries' = entries
      BY <3>1, <3>3
    <3> QED
      BY <2>3, <3>4
  <2> QED
    BY <2>2, <2>3
<1>3. \A i \in DOMAIN entries : entries'[i] = IF i = e THEN Entry(state, reason) ELSE entries[i]
  BY <1>2 DEF z
<1>4. Len(entries) # 0 => Len(entries) \in DOMAIN entries
  OBVIOUS
<1> QED
  BY <1>1, <1>2, <1>3, <1>4 DEF Shows, Cur, State

\* A new entry is the current one.
LEMMA EntryAdded ==
  ASSUME entries \in Seq(EntryType), NEW state \in States, NEW reason \in Reasons,
         entries' = Append(entries, Entry(state, reason))
  PROVE  Shows(Cur + 1, state)
<1>1. Entry(state, reason) \in EntryType /\ Entry(state, reason).state = state
  BY DEF Entry, EntryType
<1>2. entries' \in Seq(EntryType) /\ Len(entries') = Len(entries) + 1
      /\ entries'[Len(entries) + 1] = Entry(state, reason) /\ Len(entries) \in Nat
  BY <1>1
<1> QED
  BY <1>1, <1>2 DEF Shows, Cur, State

\* Where no entry changes, the task shows what it did.
LEMMA EntryStays ==
  ASSUME entries \in Seq(EntryType), entries' = entries
  PROVE  Shows(Cur, State)
  BY DEF Shows, Cur, State
------------------------------------------------------------------------------
(***************************************************************************)
(* The invariant.                                                          *)
(***************************************************************************)
\* No two calls crossed, and every session that was to be stopped was.
Clean == ~seen.crossed /\ ~seen.failed

\* The task has a turn, or the user has its result.
Live == {"running", "awaiting_review"}

\* What a session that was stopped or aborted says of it.
BadIn(mail) == \E i \in DOMAIN mail : mail[i] \in {"aborted", "endedAbort", "runFailed"}

\* Nothing comes of the session any more.
Quiet(s) == host[s].mail = <<>> /\ host[s].life # "busy" /\ host[s].abort = "none"

\* The latest call is in progress.
Active == Latest.at \notin Waiting

\* A message that failed in its turn is tried once more.
Retrying == Latest.op = "send" /\ Latest.at \in Halting

\* The call in progress is the latest one.
OneAtATime == \A c \in Calls : calls[c].at \notin Waiting => c = Len(calls)

\* A reload never sends its empty prompt: its session is gone by then.
NoReloadSent ==
  \A c \in Calls : calls[c].at # "resolved" /\ ~(calls[c].op = "reload" /\ calls[c].at = "sending")

\* The latest call is made for the current entry.
LatestIsCurrent ==
  /\ Latest.at \notin {"over", "hydrate", "rebind"} => Latest.entry = Cur
  /\ Latest.at = "rebind" => Cur = 0
  /\ Latest.at \notin {"over", "hydrate", "rebind"} /\ Latest.op # "clear" => Cur # 0

\* A message that is tried once more has been marked so.
RetriesOnce ==
  /\ Retrying => Latest.retried
  /\ Latest.retried /\ Active => Latest.op = "send" /\ Latest.at \in {"halt", "halted", "starting"}

\* A credit limit ends a turn only while no call is in progress.
NoAbortMeanwhile == Active /\ ~Latest.retried => \A s \in Sessions : host[s].abort = "none"

\* A task without an entry has no session.
NoEntry == Cur = 0 => bound = 0 /\ ~canceling

\* What is bound or sent has gone through the setup of the runtime.
IsReady ==
  /\ bound # 0 \/ last => setup = "ready"
  /\ \A c \in Calls :
        calls[c].at \in {"sending", "rejected", "starting"} \/ (calls[c].at \in Halting /\ calls[c].op = "send") =>
          setup = "ready"

\* The latest call is about to replace what is bound.
Replacing == Latest.at = "setup" /\ Latest.op # "send"

\* The task is bound to its current conversation, or to a quiet session that is
\* about to be replaced.
BoundToCurrent == bound # 0 => host[bound].owner = Cur \/ (Replacing /\ Quiet(bound))

\* A task that is neither running nor in review is bound to a quiet session, ...
QuietAtRest ==
  bound # 0 /\ ~Active /\ host[bound].abort = "none" /\ State \notin Live => Quiet(bound)

\* ... as is one whose new entry is about to be made.
QuietHydrate == bound # 0 /\ Latest.at = "hydrate" => Quiet(bound)

\* An abort that is still to be handled belongs to the call that waits for it.
BadIsMeant ==
  bound # 0 /\ BadIn(host[bound].mail) => host[bound].abort = "done" \/ Latest.at = "halted"

\* A call knows the session that is bound, if there is one.
BoundOrGone == Latest.at \in Halting \cup {"sending", "rejected"} => bound \in {0, Latest.session}

\* A session that is being started is bound, and nobody else knows it.
NewSession ==
  Latest.at = "starting" =>
    /\ bound # 0 /\ bound = Latest.session /\ Quiet(bound) /\ host[bound].life = "none"
    /\ \A c \in Calls : c # Len(calls) => calls[c].session # Latest.session

\* A cancel is under way, or has left nothing bound.
CancelIsOver ==
  canceling => \/ Latest.at \in {"over", "hydrate"} /\ bound = 0
               \/ Latest.op = "cancel" /\ Latest.at \in Halting

\* The prompt of the latest call is on its way.
Prompted ==
  \/ Latest.at \in {"setup", "read", "starting"} /\ Latest.prompt
  \/ Latest.at \in {"sending", "rejected"}
  \/ Retrying

\* The entry is live while a prompt is on its way.
LiveTurn == Prompted => State \in Live

\* Nobody has stopped the session a prompt was sent to.
Undisturbed ==
  Latest.session # 0 =>
    /\ Latest.at \in {"sending", "rejected"} \/ Retrying => ~BadIn(host[Latest.session].mail)
    /\ Latest.at = "rejected" \/ Retrying => host[Latest.session].life # "busy"

\* What was asked for.
Asked ==
  /\ \A s \in Sessions : host[s].abort # "none" => seen.asked
  /\ Latest.op \in {"stop", "abort"} /\ Latest.at \in {"rebind", "halt", "halted"} => seen.asked

\* The latest call is about to change what the task shows.
Changing ==
  \/ Latest.op \in {"restore", "chat"} /\ Latest.at = "hydrate"
  \/ Latest.op \in {"cancel", "clear"} /\ Latest.at \in Halting
  \/ Latest.op = "reload" /\ Latest.at \in {"halt", "halted", "read", "starting", "hydrate"}

\* A task is interrupted because it was asked for, or not for long.
StopsAreAsked == State = "interrupted" => seen.asked \/ Changing

\* The parts of the invariant: calls, binding, entry.
CallsInv == OneAtATime /\ NoReloadSent /\ LatestIsCurrent /\ RetriesOnce /\ NoAbortMeanwhile
BindingInv ==
  /\ NoEntry /\ IsReady /\ BoundToCurrent /\ QuietAtRest /\ QuietHydrate
  /\ BadIsMeant /\ BoundOrGone /\ NewSession
EntryInv == CancelIsOver /\ LiveTurn /\ Undisturbed /\ Asked /\ StopsAreAsked

\* While nothing has crossed, no event has reached another conversation.
Inv == CallsInv /\ BindingInv /\ EntryInv /\ ~seen.mixed

IInv == TypeOK /\ (Clean => Inv)
------------------------------------------------------------------------------
(***************************************************************************)
(* Lemmas about mail and settled calls.                                    *)
(***************************************************************************)
\* An event is appended to the mail of a session.
LEMMA MailAppended ==
  ASSUME NEW mail \in Seq(Events), NEW e \in Events
  PROVE  /\ Append(mail, e) = mail \o <<e>>
         /\ mail \o <<e>> \in Seq(Events)
         /\ BadIn(mail \o <<e>>) <=> BadIn(mail) \/ e \in {"aborted", "endedAbort", "runFailed"}
<1> DEFINE new == mail \o <<e>>
<1>1. /\ Append(mail, e) = new
      /\ new \in Seq(Events) /\ Len(new) = Len(mail) + 1
      /\ new[Len(mail) + 1] = e
      /\ \A i \in 1 .. Len(mail) : new[i] = mail[i]
      /\ Len(mail) \in Nat
  OBVIOUS
<1> HIDE DEF new
<1>2. DOMAIN new = DOMAIN mail \cup {Len(mail) + 1}
  BY <1>1
<1>3. BadIn(new) <=> BadIn(mail) \/ e \in {"aborted", "endedAbort", "runFailed"}
  BY <1>1, <1>2 DEF BadIn
<1> QED
  BY <1>1, <1>3 DEF new

\* Two events are appended to the mail of a session.
LEMMA MailAppendedTwo ==
  ASSUME NEW mail \in Seq(Events), NEW d \in Events, NEW e \in Events
  PROVE  /\ mail \o <<d, e>> \in Seq(Events)
         /\ BadIn(mail \o <<d, e>>) <=> BadIn(mail) \/ d \in {"aborted", "endedAbort", "runFailed"}
                                                    \/ e \in {"aborted", "endedAbort", "runFailed"}
<1> DEFINE new == mail \o <<d, e>>
<1>1. /\ new \in Seq(Events) /\ Len(new) = Len(mail) + 2
      /\ new[Len(mail) + 1] = d /\ new[Len(mail) + 2] = e
      /\ \A i \in 1 .. Len(mail) : new[i] = mail[i]
      /\ Len(mail) \in Nat
  OBVIOUS
<1> HIDE DEF new
<1>2. DOMAIN new = DOMAIN mail \cup {Len(mail) + 1, Len(mail) + 2}
  BY <1>1
<1>3. BadIn(new) <=> BadIn(mail) \/ d \in {"aborted", "endedAbort", "runFailed"}
                                \/ e \in {"aborted", "endedAbort", "runFailed"}
  BY <1>1, <1>2 DEF BadIn
<1> QED
  BY <1>1, <1>3 DEF new

\* The first event of the mail is taken from it.
LEMMA MailHandled ==
  ASSUME NEW mail \in Seq(Events), mail # <<>>
  PROVE  /\ Head(mail) \in Events /\ Tail(mail) \in Seq(Events)
         /\ BadIn(mail) <=> Head(mail) \in {"aborted", "endedAbort", "runFailed"} \/ BadIn(Tail(mail))
<1>1. /\ Head(mail) = mail[1] /\ Head(mail) \in Events
      /\ Tail(mail) \in Seq(Events) /\ Len(Tail(mail)) = Len(mail) - 1
      /\ \A i \in 1 .. Len(mail) - 1 : Tail(mail)[i] = mail[i + 1]
      /\ Len(mail) \in Nat /\ Len(mail) > 0
  OBVIOUS
<1> DEFINE tail == Tail(mail)
<1> HIDE DEF tail
<1>2. /\ tail \in Seq(Events) /\ Len(tail) = Len(mail) - 1
      /\ \A i \in 1 .. Len(mail) - 1 : tail[i] = mail[i + 1]
  BY <1>1 DEF tail
<1>3. ASSUME BadIn(mail)
      PROVE  mail[1] \in {"aborted", "endedAbort", "runFailed"} \/ BadIn(tail)
  <2>1. PICK i \in DOMAIN mail : mail[i] \in {"aborted", "endedAbort", "runFailed"}
    BY <1>3 DEF BadIn
  <2>2. CASE i = 1
    BY <2>1, <2>2
  <2>3. CASE i # 1
    <3>1. i - 1 \in DOMAIN tail /\ tail[i - 1] = mail[i]
      BY <1>1, <1>2, <2>3
    <3> QED
      BY <2>1, <3>1 DEF BadIn
  <2> QED
    BY <2>2, <2>3
<1>4. ASSUME BadIn(tail)
      PROVE  BadIn(mail)
  <2>1. PICK i \in DOMAIN tail : tail[i] \in {"aborted", "endedAbort", "runFailed"}
    BY <1>4 DEF BadIn
  <2>2. i + 1 \in DOMAIN mail /\ mail[i + 1] = tail[i]
    BY <1>1, <1>2
  <2> QED
    BY <2>1, <2>2 DEF BadIn
<1>5. ASSUME mail[1] \in {"aborted", "endedAbort", "runFailed"}
      PROVE  BadIn(mail)
  <2>1. 1 \in DOMAIN mail
    BY <1>1
  <2> QED
    BY <1>5, <2>1 DEF BadIn
<1> QED
  BY <1>1, <1>3, <1>4, <1>5 DEF tail

\* A call whose send is settled.
Then(x, at) ==
  IF at # "over" THEN [x EXCEPT !.at = at]
  ELSE IF x.op = "reload" THEN [x EXCEPT !.at = "resolved"] ELSE Over

Settling(s, at) ==
  /\ calls' \in Seq(CallType) /\ Len(calls') = Len(calls) /\ Calls' = Calls
  /\ \A c \in Calls : calls'[c] = IF calls[c].at = "sending" /\ calls[c].session = s
                                  THEN Then(calls[c], at) ELSE calls[c]
  /\ Latest' = IF Latest.at = "sending" /\ Latest.session = s THEN Then(Latest, at) ELSE Latest

\* What is left of a call that is over is a call.
LEMMA OverIsCall == Over \in CallType /\ Over.at = "over" /\ Over.session = 0 /\ ~Over.retried
  BY DEF Over, CallType, Ops, Ats

\* Settled calls are calls, one for one.
LEMMA SettledSeq ==
  ASSUME calls \in Seq(CallType), NEW s, NEW at \in {"over", "rejected", "refused"},
         NEW z, z = Settled(s, at)
  PROVE  /\ z \in Seq(CallType) /\ Len(z) = Len(calls) /\ DOMAIN z = Calls
         /\ \A c \in Calls : z[c] = IF calls[c].at = "sending" /\ calls[c].session = s
                                   THEN Then(calls[c], at) ELSE calls[c]
<1> DEFINE new(c) == IF calls[c].at = "sending" /\ calls[c].session = s
                     THEN Then(calls[c], at) ELSE calls[c]
<1>1. \A c \in Calls : calls[c] \in CallType
  BY DEF Calls
<1>2. \A c \in Calls : new(c) \in CallType
  BY <1>1, OverIsCall DEF Then, CallType, Ats
<1>3. z = [c \in Calls |-> new(c)]
  BY DEF Settled, Then
<1> HIDE DEF new
<1>4. Calls = 1 .. Len(calls) /\ Len(calls) \in Nat
  BY DEF Calls
<1>5. z \in Seq(CallType) /\ Len(z) = Len(calls) /\ DOMAIN z = Calls
      /\ \A c \in Calls : z[c] = new(c)
  BY <1>2, <1>3, <1>4
<1> QED
  BY <1>5 DEF new

\* The sends of a session are settled.
LEMMA SettledSettles ==
  ASSUME calls \in Seq(CallType), NEW s, NEW at \in {"over", "rejected", "refused"},
         calls' = Settled(s, at)
  PROVE  Settling(s, at)
<1>1. /\ calls' \in Seq(CallType) /\ Len(calls') = Len(calls) /\ Calls' = Calls
      /\ \A c \in Calls : calls'[c] = IF calls[c].at = "sending" /\ calls[c].session = s
                                      THEN Then(calls[c], at) ELSE calls[c]
  BY SettledSeq DEF Calls
<1>2. Latest' = IF Latest.at = "sending" /\ Latest.session = s THEN Then(Latest, at) ELSE Latest
  <2>1. CASE calls = <<>>
    <3>1. calls' = <<>>
      BY <1>1, <2>1
    <3> QED
      BY <2>1, <3>1, OverIsCall DEF Latest
  <2>2. CASE calls # <<>>
    <3>1. Len(calls) \in Calls /\ calls' # <<>>
      BY <1>1, <2>2 DEF Calls
    <3> QED
      BY <1>1, <2>2, <3>1 DEF Latest
  <2> QED
    BY <2>1, <2>2
<1> QED
  BY <1>1, <1>2 DEF Settling
------------------------------------------------------------------------------
(***************************************************************************)
(* The sessions of the host report.                                        *)
(***************************************************************************)
\* Session s goes on as x, which says nothing bad; calls may be settled.
Goes(s, x) ==
  /\ x.owner = host[s].owner /\ x.abort = host[s].abort /\ host[s].life = "busy"
  /\ BadIn(x.mail) => BadIn(host[s].mail)
  /\ Turns(s, x)
  /\ calls' = calls \/ \E at \in {"over", "rejected"} : x.life # "busy" /\ Settling(s, at)

Reports(s) ==
  /\ \E x \in SessionType : Goes(s, x)
  /\ UNCHANGED <<home, entries, bound, last, canceling, setup, seen>>

\* A turn that goes on reports.
LEMMA HostWorksReports ==
  ASSUME TypeOK, NEW s \in Sessions, HostWorks(s)
  PROVE  Reports(s)
<1>1. PICK event \in {"text", "status", "attention", "tool", "credit"} :
         host' = Emitted(s, <<event>>)
  BY DEF HostWorks
<1> DEFINE x == [host[s] EXCEPT !.mail = @ \o <<event>>]
<1>2. host[s] \in SessionType /\ host[s].mail \in Seq(Events) /\ event \in Events
  BY SessionTyped, SessionFields DEF TypeOK, Events
<1>3. host[s].mail \o <<event>> \in Seq(Events)
      /\ (BadIn(host[s].mail \o <<event>>) => BadIn(host[s].mail))
  BY <1>2, MailAppended
<1>4. x \in SessionType /\ x.owner = host[s].owner /\ x.abort = host[s].abort
      /\ x.mail = host[s].mail \o <<event>>
  BY <1>2, <1>3 DEF SessionType
<1>5. host' = [host EXCEPT ![s] = x]
  BY <1>1 DEF Emitted
<1> HIDE DEF x
<1>6. Turns(s, x)
  BY <1>4, <1>5, SessionTurns DEF TypeOK
<1>7. host[s].life = "busy" /\ calls' = calls
      /\ UNCHANGED <<home, entries, bound, last, canceling, setup, seen>>
  BY DEF HostWorks
<1> QED
  BY <1>3, <1>4, <1>6, <1>7 DEF Reports, Goes

\* A turn that ends reports, and settles its sends.
LEMMA HostEndsTurnReports ==
  ASSUME TypeOK, NEW s \in Sessions, HostEndsTurn(s)
  PROVE  Reports(s)
<1>1. /\ host[s] \in SessionType /\ host[s].mail \in Seq(Events) /\ calls \in Seq(CallType)
      /\ host \in Seq(SessionType) /\ host[s].queue \in Nat
  BY SessionTyped, SessionFields DEF TypeOK
<1>2. host[s].life = "busy" /\ UNCHANGED <<home, entries, bound, last, canceling, setup, seen>>
  BY DEF HostEndsTurn
<1>3. ASSUME NEW event \in {"done", "failed"},
             host' = [host EXCEPT ![s].mail = Append(@, event),
                                  ![s].life = IF host[s].queue > 0 THEN "busy" ELSE "idle",
                                  ![s].queue = IF @ > 0 THEN @ - 1 ELSE 0],
             calls' = IF host[s].queue > 0 THEN calls ELSE Settled(s, "over")
      PROVE  Reports(s)
  <2> DEFINE x == [host[s] EXCEPT !.mail = Append(@, event),
                                  !.life = IF host[s].queue > 0 THEN "busy" ELSE "idle",
                                  !.queue = IF @ > 0 THEN @ - 1 ELSE 0]
  <2>1. Append(host[s].mail, event) \in Seq(Events)
        /\ (BadIn(Append(host[s].mail, event)) => BadIn(host[s].mail))
    <3>1. event \in Events
      BY DEF Events
    <3> QED
      BY <1>1, <3>1, MailAppended
  <2> DEFINE y == host[s]
             queue == IF y.queue > 0 THEN y.queue - 1 ELSE 0
             life == IF y.queue > 0 THEN "busy" ELSE "idle"
             mail == Append(y.mail, event)
  <2>2. x \in SessionType /\ x.owner = host[s].owner /\ x.abort = host[s].abort
        /\ x.mail = Append(host[s].mail, event)
        /\ (~(host[s].queue > 0) => x.life # "busy")
    <3>1. queue \in Nat /\ life \in {"none", "idle", "busy", "ended"} /\ mail \in Seq(Events)
          /\ (~(y.queue > 0) => life # "busy")
      BY <1>1, <2>1
    <3>2. x = [y EXCEPT !.mail = mail, !.life = life, !.queue = queue] /\ y \in SessionType
      BY <1>1
    <3> HIDE DEF x, y, mail, life, queue
    <3>3. x \in SessionType /\ x.owner = y.owner /\ x.abort = y.abort /\ x.mail = mail /\ x.life = life
      BY <3>1, <3>2 DEF SessionType
    <3> QED
      BY <3>1, <3>3 DEF y, mail
  <2>3. host' = [host EXCEPT ![s] = x]
    BY <1>3
  <2> HIDE DEF x
  <2>4. Turns(s, x)
    BY <1>1, <2>2, <2>3, SessionTurns
  <2>5. calls' = calls \/ (x.life # "busy" /\ Settling(s, "over"))
    BY <1>1, <1>3, <2>2, SettledSettles
  <2> QED
    BY <1>2, <2>1, <2>2, <2>4, <2>5 DEF Reports, Goes
<1>4. ASSUME NEW events \in {<<"failed", "ended">>, <<"ended">>},
             host' = [host EXCEPT ![s].mail = @ \o events, ![s].life = "ended", ![s].queue = 0],
             calls' = Settled(s, "rejected")
      PROVE  Reports(s)
  <2> DEFINE x == [host[s] EXCEPT !.mail = @ \o events, !.life = "ended", !.queue = 0]
  <2>1. host[s].mail \o events \in Seq(Events)
        /\ (BadIn(host[s].mail \o events) => BadIn(host[s].mail))
    <3>1. "failed" \in Events /\ "ended" \in Events
      BY DEF Events
    <3>2. CASE events = <<"failed", "ended">>
      BY <1>1, <3>1, <3>2, MailAppendedTwo
    <3>3. CASE events = <<"ended">>
      BY <1>1, <3>1, <3>3, MailAppended
    <3> QED
      BY <3>2, <3>3
  <2>2. x \in SessionType /\ x.owner = host[s].owner /\ x.abort = host[s].abort
        /\ x.mail = host[s].mail \o events /\ x.life # "busy"
    BY <1>1, <2>1 DEF SessionType
  <2>3. host' = [host EXCEPT ![s] = x]
    BY <1>4
  <2> HIDE DEF x
  <2>4. Turns(s, x) /\ Settling(s, "rejected")
    BY <1>1, <1>4, <2>2, <2>3, SessionTurns, SettledSettles
  <2> QED
    BY <1>2, <2>1, <2>2, <2>4 DEF Reports, Goes
<1>5. ASSUME host' = [host EXCEPT ![s].life = "idle", ![s].queue = 0],
             calls' = Settled(s, "rejected")
      PROVE  Reports(s)
  <2> DEFINE x == [host[s] EXCEPT !.life = "idle", !.queue = 0]
  <2>1. x \in SessionType /\ x.owner = host[s].owner /\ x.abort = host[s].abort
        /\ x.mail = host[s].mail /\ x.life # "busy"
    BY <1>1 DEF SessionType
  <2>2. host' = [host EXCEPT ![s] = x]
    BY <1>5
  <2> HIDE DEF x
  <2>3. Turns(s, x) /\ Settling(s, "rejected")
    BY <1>1, <1>5, <2>1, <2>2, SessionTurns, SettledSettles
  <2> QED
    BY <1>2, <2>1, <2>3 DEF Reports, Goes
<1> QED
  BY <1>3, <1>4, <1>5 DEF HostEndsTurn

\* A settled call fits, and is no call in progress unless it is a reload.
LEMMA SettledCalls ==
  ASSUME TypeOK, NEW s, NEW at \in {"over", "rejected", "refused"}, Settling(s, at)
  PROVE  /\ \A c \in Calls : calls'[c].session \in 0 .. Len(host) /\ Fits(calls'[c])
         /\ NoReloadSent =>
              \A c \in Calls :
                \/ calls'[c] = calls[c]
                \/ /\ calls[c].at = "sending" /\ calls[c].session = s
                   /\ calls'[c] = Over \/ (at # "over" /\ calls'[c] = [calls[c] EXCEPT !.at = at])
<1>1. \A c \in Calls : calls[c] \in CallType /\ calls[c].session \in 0 .. Len(host) /\ Fits(calls[c])
  BY DEF TypeOK, Calls
<1>2. Len(host) \in Nat /\ Over.session = 0 /\ Fits(Over)
  BY DEF TypeOK, Over, Fits, Halting
<1>3. \A c \in Calls : calls[c].at = "sending" =>
        Then(calls[c], at).session \in 0 .. Len(host) /\ Fits(Then(calls[c], at))
  BY <1>1, <1>2 DEF Then, Fits, Halting, CallType
<1>4. \A c \in Calls : calls'[c].session \in 0 .. Len(host) /\ Fits(calls'[c])
  BY <1>1, <1>3 DEF Settling
<1>5. ASSUME NoReloadSent, NEW c \in Calls
      PROVE  \/ calls'[c] = calls[c]
             \/ /\ calls[c].at = "sending" /\ calls[c].session = s
                /\ calls'[c] = Over \/ (at # "over" /\ calls'[c] = [calls[c] EXCEPT !.at = at])
  BY <1>5 DEF NoReloadSent, Settling, Then
<1> QED
  BY <1>4, <1>5

\* The latest call is a call.
LEMMA LatestTyped ==
  ASSUME TypeOK
  PROVE  /\ Latest \in CallType /\ Latest.session \in 0 .. Len(host) /\ Fits(Latest)
         /\ Len(calls) \in Nat /\ Calls = 1 .. Len(calls) /\ Sessions = 1 .. Len(host)
         /\ Len(host) \in Nat
         /\ Latest.at # "over" => Len(calls) \in Calls /\ Latest = calls[Len(calls)]
         /\ Len(calls) \in Calls => Latest = calls[Len(calls)]
<1>1. /\ calls \in Seq(CallType) /\ host \in Seq(SessionType)
      /\ \A c \in Calls : calls[c].session \in 0 .. Len(host) /\ Fits(calls[c])
  BY DEF TypeOK
<1>2. Len(calls) \in Nat /\ Calls = 1 .. Len(calls) /\ Sessions = 1 .. Len(host)
      /\ Len(host) \in Nat
  BY <1>1 DEF Calls, Sessions
<1>3. CASE calls = <<>>
  <2>1. Latest = Over /\ Len(calls) \notin Calls
    BY <1>2, <1>3 DEF Latest
  <2>2. Fits(Over) /\ Over.session \in 0 .. Len(host)
    BY <1>2 DEF Fits, Over, Halting
  <2> QED
    BY <1>2, <2>1, <2>2, OverIsCall
<1>4. CASE calls # <<>>
  <2>1. Len(calls) \in Calls /\ Latest = calls[Len(calls)] /\ calls[Len(calls)] \in CallType
    BY <1>1, <1>2, <1>4 DEF Latest
  <2> QED
    BY <1>1, <1>2, <2>1
<1> QED
  BY <1>3, <1>4

\* What a settled send makes of the latest call.
LEMMA LatestSettled ==
  ASSUME TypeOK, NoReloadSent, NEW s, NEW at \in {"over", "rejected", "refused"}, Settling(s, at)
  PROVE  \/ Latest' = Latest /\ ~(Latest.at = "sending" /\ Latest.session = s)
         \/ /\ Latest.at = "sending" /\ Latest.session = s
            /\ Latest' = Over \/ (at # "over" /\ Latest' = [Latest EXCEPT !.at = at])
<1>1. Latest.at = "sending" => Latest.op # "reload"
  BY LatestTyped DEF NoReloadSent
<1> QED
  BY <1>1 DEF Settling, Then

\* The types hold after a report of a session.
LEMMA ReportsTypes ==
  ASSUME TypeOK, NEW s \in Sessions, Reports(s)
  PROVE  TypeOK'
<1>1. PICK x \in SessionType : Goes(s, x)
  BY DEF Reports
<1>2. host' \in Seq(SessionType) /\ Len(host') = Len(host)
  BY <1>1 DEF Goes, Turns
<1>3. calls' \in Seq(CallType) /\ Calls' = Calls
      /\ \A c \in Calls : calls'[c].session \in 0 .. Len(host) /\ Fits(calls'[c])
  <2>1. CASE calls' = calls
    BY <2>1 DEF TypeOK, Calls
  <2>2. CASE \E at \in {"over", "rejected"} : Settling(s, at)
    <3>1. PICK at \in {"over", "rejected"} : Settling(s, at)
      BY <2>2
    <3>2. \A c \in Calls : calls'[c].session \in 0 .. Len(host) /\ Fits(calls'[c])
      BY <3>1, SettledCalls
    <3> QED
      BY <3>1, <3>2 DEF Settling
  <2> QED
    BY <1>1, <2>1, <2>2 DEF Goes
<1>4. UNCHANGED <<home, entries, bound, last, canceling, setup, seen>>
  BY DEF Reports
<1>5. (\A c \in Calls : calls[c].session \in 0 .. Len(host) /\ Fits(calls[c]))'
  BY <1>2, <1>3
<1> QED
  BY <1>2, <1>3, <1>4, <1>5 DEF TypeOK

\* A report says nothing bad of its session and makes no call active.
LEMMA ReportsKeep ==
  ASSUME TypeOK, Inv, NEW s \in Sessions, Reports(s)
  PROVE  Inv'
<1> USE DEF Inv, CallsInv, BindingInv, EntryInv
<1>1. PICK x \in SessionType : Goes(s, x)
  BY DEF Reports
<1>2. /\ x.owner = host[s].owner /\ x.abort = host[s].abort /\ host[s].life = "busy"
      /\ BadIn(x.mail) => BadIn(host[s].mail)
      /\ Sessions' = Sessions /\ host'[s] = x
      /\ \A t \in Sessions : t # s => host'[t] = host[t]
  BY <1>1 DEF Goes, Turns
<1>3. UNCHANGED <<home, entries, bound, last, canceling, setup, seen>>
      /\ Cur' = Cur /\ State' = State
  BY DEF Reports, Cur, State
<1>4. /\ Len(calls') = Len(calls) /\ Calls' = Calls
      /\ \A c \in Calls :
           \/ calls'[c] = calls[c]
           \/ /\ calls[c].at = "sending" /\ calls'[c].at \in {"over", "rejected"}
              /\ calls'[c].session \in {0, calls[c].session}
  <2>1. CASE calls' = calls
    BY <2>1 DEF Calls
  <2>2. CASE \E at \in {"over", "rejected"} : Settling(s, at)
    <3>1. PICK at \in {"over", "rejected"} : Settling(s, at)
      BY <2>2
    <3>2. \A c \in Calls :
            \/ calls'[c] = calls[c]
            \/ /\ calls[c].at = "sending"
               /\ calls'[c] = Over \/ (at # "over" /\ calls'[c] = [calls[c] EXCEPT !.at = at])
      BY <3>1, SettledCalls
    <3>3. \A c \in Calls : calls[c] \in CallType
      BY DEF TypeOK, Calls
    <3>4. \A c \in Calls :
            \/ calls'[c] = calls[c]
            \/ /\ calls[c].at = "sending" /\ calls'[c].at \in {"over", "rejected"}
               /\ calls'[c].session \in {0, calls[c].session}
      BY <3>2, <3>3, OverIsCall DEF CallType
    <3> QED
      BY <3>1, <3>4 DEF Settling
  <2> QED
    BY <1>1, <2>1, <2>2 DEF Goes
<1>5. \/ Latest' = Latest
      \/ /\ Latest.at = "sending" /\ Latest.session = s /\ x.life # "busy"
         /\ Latest' = Over \/ Latest' = [Latest EXCEPT !.at = "rejected"]
  <2>1. CASE calls' = calls
    BY <2>1 DEF Latest
  <2>2. CASE x.life # "busy" /\ \E at \in {"over", "rejected"} : Settling(s, at)
    BY <2>2, LatestSettled
  <2> QED
    BY <1>1, <2>1, <2>2 DEF Goes
<1>6. /\ Over.at = "over" /\ Over.session = 0 /\ ~Over.retried /\ Over.op = "none" /\ ~Over.prompt
      /\ Len(calls) \in Nat
      /\ Latest \in CallType /\ Latest.session \in 0 .. Len(host) /\ Sessions = 1 .. Len(host)
      /\ bound \in 0 .. Len(host)
      /\ \A c \in Calls : calls[c] \in CallType
  BY LatestTyped DEF Over, TypeOK, Calls
<1>7. OneAtATime'
  BY <1>4 DEF OneAtATime, Waiting
<1>8. NoReloadSent'
  BY <1>4 DEF NoReloadSent
<1>9. LatestIsCurrent'
  BY <1>3, <1>5, <1>6 DEF LatestIsCurrent, CallType
<1>10. RetriesOnce'
  BY <1>5, <1>6 DEF RetriesOnce, Retrying, Halting, Active, Waiting, CallType
<1>11. NoAbortMeanwhile'
  BY <1>2, <1>5, <1>6 DEF NoAbortMeanwhile, Active, Waiting, CallType
<1>12. NoEntry'
  BY <1>3 DEF NoEntry
<1>13. IsReady'
  BY <1>3, <1>4 DEF IsReady
<1>14. BoundToCurrent'
  BY <1>2, <1>3, <1>5, <1>6 DEF BoundToCurrent, Replacing, Quiet
<1>15. QuietAtRest'
  BY <1>2, <1>3, <1>5, <1>6 DEF QuietAtRest, Quiet, Active, Waiting
<1>16. QuietHydrate'
  BY <1>2, <1>3, <1>5, <1>6 DEF QuietHydrate, Quiet, CallType
<1>17. BadIsMeant'
  BY <1>2, <1>3, <1>5, <1>6 DEF BadIsMeant
<1>18. BoundOrGone'
  BY <1>3, <1>5, <1>6 DEF BoundOrGone, Halting, CallType
<1>19. NewSession'
  BY <1>2, <1>3, <1>4, <1>5, <1>6 DEF NewSession, Quiet, CallType
<1>20. CancelIsOver'
  BY <1>3, <1>5 DEF CancelIsOver, Halting
<1>21. LiveTurn'
  BY <1>3, <1>5 DEF LiveTurn, Prompted, Retrying
<1>22. Undisturbed'
  BY <1>2, <1>5, <1>6 DEF Undisturbed, Retrying, CallType
<1>23. Asked'
  BY <1>2, <1>3, <1>5, <1>6 DEF Asked, CallType
<1>24. StopsAreAsked'
  BY <1>3, <1>5 DEF StopsAreAsked, Changing, Halting
<1>25. ~seen'.mixed
  BY <1>3
<1> QED
  BY <1>7, <1>8, <1>9, <1>10, <1>11, <1>12, <1>13, <1>14, <1>15, <1>16, <1>17, <1>18,
     <1>19, <1>20, <1>21, <1>22, <1>23, <1>24, <1>25
------------------------------------------------------------------------------
(***************************************************************************)
(* Stops and aborts, and the abort that follows a credit limit.            *)
(***************************************************************************)
\* A session that was stopped or aborted has no turn left; where it had none,
\* nothing bad comes of it.
LEMMA HaltedSession ==
  ASSUME NEW x \in SessionType, NEW y \in Stopped(x) \cup Aborted(x)
  PROVE  /\ y \in SessionType /\ y.life # "busy"
         /\ y.owner = x.owner /\ y.abort = x.abort /\ y.stored = x.stored
         /\ x.life # "busy" => (BadIn(y.mail) <=> BadIn(x.mail))
<1>1. /\ x.life \in {"none", "idle", "busy", "ended"} /\ x.mail \in Seq(Events)
  BY SessionFields
<1>2. /\ "ended" \in Events /\ "aborted" \in Events /\ "endedAbort" \in Events
      /\ "runFailed" \in Events
  BY DEF Events
<1>3. CASE x.life = "idle" /\ y = [x EXCEPT !.life = "ended", !.mail = Append(@, "ended")]
  <2>1. /\ Append(x.mail, "ended") \in Seq(Events)
        /\ BadIn(Append(x.mail, "ended")) <=> BadIn(x.mail)
    <3> DEFINE mail == x.mail
    <3>1. /\ Append(mail, "ended") = mail \o <<"ended">>
          /\ mail \o <<"ended">> \in Seq(Events)
          /\ BadIn(mail \o <<"ended">>) <=>
               BadIn(mail) \/ "ended" \in {"aborted", "endedAbort", "runFailed"}
      BY <1>1, <1>2, MailAppended
    <3>2. "ended" \notin {"aborted", "endedAbort", "runFailed"}
      OBVIOUS
    <3> QED
      BY <3>1, <3>2
  <2>2. /\ y \in SessionType /\ y.life # "busy" /\ y.mail = Append(x.mail, "ended")
        /\ y.owner = x.owner /\ y.abort = x.abort /\ y.stored = x.stored
    BY <1>3, <2>1 DEF SessionType
  <2> QED
    BY <2>1, <2>2
<1>4. ASSUME x.life = "busy", NEW turn \in {"aborted", "runFailed"}, NEW end \in {"ended", "endedAbort"},
             y = [x EXCEPT !.life = "ended", !.queue = 0, !.mail = @ \o <<turn, end>>]
      PROVE  /\ y \in SessionType /\ y.life # "busy"
             /\ y.owner = x.owner /\ y.abort = x.abort /\ y.stored = x.stored
  <2>1. x.mail \o <<turn, end>> \in Seq(Events)
    BY <1>1, <1>2, MailAppendedTwo
  <2> QED
    BY <1>4, <2>1 DEF SessionType
<1>5. ASSUME x.life = "busy", NEW turn \in {"aborted", "runFailed"},
             y = [x EXCEPT !.life = "idle", !.queue = 0, !.mail = Append(@, turn)]
      PROVE  /\ y \in SessionType /\ y.life # "busy"
             /\ y.owner = x.owner /\ y.abort = x.abort /\ y.stored = x.stored
  <2>1. Append(x.mail, turn) \in Seq(Events)
    BY <1>1, <1>2, MailAppended
  <2> QED
    BY <1>5, <2>1 DEF SessionType
<1>6. CASE x.life # "busy" /\ y = x
  BY <1>6
<1>7. CASE y \in Stopped(x)
  <2>1. CASE x.life = "busy"
    <3>1. PICK end \in {"ended", "endedAbort"} :
            y = [x EXCEPT !.life = "ended", !.queue = 0, !.mail = @ \o <<"aborted", end>>]
      BY <1>7, <2>1 DEF Stopped
    <3> QED
      BY <1>4, <2>1, <3>1
  <2>2. CASE x.life # "busy"
    BY <1>1, <1>3, <1>6, <1>7, <2>2 DEF Stopped
  <2> QED
    BY <2>1, <2>2
<1>8. CASE y \in Aborted(x)
  <2>1. CASE x.life = "busy"
    <3>1. \/ \E turn \in {"aborted", "runFailed"} :
               y = [x EXCEPT !.life = "idle", !.queue = 0, !.mail = Append(@, turn)]
          \/ \E turn \in {"aborted", "runFailed"} :
               y = [x EXCEPT !.life = "ended", !.queue = 0, !.mail = @ \o <<turn, "endedAbort">>]
      BY <1>8, <2>1 DEF Aborted
    <3> QED
      BY <1>4, <1>5, <2>1, <3>1
  <2>2. CASE x.life # "busy"
    BY <1>6, <1>8, <2>2 DEF Aborted
  <2> QED
    BY <2>1, <2>2
<1> QED
  BY <1>7, <1>8

\* A credit limit's abort: the session is aborted, then the binding is removed.
LEMMA CreditAbortDoes ==
  ASSUME TypeOK, NEW s \in Sessions, CreditAbort(s)
  PROVE  /\ UNCHANGED <<home, entries, last, canceling, setup, seen>>
         /\ \/ \E y \in SessionType, at \in {"over", "refused"} :
                 /\ Turns(s, y) /\ Settling(s, at) /\ bound' = bound
                 /\ y.owner = host[s].owner /\ host[s].abort = "asked" /\ y.abort = "done"
                 /\ y.life # "busy"
                 /\ host[s].life # "busy" => (BadIn(y.mail) <=> BadIn(host[s].mail))
            \/ \E y \in SessionType :
                 /\ Turns(s, y) /\ calls' = calls /\ bound' = Unbound(s)
                 /\ y.owner = host[s].owner /\ host[s].abort = "done" /\ y.abort = "none"
                 /\ y.mail = host[s].mail /\ y.life = host[s].life
<1>1. host[s] \in SessionType /\ host \in Seq(SessionType) /\ calls \in Seq(CallType)
  BY SessionTyped DEF TypeOK
<1>2. UNCHANGED <<home, entries, last, canceling, setup, seen>>
  BY DEF CreditAbort
<1>3. ASSUME host[s].abort = "asked", bound' = bound,
             NEW x \in Aborted(host[s]), host' = [host EXCEPT ![s] = [x EXCEPT !.abort = "done"]],
             NEW at \in {"over", "refused"}, calls' = Settled(s, at)
      PROVE  \E y \in SessionType, a \in {"over", "refused"} :
                 /\ Turns(s, y) /\ Settling(s, a) /\ bound' = bound
                 /\ y.owner = host[s].owner /\ host[s].abort = "asked" /\ y.abort = "done"
                 /\ y.life # "busy"
                 /\ host[s].life # "busy" => (BadIn(y.mail) <=> BadIn(host[s].mail))
  <2> DEFINE y == [x EXCEPT !.abort = "done"]
  <2>1. /\ x \in SessionType /\ x.life # "busy" /\ x.owner = host[s].owner
        /\ host[s].life # "busy" => (BadIn(x.mail) <=> BadIn(host[s].mail))
    BY <1>1, HaltedSession
  <2>2. y \in SessionType /\ y.life = x.life /\ y.owner = x.owner /\ y.mail = x.mail /\ y.abort = "done"
    BY <2>1 DEF SessionType
  <2>3. host' = [host EXCEPT ![s] = y]
    BY <1>3
  <2> HIDE DEF y
  <2>4. Turns(s, y) /\ Settling(s, at)
    BY <1>1, <1>3, <2>2, <2>3, SessionTurns, SettledSettles
  <2> QED
    BY <1>3, <2>1, <2>2, <2>4
<1>4. ASSUME host[s].abort = "done", host' = [host EXCEPT ![s].abort = "none"],
             bound' = Unbound(s), calls' = calls
      PROVE  \E y \in SessionType :
                 /\ Turns(s, y) /\ calls' = calls /\ bound' = Unbound(s)
                 /\ y.owner = host[s].owner /\ host[s].abort = "done" /\ y.abort = "none"
                 /\ y.mail = host[s].mail /\ y.life = host[s].life
  <2> DEFINE y == [host[s] EXCEPT !.abort = "none"]
  <2>1. /\ y \in SessionType /\ y.life = host[s].life /\ y.owner = host[s].owner
        /\ y.mail = host[s].mail /\ y.abort = "none"
    BY <1>1 DEF SessionType
  <2>2. host' = [host EXCEPT ![s] = y]
    BY <1>4
  <2> HIDE DEF y
  <2>3. Turns(s, y)
    BY <1>1, <2>1, <2>2, SessionTurns
  <2> QED
    BY <1>4, <2>1, <2>3
<1>5. \/ /\ host[s].abort = "asked" /\ bound' = bound
         /\ \E x \in Aborted(host[s]) : host' = [host EXCEPT ![s] = [x EXCEPT !.abort = "done"]]
         /\ \E at \in {"over", "refused"} : calls' = Settled(s, at)
      \/ /\ host[s].abort = "done" /\ host' = [host EXCEPT ![s].abort = "none"]
         /\ bound' = Unbound(s) /\ calls' = calls
  BY DEF CreditAbort
<1> QED
  BY <1>2, <1>3, <1>4, <1>5

\* A credit limit's abort keeps the types.
LEMMA CreditAbortTypes ==
  ASSUME TypeOK, NEW s \in Sessions, CreditAbort(s)
  PROVE  TypeOK'
<1>1. UNCHANGED <<home, entries, last, canceling, setup, seen>>
      /\ host' \in Seq(SessionType) /\ Len(host') = Len(host) /\ bound' \in {0, bound}
  BY CreditAbortDoes DEF Turns, Unbound
<1>2. calls' \in Seq(CallType) /\ Calls' = Calls
      /\ \A c \in Calls : calls'[c].session \in 0 .. Len(host) /\ Fits(calls'[c])
  <2>1. CASE calls' = calls
    BY <2>1 DEF TypeOK, Calls
  <2>2. CASE \E at \in {"over", "refused"} : Settling(s, at)
    <3>1. PICK at \in {"over", "refused"} : Settling(s, at)
      BY <2>2
    <3>2. \A c \in Calls : calls'[c].session \in 0 .. Len(host) /\ Fits(calls'[c])
      BY <3>1, SettledCalls
    <3> QED
      BY <3>1, <3>2 DEF Settling
  <2> QED
    BY <2>1, <2>2, CreditAbortDoes
<1>3. (\A c \in Calls : calls[c].session \in 0 .. Len(host) /\ Fits(calls[c]))'
  BY <1>1, <1>2
<1>4. bound' \in 0 .. Len(host')
  BY <1>1, LatestTyped DEF TypeOK
<1> QED
  BY <1>1, <1>2, <1>3, <1>4 DEF TypeOK

\* The session is aborted.
LEMMA CreditAbortedKeeps ==
  ASSUME TypeOK, Inv, NEW s \in Sessions, NEW y \in SessionType, NEW at \in {"over", "refused"},
         UNCHANGED <<home, entries, last, canceling, setup, seen>>,
         Turns(s, y), Settling(s, at), bound' = bound,
         y.owner = host[s].owner, host[s].abort = "asked", y.abort = "done", y.life # "busy",
         host[s].life # "busy" => (BadIn(y.mail) <=> BadIn(host[s].mail))
  PROVE  Inv'
<1> USE DEF Inv, CallsInv, BindingInv, EntryInv
<1>1. /\ Sessions' = Sessions /\ host'[s] = y /\ Len(host') = Len(host)
      /\ \A t \in Sessions : t # s => host'[t] = host[t]
  BY DEF Turns
<1>2. Cur' = Cur /\ State' = State
  BY DEF Cur, State
<1>3. /\ Len(calls') = Len(calls) /\ Calls' = Calls
      /\ \A c \in Calls :
           \/ calls'[c] = calls[c]
           \/ /\ calls[c].at = "sending" /\ calls'[c].at \in {"over", "refused"}
              /\ calls'[c].session \in {0, calls[c].session}
  <2>1. \A c \in Calls :
            \/ calls'[c] = calls[c]
            \/ /\ calls[c].at = "sending"
               /\ calls'[c] = Over \/ (at # "over" /\ calls'[c] = [calls[c] EXCEPT !.at = at])
    BY SettledCalls
  <2>2. \A c \in Calls : calls[c] \in CallType
    BY DEF TypeOK, Calls
  <2>3. \A c \in Calls :
           \/ calls'[c] = calls[c]
           \/ /\ calls[c].at = "sending" /\ calls'[c].at \in {"over", "refused"}
              /\ calls'[c].session \in {0, calls[c].session}
    BY <2>1, <2>2, OverIsCall DEF CallType
  <2> QED
    BY <2>3 DEF Settling
<1>4. \/ Latest' = Latest /\ ~(Latest.at = "sending" /\ Latest.session = s)
      \/ /\ Latest.at = "sending" /\ Latest.session = s
         /\ Latest' = Over \/ Latest' = [Latest EXCEPT !.at = "refused"]
  BY LatestSettled
<1>5. /\ Over.at = "over" /\ Over.session = 0 /\ ~Over.retried /\ Over.op = "none" /\ ~Over.prompt
      /\ Len(calls) \in Nat
      /\ Latest \in CallType /\ Latest.session \in 0 .. Len(host) /\ Sessions = 1 .. Len(host)
      /\ bound \in 0 .. Len(host)
  BY LatestTyped DEF Over, TypeOK
<1>6. UNCHANGED <<home, entries, last, canceling, setup, seen, bound>>
  OBVIOUS
<1>7. OneAtATime'
  BY <1>3 DEF OneAtATime, Waiting
<1>8. NoReloadSent'
  BY <1>3 DEF NoReloadSent
<1>9. LatestIsCurrent'
  BY <1>2, <1>4, <1>5 DEF LatestIsCurrent, CallType
<1>10. RetriesOnce'
  BY <1>4, <1>5 DEF RetriesOnce, Retrying, Halting, Active, Waiting, CallType
<1>11. NoAbortMeanwhile'
  BY <1>4, <1>5 DEF NoAbortMeanwhile, Active, Waiting, CallType
<1>12. NoEntry'
  BY <1>2 DEF NoEntry
<1>13. IsReady'
  BY <1>3 DEF IsReady
<1>14. BoundToCurrent'
  BY <1>1, <1>2, <1>4, <1>5 DEF BoundToCurrent, Replacing, Quiet
<1>15. QuietAtRest'
  BY <1>1, <1>2, <1>4, <1>5 DEF QuietAtRest, Quiet, Active, Waiting
<1>16. QuietHydrate'
  BY <1>1, <1>4, <1>5 DEF QuietHydrate, Quiet, CallType
<1>17. BadIsMeant'
  BY <1>1, <1>4, <1>5 DEF BadIsMeant
<1>18. BoundOrGone'
  BY <1>4, <1>5 DEF BoundOrGone, Halting, CallType
<1>19. NewSession'
  BY <1>1, <1>3, <1>4, <1>5 DEF NewSession, Quiet, CallType
<1>20. CancelIsOver'
  BY <1>4 DEF CancelIsOver, Halting
<1>21. LiveTurn'
  BY <1>2, <1>4 DEF LiveTurn, Prompted, Retrying
<1>22. Undisturbed'
  BY <1>1, <1>4, <1>5 DEF Undisturbed, Retrying, Halting, CallType
<1>23. Asked'
  BY DEF Asked
<1>24. StopsAreAsked'
  BY <1>2, <1>4 DEF StopsAreAsked, Changing, Halting
<1>25. ~seen'.mixed
  OBVIOUS
<1> QED
  BY <1>7, <1>8, <1>9, <1>10, <1>11, <1>12, <1>13, <1>14, <1>15, <1>16, <1>17, <1>18,
     <1>19, <1>20, <1>21, <1>22, <1>23, <1>24, <1>25

\* Its binding is removed.
LEMMA CreditUnboundKeeps ==
  ASSUME TypeOK, Inv, NEW s \in Sessions, NEW y \in SessionType,
         UNCHANGED <<home, entries, last, canceling, setup, seen>>,
         Turns(s, y), calls' = calls, bound' = Unbound(s),
         y.owner = host[s].owner, host[s].abort = "done", y.abort = "none",
         y.mail = host[s].mail, y.life = host[s].life
  PROVE  Inv'
<1> USE DEF Inv, CallsInv, BindingInv, EntryInv
<1>1. /\ Sessions' = Sessions /\ host'[s] = y /\ Len(host') = Len(host)
      /\ \A t \in Sessions : t # s => host'[t] = host[t]
      /\ y.owner = host[s].owner /\ host[s].abort = "done" /\ y.abort = "none"
      /\ y.mail = host[s].mail /\ y.life = host[s].life
  BY DEF Turns
<1>2. Cur' = Cur /\ State' = State /\ Latest' = Latest /\ Calls' = Calls /\ calls' = calls
  BY DEF Cur, State, Latest, Calls
<1>3. bound' = IF bound = s THEN 0 ELSE bound
  BY DEF Unbound
<1>4. /\ Latest.session \in 0 .. Len(host) /\ Sessions = 1 .. Len(host)
      /\ bound \in 0 .. Len(host) /\ Len(host) \in Nat
  BY LatestTyped DEF TypeOK
<1>5. UNCHANGED <<home, entries, last, canceling, setup, seen>>
  OBVIOUS
<1>6. OneAtATime'
  BY <1>2 DEF OneAtATime
<1>7. NoReloadSent'
  BY <1>2 DEF NoReloadSent
<1>8. LatestIsCurrent'
  BY <1>2 DEF LatestIsCurrent
<1>9. RetriesOnce'
  BY <1>2 DEF RetriesOnce, Retrying, Active
<1>10. NoAbortMeanwhile'
  BY <1>2 DEF NoAbortMeanwhile, Active
<1>11. NoEntry'
  BY <1>2, <1>3 DEF NoEntry
<1>12. IsReady'
  BY <1>2, <1>3 DEF IsReady
<1>13. BoundToCurrent'
  BY <1>1, <1>2, <1>3, <1>4 DEF BoundToCurrent, Replacing, Quiet
<1>14. QuietAtRest'
  BY <1>1, <1>2, <1>3, <1>4 DEF QuietAtRest, Quiet, Active
<1>15. QuietHydrate'
  BY <1>1, <1>2, <1>3, <1>4 DEF QuietHydrate, Quiet
<1>16. BadIsMeant'
  BY <1>1, <1>2, <1>3, <1>4 DEF BadIsMeant
<1>17. BoundOrGone'
  BY <1>2, <1>3 DEF BoundOrGone
<1>18. NewSession'
  BY <1>1, <1>2, <1>3, <1>4 DEF NewSession, Quiet
<1>19. CancelIsOver'
  BY <1>2, <1>3 DEF CancelIsOver
<1>20. LiveTurn'
  BY <1>2 DEF LiveTurn, Prompted, Retrying
<1>21. Undisturbed'
  BY <1>1, <1>2, <1>4 DEF Undisturbed, Retrying
<1>22. Asked'
  BY DEF Asked
<1>23. StopsAreAsked'
  BY <1>2 DEF StopsAreAsked, Changing
<1>24. ~seen'.mixed
  OBVIOUS
<1> QED
  BY <1>6, <1>7, <1>8, <1>9, <1>10, <1>11, <1>12, <1>13, <1>14, <1>15, <1>16, <1>17,
     <1>18, <1>19, <1>20, <1>21, <1>22, <1>23, <1>24

\* A credit limit's abort keeps the invariant.
LEMMA CreditAbortKeeps ==
  ASSUME TypeOK, Inv, NEW s \in Sessions, CreditAbort(s)
  PROVE  Inv'
  BY CreditAbortDoes, CreditAbortedKeeps, CreditUnboundKeeps
------------------------------------------------------------------------------
(***************************************************************************)
(* An event of a session is handled.                                       *)
(***************************************************************************)
\* Nothing but a bad event takes a live entry out of life, and it interrupts one
\* only while no cancel is under way.
LEMMA AppliedEntry ==
  ASSUME NEW sum \in EntryType, NEW event \in Events
  PROVE  /\ Applied(sum, event) \in EntryType
         /\ event \notin {"aborted", "endedAbort", "runFailed"} =>
              Applied(sum, event).state \in Live \/ Applied(sum, event).state = sum.state
<1>1. /\ sum.state \in States /\ sum.reason \in Reasons
      /\ sum = [state |-> sum.state, reason |-> sum.reason]
  BY DEF EntryType
<1>2. Entry("awaiting_review", "hook") \in EntryType /\ Entry("awaiting_review", "error") \in EntryType
      /\ Entry("awaiting_review", "exit") \in EntryType /\ Entry("running", "none") \in EntryType
      /\ Canceled \in EntryType /\ Interrupted \in EntryType
      /\ [sum EXCEPT !.state = "running"] \in EntryType /\ [sum EXCEPT !.state = "running"].state = "running"
  BY DEF Entry, Canceled, Interrupted, EntryType, States, Reasons
<1>3. /\ Entry("awaiting_review", "hook").state \in Live /\ Entry("awaiting_review", "error").state \in Live
      /\ Entry("awaiting_review", "exit").state \in Live /\ Entry("running", "none").state \in Live
      /\ "running" \in Live
  BY DEF Entry, Live
<1>4. CASE event \in {"text", "status"}
  BY <1>2, <1>3, <1>4 DEF Applied, Spoke, StatusRunning
<1>5. CASE event \in {"attention", "tool"}
  <2>1. Applied(sum, event) = UsedTool(sum, event = "attention")
    BY <1>5 DEF Applied
  <2>2. UsedTool(sum, event = "attention") \in
          {Entry("awaiting_review", "hook"), Entry("running", "none"), sum}
    BY DEF UsedTool
  <2> QED
    BY <1>2, <1>3, <2>1, <2>2
<1>6. CASE event \in {"done", "failed", "aborted"}
  BY <1>2, <1>3, <1>6 DEF Applied, TurnOver
<1>7. CASE event \in {"runFailed", "credit"}
  BY <1>2, <1>3, <1>7 DEF Applied, RunFailed
<1>8. CASE event \in {"ended", "endedAbort"}
  BY <1>2, <1>3, <1>8 DEF Applied, SessionOver
<1> QED
  BY <1>4, <1>5, <1>6, <1>7, <1>8 DEF Events

\* An event of a session that is not routed is dropped with all that follow.
Drops(s) ==
  /\ bound # s
  /\ \E y \in SessionType :
       /\ Turns(s, y) /\ y.mail = <<>>
       /\ y.owner = host[s].owner /\ y.abort = host[s].abort /\ y.life = host[s].life
  /\ UNCHANGED <<home, entries, bound, last, canceling, setup, calls, seen>>

Handles(s, event) ==
  /\ bound = s /\ host[s].mail # <<>> /\ event \in Events
  /\ BadIn(host[s].mail) <=> event \in {"aborted", "endedAbort", "runFailed"} \/ BadIn(Tail(host[s].mail))
  /\ \E y \in SessionType :
       /\ Turns(s, y) /\ y.mail = Tail(host[s].mail)
       /\ y.owner = host[s].owner /\ y.life = host[s].life
       /\ y.abort = IF event = "credit" /\ Cur # 0 THEN "asked" ELSE host[s].abort
  /\ \/ Cur = 0 /\ entries' = entries
     \/ /\ Cur # 0 /\ entries[Cur] \in EntryType
        /\ Shows(Cur, Applied(entries[Cur], event).state)
  /\ canceling' \in BOOLEAN /\ (canceling' => canceling)
  /\ bound' \in {bound, 0}
  /\ seen' \in SeenType
  /\ seen'.failed = seen.failed
  /\ seen'.mixed <=> seen.mixed \/ host[s].owner # Cur
  /\ seen'.asked <=> seen.asked \/ event = "credit"
  /\ seen'.crossed <=> seen.crossed \/ (event = "credit" /\ InProgress)
  /\ UNCHANGED <<home, last, setup, calls>>

\* An event is dropped, or applied to the current entry.
LEMMA HandleEventDoes ==
  ASSUME TypeOK, NEW s \in Sessions, HandleEvent(s)
  PROVE  Drops(s) \/ Handles(s, Head(host[s].mail))
<1> DEFINE event == Head(host[s].mail)
<1>1. host[s] \in SessionType /\ host \in Seq(SessionType) /\ entries \in Seq(EntryType)
      /\ host[s].mail \in Seq(Events) /\ host[s].mail # <<>>
  BY SessionTyped, SessionFields DEF TypeOK, HandleEvent
<1>2. event \in Events /\ Tail(host[s].mail) \in Seq(Events)
      /\ (BadIn(host[s].mail) <=> event \in {"aborted", "endedAbort", "runFailed"} \/ BadIn(Tail(host[s].mail)))
  BY <1>1, MailHandled
<1>3. UNCHANGED <<home, last, setup, calls>>
  BY DEF HandleEvent
<1>4. CASE ~Routed(s)
  <2> DEFINE y == [host[s] EXCEPT !.mail = <<>>]
  <2>1. y \in SessionType /\ y.mail = <<>> /\ y.owner = host[s].owner /\ y.abort = host[s].abort
        /\ y.life = host[s].life
    <3>1. <<>> \in Seq(Events)
      OBVIOUS
    <3> QED
      BY <1>1, <3>1 DEF SessionType
  <2>2. host' = [host EXCEPT ![s] = y] /\ UNCHANGED <<entries, canceling, bound, seen>>
    BY <1>4 DEF HandleEvent
  <2> HIDE DEF y
  <2>3. Turns(s, y)
    BY <1>1, <2>1, <2>2, SessionTurns
  <2> QED
    BY <1>3, <1>4, <2>1, <2>2, <2>3 DEF Drops, Routed
<1>5. CASE Routed(s)
  <2> HIDE DEF event
  <2> DEFINE abort == IF event = "credit" /\ Cur # 0 THEN "asked" ELSE host[s].abort
             y == [host[s] EXCEPT !.mail = Tail(@), !.abort = abort]
  <2>1. /\ host' = [host EXCEPT ![s].mail = Tail(@),
                                ![s].abort = IF event = "credit" /\ Cur # 0 THEN "asked" ELSE @]
        /\ entries' = IF Cur = 0 THEN entries ELSE [entries EXCEPT ![Cur] = Applied(@, event)]
        /\ canceling' = (canceling /\ ~(Cur # 0 /\ EndsCancel(event)))
        /\ bound' = IF event \in {"ended", "endedAbort"} THEN Unbound(s) ELSE bound
        /\ seen' = [seen EXCEPT !.mixed = @ \/ host[s].owner # Cur,
                                !.asked = @ \/ event = "credit",
                                !.crossed = @ \/ (event = "credit" /\ InProgress)]
    BY <1>5 DEF HandleEvent, event
  <2>2. abort \in {"none", "asked", "done"}
    BY <1>1, SessionFields
  <2>3. host' = [host EXCEPT ![s] = y]
    BY <2>1
  <2> HIDE DEF abort
  <2>4. /\ y \in SessionType /\ y.mail = Tail(host[s].mail) /\ y.owner = host[s].owner
        /\ y.life = host[s].life /\ y.abort = abort
    BY <1>1, <1>2, <2>2 DEF SessionType
  <2> HIDE DEF y
  <2>5. Turns(s, y)
    BY <1>1, <2>3, <2>4, SessionTurns
  <2>6. \/ Cur = 0 /\ entries' = entries
        \/ /\ Cur # 0 /\ entries[Cur] \in EntryType
           /\ Shows(Cur, Applied(entries[Cur], event).state)
    <3>1. CASE Cur = 0
      BY <2>1, <3>1
    <3>2. CASE Cur # 0
      <4> DEFINE z == Applied(entries[Cur], event)
      <4>1. Cur \in DOMAIN entries /\ entries[Cur] \in EntryType
        BY <1>1, <3>2 DEF Cur
      <4>2. z \in EntryType
        BY <1>2, <4>1, AppliedEntry
      <4>3. entries' = [entries EXCEPT ![Cur] = z]
        BY <2>1, <3>2
      <4> HIDE DEF z
      <4>4. entries' \in Seq(EntryType) /\ Len(entries') = Len(entries) /\ entries'[Cur] = z
        BY <1>1, <4>1, <4>2, <4>3
      <4>5. Cur' = Cur /\ State' = z.state
        BY <3>2, <4>4 DEF Cur, State
      <4> QED
        BY <3>2, <4>1, <4>4, <4>5 DEF Shows, Cur, z
    <3> QED
      BY <3>1, <3>2
  <2>7. canceling' \in BOOLEAN /\ (canceling' => canceling) /\ bound' \in {bound, 0}
    BY <2>1 DEF Unbound
  <2>8. /\ seen' \in SeenType /\ seen'.failed = seen.failed
        /\ seen'.mixed <=> seen.mixed \/ host[s].owner # Cur
        /\ seen'.asked <=> seen.asked \/ event = "credit"
        /\ seen'.crossed <=> seen.crossed \/ (event = "credit" /\ InProgress)
    BY <2>1 DEF TypeOK, SeenType
  <2>9. Handles(s, event)
    BY <1>1, <1>2, <1>3, <1>5, <2>4, <2>5, <2>6, <2>7, <2>8 DEF Handles, Routed, abort
  <2> QED
    BY <2>9 DEF event
<1> QED
  BY <1>4, <1>5

\* An event keeps the types.
LEMMA HandleEventTypes ==
  ASSUME TypeOK, NEW s \in Sessions, HandleEvent(s)
  PROVE  TypeOK'
<1>1. CASE Drops(s)
  <2>1. /\ UNCHANGED <<home, entries, bound, last, canceling, setup, calls, seen>>
        /\ host' \in Seq(SessionType) /\ Len(host') = Len(host) /\ Calls' = Calls
    BY <1>1 DEF Drops, Turns, Calls
  <2> QED
    BY <2>1 DEF TypeOK
<1>2. CASE \E event : Handles(s, event)
  <2>1. /\ UNCHANGED <<home, last, setup, calls>> /\ Calls' = Calls
        /\ host' \in Seq(SessionType) /\ Len(host') = Len(host)
        /\ canceling' \in BOOLEAN /\ bound' \in {bound, 0} /\ seen' \in SeenType
        /\ entries' \in Seq(EntryType)
    BY <1>2 DEF Handles, Turns, Calls, Shows, TypeOK
  <2>2. bound' \in 0 .. Len(host')
    BY <2>1, LatestTyped DEF TypeOK
  <2> QED
    BY <2>1, <2>2 DEF TypeOK
<1> QED
  BY <1>1, <1>2, HandleEventDoes

\* What is dropped changes nothing of the session that is bound.
LEMMA DropsKeeps ==
  ASSUME TypeOK, Inv, NEW s \in Sessions, Drops(s)
  PROVE  Inv'
<1> USE DEF Inv, CallsInv, BindingInv, EntryInv
<1>1. PICK y \in SessionType :
         /\ Turns(s, y) /\ y.mail = <<>>
         /\ y.owner = host[s].owner /\ y.abort = host[s].abort /\ y.life = host[s].life
  BY DEF Drops
<1>2. /\ Sessions' = Sessions /\ host'[s] = y /\ Len(host') = Len(host)
      /\ \A t \in Sessions : t # s => host'[t] = host[t]
  BY <1>1 DEF Turns
<1>3. /\ UNCHANGED <<home, entries, bound, last, canceling, setup, calls, seen>>
      /\ bound # s
  BY DEF Drops
<1>4. Cur' = Cur /\ State' = State /\ Latest' = Latest /\ Calls' = Calls
  BY <1>3 DEF Cur, State, Latest, Calls
<1>5. /\ Latest.session \in 0 .. Len(host) /\ Sessions = 1 .. Len(host)
      /\ bound \in 0 .. Len(host) /\ Len(host) \in Nat
  BY LatestTyped DEF TypeOK
<1>6. ~BadIn(<<>>)
  BY DEF BadIn
<1>7. OneAtATime'
  BY <1>3, <1>4 DEF OneAtATime
<1>8. NoReloadSent'
  BY <1>3, <1>4 DEF NoReloadSent
<1>9. LatestIsCurrent'
  BY <1>4 DEF LatestIsCurrent
<1>10. RetriesOnce'
  BY <1>4 DEF RetriesOnce, Retrying, Active
<1>11. NoAbortMeanwhile'
  BY <1>1, <1>2, <1>4 DEF NoAbortMeanwhile, Active
<1>12. NoEntry'
  BY <1>3, <1>4 DEF NoEntry
<1>13. IsReady'
  BY <1>3, <1>4 DEF IsReady
<1>14. BoundToCurrent'
  BY <1>2, <1>3, <1>4, <1>5 DEF BoundToCurrent, Replacing, Quiet
<1>15. QuietAtRest'
  BY <1>2, <1>3, <1>4, <1>5 DEF QuietAtRest, Quiet, Active
<1>16. QuietHydrate'
  BY <1>2, <1>3, <1>4, <1>5 DEF QuietHydrate, Quiet
<1>17. BadIsMeant'
  BY <1>2, <1>3, <1>4, <1>5 DEF BadIsMeant
<1>18. BoundOrGone'
  BY <1>3, <1>4 DEF BoundOrGone
<1>19. NewSession'
  BY <1>2, <1>3, <1>4, <1>5 DEF NewSession, Quiet
<1>20. CancelIsOver'
  BY <1>3, <1>4 DEF CancelIsOver
<1>21. LiveTurn'
  BY <1>4 DEF LiveTurn, Prompted, Retrying
<1>22. Undisturbed'
  BY <1>1, <1>2, <1>4, <1>5, <1>6 DEF Undisturbed, Retrying
<1>23. Asked'
  BY <1>1, <1>2, <1>3, <1>4 DEF Asked
<1>24. StopsAreAsked'
  BY <1>3, <1>4 DEF StopsAreAsked, Changing
<1>25. ~seen'.mixed
  BY <1>3
<1> QED
  BY <1>7, <1>8, <1>9, <1>10, <1>11, <1>12, <1>13, <1>14, <1>15, <1>16, <1>17, <1>18,
     <1>19, <1>20, <1>21, <1>22, <1>23, <1>24, <1>25

\* A bad event is meant, or comes to no prompt that is on its way.
LEMMA HandlesKeeps ==
  ASSUME TypeOK, Inv, NEW s \in Sessions, NEW event, Handles(s, event), Clean'
  PROVE  Inv'
<1> USE DEF Inv, CallsInv, BindingInv, EntryInv
<1>1. PICK y \in SessionType :
         /\ Turns(s, y) /\ y.mail = Tail(host[s].mail)
         /\ y.owner = host[s].owner /\ y.life = host[s].life
         /\ y.abort = IF event = "credit" /\ Cur # 0 THEN "asked" ELSE host[s].abort
  BY DEF Handles
<1>2. /\ Sessions' = Sessions /\ host'[s] = y /\ Len(host') = Len(host)
      /\ \A t \in Sessions : t # s => host'[t] = host[t]
  BY <1>1 DEF Turns
<1>3. /\ bound = s /\ bound # 0 /\ bound' \in {bound, 0} /\ host[s].mail # <<>>
      /\ canceling' => canceling
      /\ UNCHANGED <<home, last, setup, calls>>
  BY DEF Handles, Sessions, TypeOK
<1>4. Latest' = Latest /\ Calls' = Calls
  BY <1>3 DEF Latest, Calls
<1>5. /\ Latest.session \in 0 .. Len(host) /\ Sessions = 1 .. Len(host)
      /\ bound \in 0 .. Len(host) /\ Len(host) \in Nat
      /\ Fits(Latest)
      /\ Latest.at # "over" => Len(calls) \in Calls /\ Latest = calls[Len(calls)]
  BY LatestTyped DEF TypeOK
<1>6. host[bound].owner = Cur /\ Cur # 0
  BY <1>3 DEF BoundToCurrent, Quiet, NoEntry
<1>7. event = "credit" => ~Active /\ \A t \in Sessions : host[t].abort = "none"
  BY <1>5 DEF Handles, Clean, InProgress, Active, Waiting
<1>8. /\ seen'.asked <=> seen.asked \/ event = "credit"
      /\ seen'.mixed <=> seen.mixed \/ host[s].owner # Cur
  BY DEF Handles
<1>9. /\ BadIn(host[s].mail) <=> event \in {"aborted", "endedAbort", "runFailed"} \/ BadIn(y.mail)
  BY <1>1 DEF Handles
<1>10. /\ Cur' = Cur
       /\ event \notin {"aborted", "endedAbort", "runFailed"} => State' \in Live \/ State' = State
  <2>1. /\ entries[Cur] \in EntryType /\ event \in Events
        /\ Cur' = Cur /\ State' = Applied(entries[Cur], event).state
    BY <1>6 DEF Handles, Shows
  <2>2. State = entries[Cur].state
    BY <1>6 DEF State
  <2> QED
    BY <2>1, <2>2, AppliedEntry
\* What a bad event means.
<1>11. ASSUME event \in {"aborted", "endedAbort", "runFailed"}
       PROVE  /\ ~Prompted
              /\ host[s].abort = "done" \/ (Active /\ Latest.at = "halted")
              /\ seen.asked \/ Changing
  <2>1. host[s].abort = "done" \/ Latest.at = "halted"
    BY <1>3, <1>9, <1>11 DEF BadIsMeant
  <2>2. Latest.at # "starting"
    BY <1>3 DEF NewSession, Quiet
  <2>3. ~(Latest.at \in {"sending", "rejected"} \/ Retrying)
    BY <1>3, <1>9, <1>11 DEF BoundOrGone, Undisturbed, Retrying
  <2>4. Latest.at \notin {"setup", "read"}
    <3>1. Latest.at \in {"setup", "read"} => Active /\ ~Latest.retried
      BY DEF Active, Waiting, RetriesOnce
    <3> QED
      BY <2>1, <3>1 DEF NoAbortMeanwhile
  <2>5. seen.asked \/ Changing
    <3>1. CASE host[s].abort = "done"
      BY <3>1 DEF Asked
    <3>2. CASE Latest.at = "halted"
      BY <1>5, <2>3, <3>2 DEF Fits, Halting, Retrying, Asked, Changing
    <3> QED
      BY <2>1, <3>1, <3>2
  <2> QED
    BY <2>1, <2>2, <2>3, <2>4, <2>5 DEF Prompted, Active, Waiting
<1>12. Prompted' = Prompted /\ Changing' = Changing /\ Active' = Active /\ Retrying' = Retrying
  BY <1>4 DEF Prompted, Changing, Active, Retrying
<1>13. OneAtATime'
  BY <1>3, <1>4 DEF OneAtATime
<1>14. NoReloadSent'
  BY <1>3, <1>4 DEF NoReloadSent
<1>15. LatestIsCurrent'
  BY <1>4, <1>10 DEF LatestIsCurrent
<1>16. RetriesOnce'
  BY <1>4 DEF RetriesOnce, Retrying, Active
<1>17. NoAbortMeanwhile'
  BY <1>1, <1>2, <1>4, <1>7 DEF NoAbortMeanwhile, Active
<1>18. NoEntry'
  BY <1>6, <1>10 DEF NoEntry
<1>19. IsReady'
  BY <1>3 DEF IsReady
<1>20. BoundToCurrent'
  BY <1>1, <1>2, <1>3, <1>10 DEF BoundToCurrent, Quiet
<1>21. QuietAtRest'
  BY <1>1, <1>2, <1>3, <1>10, <1>11, <1>12 DEF QuietAtRest, Quiet
<1>22. QuietHydrate'
  BY <1>3, <1>4 DEF QuietHydrate, Quiet
<1>23. BadIsMeant'
  BY <1>1, <1>2, <1>3, <1>4, <1>7, <1>9 DEF BadIsMeant
<1>24. BoundOrGone'
  BY <1>3, <1>4 DEF BoundOrGone
<1>25. NewSession'
  BY <1>3, <1>4 DEF NewSession, Quiet
<1>26. CancelIsOver'
  BY <1>3, <1>4 DEF CancelIsOver
<1>27. LiveTurn'
  BY <1>10, <1>11, <1>12 DEF LiveTurn
<1>28. Undisturbed'
  BY <1>1, <1>2, <1>4, <1>5, <1>9 DEF Undisturbed, Retrying
<1>29. Asked'
  BY <1>1, <1>2, <1>4, <1>8 DEF Asked
<1>30. StopsAreAsked'
  BY <1>8, <1>10, <1>11, <1>12 DEF StopsAreAsked, Live
<1>31. ~seen'.mixed
  BY <1>3, <1>6, <1>8
<1> QED
  BY <1>13, <1>14, <1>15, <1>16, <1>17, <1>18, <1>19, <1>20, <1>21, <1>22, <1>23, <1>24,
     <1>25, <1>26, <1>27, <1>28, <1>29, <1>30, <1>31

\* An event keeps the invariant, unless it crosses a call.
LEMMA HandleEventKeeps ==
  ASSUME TypeOK, Inv, NEW s \in Sessions, HandleEvent(s), Clean'
  PROVE  Inv'
  BY HandleEventDoes, DropsKeeps, HandlesKeeps
------------------------------------------------------------------------------
(***************************************************************************)
(* The user calls.                                                         *)
(***************************************************************************)
\* A new call x; the current entry is number n, in this state.
Made(x, n, state) ==
  /\ x \in CallType /\ Fits(x) /\ x.session = bound /\ ~x.retried
  /\ Added(x) /\ Shows(n, state)
  /\ canceling' \in BOOLEAN
  /\ seen' \in SeenType /\ (seen.failed => seen'.failed) /\ seen'.mixed = seen.mixed
  /\ seen'.crossed <=> seen.crossed \/ InProgress
  /\ UNCHANGED <<home, bound, last, setup, host>>

\* What the calls have in common: a new entry only replaces one that is not live.
Proper(x, n, state) ==
  /\ x.at \in {"setup", "hydrate", "rebind", "halt"}
  /\ x.at \in {"setup", "halt"} => x.entry = n
  /\ x.at = "rebind" => n = 0
  /\ x.at \in {"setup", "halt"} /\ x.op # "clear" => n # 0
  /\ x.op = "send" => x.at \in {"setup", "rebind"}
  /\ n = Cur \/ (n = Cur + 1 /\ x.at = "setup" /\ x.op # "send" /\ State \notin Live)
  /\ x.at = "hydrate" => State \notin Live \/ bound = 0 \/ seen'.failed
  /\ canceling' => \/ x.op = "cancel" /\ x.at = "halt" /\ n # 0
                   \/ canceling /\ (x.at = "hydrate" \/ n = 0)
  /\ x.at = "setup" /\ x.prompt => state \in Live
  /\ x.op \in {"stop", "abort"} => seen'.asked
  /\ state = "interrupted" => \/ x.op \in {"restore", "chat"} /\ x.at = "hydrate"
                              \/ x.op \in {"stop", "abort", "clear", "reload"} /\ x.at = "halt"

\* A call of the user appends one that waits for the service.
LEMMA ArrivesMakes ==
  ASSUME TypeOK, NEW op \in Ops, NEW at \in Ats, NEW e \in Nat, NEW queue \in BOOLEAN,
         NEW prompt \in BOOLEAN, NEW asked \in BOOLEAN, NEW refused \in BOOLEAN,
         Arrives(Call(op, at, e, queue, prompt)), Aside,
         seen' = [seen EXCEPT !.crossed = @ \/ InProgress, !.asked = asked, !.failed = @ \/ refused],
         Fits(Call(op, at, e, queue, prompt)), canceling' \in BOOLEAN,
         NEW n, NEW state, Shows(n, state)
  PROVE  /\ Made(Call(op, at, e, queue, prompt), n, state)
         /\ seen'.asked = asked /\ (refused => seen'.failed)
<1> DEFINE x == Call(op, at, e, queue, prompt)
<1>1. /\ x \in CallType /\ x.session = bound /\ ~x.retried
  BY LatestTyped DEF Call, CallType, TypeOK
<1>2. Added(x)
  BY <1>1, CallAdded DEF Arrives, TypeOK
<1>3. /\ seen' = [seen EXCEPT !.crossed = @ \/ InProgress, !.asked = asked, !.failed = @ \/ refused]
      /\ seen \in SeenType
  BY DEF TypeOK
<1>4. /\ seen' \in SeenType /\ (seen.failed => seen'.failed) /\ seen'.mixed = seen.mixed
      /\ seen'.asked = asked /\ (seen'.crossed <=> seen.crossed \/ InProgress)
      /\ refused => seen'.failed
  BY <1>3 DEF SeenType
<1>5. UNCHANGED <<home, bound, last, setup, host>>
  BY DEF Aside
<1> HIDE DEF x
<1> QED
  BY <1>1, <1>2, <1>4, <1>5 DEF Made, x

\* The same of a call that waits for nothing to have been stopped.
LEMMA CallingMakes ==
  ASSUME TypeOK, NEW op \in Ops, NEW at \in Ats, NEW e \in Nat, NEW queue \in BOOLEAN,
         NEW prompt \in BOOLEAN, NEW asked \in BOOLEAN, Calling(op, at, e, queue, prompt, asked), Aside,
         Fits(Call(op, at, e, queue, prompt)), canceling' \in BOOLEAN,
         NEW n, NEW state, Shows(n, state)
  PROVE  Made(Call(op, at, e, queue, prompt), n, state) /\ seen'.asked = asked
<1>1. seen' = [seen EXCEPT !.crossed = @ \/ InProgress, !.asked = asked, !.failed = @ \/ FALSE]
  BY DEF Calling, TypeOK, SeenType
<1>2. Arrives(Call(op, at, e, queue, prompt)) /\ FALSE \in BOOLEAN
  BY DEF Calling
<1> QED
  BY <1>1, <1>2, ArrivesMakes

\* A call of the user keeps the types.
LEMMA MadeTypes ==
  ASSUME TypeOK, NEW x, NEW n, NEW state, Made(x, n, state)
  PROVE  TypeOK'
<1>1. /\ calls' \in Seq(CallType) /\ Calls' = Calls \cup {Len(calls) + 1}
      /\ calls'[Len(calls) + 1] = x /\ \A c \in Calls : calls'[c] = calls[c]
      /\ entries' \in Seq(EntryType)
  BY DEF Made, Added, Shows
<1>2. x.session \in 0 .. Len(host') /\ Fits(x) /\ host' = host
  BY DEF Made, TypeOK
<1>3. (\A c \in Calls : calls[c].session \in 0 .. Len(host) /\ Fits(calls[c]))'
  BY <1>1, <1>2 DEF TypeOK
<1> QED
  BY <1>1, <1>2, <1>3 DEF TypeOK, Made

\* Where nothing crosses, nothing was in progress.
LEMMA MadeKeeps ==
  ASSUME TypeOK, Inv, NEW x, NEW n, NEW state, Made(x, n, state), Proper(x, n, state), Clean'
  PROVE  Inv'
<1> USE DEF Inv, CallsInv, BindingInv, EntryInv
<1>1. /\ Len(calls') = Len(calls) + 1 /\ Calls' = Calls \cup {Len(calls) + 1}
      /\ calls'[Len(calls) + 1] = x
      /\ \A d \in Calls : d # Len(calls) + 1 /\ calls'[d] = calls[d]
      /\ Latest' = x
  BY DEF Made, Added
<1>2. /\ UNCHANGED <<home, bound, last, setup, host>> /\ Sessions' = Sessions
      /\ x.session = bound /\ ~x.retried /\ seen'.mixed = seen.mixed
      /\ Cur' = n /\ State' = state /\ Fits(x)
  BY DEF Made, Shows, Sessions
<1>3. /\ Len(calls) \in Nat /\ Calls = 1 .. Len(calls) /\ Sessions = 1 .. Len(host)
      /\ bound \in 0 .. Len(host) /\ Len(host) \in Nat
      /\ Latest.at # "over" => Len(calls) \in Calls /\ Latest = calls[Len(calls)]
      /\ Cur \in Nat
  BY LatestTyped DEF TypeOK, Cur
<1>4. /\ \A c \in Calls : calls[c].at \in Waiting
      /\ \A s \in Sessions : host[s].abort = "none"
      /\ ~Active
  BY <1>3 DEF Made, Clean, InProgress, Active, Waiting
<1>5. n = 0 => Cur = 0 /\ bound = 0 /\ ~canceling
  BY <1>3 DEF Proper, NoEntry
<1>6. bound # 0 /\ State \notin Live => Quiet(bound)
  BY <1>3, <1>4 DEF QuietAtRest
<1>7. /\ x.at \in {"setup", "hydrate", "rebind", "halt"}
      /\ x.at \in {"setup", "halt"} => x.entry = n
      /\ x.at = "rebind" => n = 0
      /\ x.at \in {"setup", "halt"} /\ x.op # "clear" => n # 0
      /\ x.op = "send" => x.at \in {"setup", "rebind"}
      /\ n = Cur \/ (n = Cur + 1 /\ x.at = "setup" /\ x.op # "send" /\ State \notin Live)
      /\ x.at = "hydrate" => State \notin Live \/ bound = 0
      /\ x.at = "setup" /\ x.prompt => state \in Live
      /\ x.op \in {"stop", "abort"} => seen'.asked
      /\ state = "interrupted" => \/ x.op \in {"restore", "chat"} /\ x.at = "hydrate"
                                  \/ x.op \in {"stop", "abort", "clear", "reload"} /\ x.at = "halt"
  BY DEF Proper, Clean
<1>8. canceling' => \/ x.op = "cancel" /\ x.at = "halt" /\ n # 0
                    \/ canceling /\ x.at = "hydrate"
  BY <1>5 DEF Proper
<1>9. canceling => bound = 0
  BY <1>4 DEF CancelIsOver, Active, Waiting, Halting
<1>10. bound # 0 => ~BadIn(host[bound].mail) /\ host[bound].owner = Cur
  BY <1>3, <1>4 DEF BadIsMeant, BoundToCurrent, Replacing, Active, Waiting
<1>11. OneAtATime'
  BY <1>1, <1>4 DEF OneAtATime
<1>12. NoReloadSent'
  BY <1>1, <1>7 DEF NoReloadSent
<1>13. LatestIsCurrent'
  BY <1>1, <1>2, <1>7 DEF LatestIsCurrent
<1>14. RetriesOnce'
  BY <1>1, <1>2, <1>7 DEF RetriesOnce, Retrying, Halting
<1>15. NoAbortMeanwhile'
  BY <1>2, <1>4 DEF NoAbortMeanwhile
<1>16. NoEntry'
  BY <1>2, <1>5, <1>8 DEF NoEntry
<1>17. IsReady'
  BY <1>1, <1>2, <1>7 DEF IsReady, Halting
<1>18. BoundToCurrent'
  BY <1>1, <1>2, <1>6, <1>7, <1>10 DEF BoundToCurrent, Replacing, Quiet
<1>19. QuietAtRest'
  BY <1>1, <1>7 DEF QuietAtRest, Active, Waiting
<1>20. QuietHydrate'
  BY <1>1, <1>2, <1>6, <1>7 DEF QuietHydrate, Quiet
<1>21. BadIsMeant'
  BY <1>2, <1>10 DEF BadIsMeant
<1>22. BoundOrGone'
  BY <1>1, <1>2 DEF BoundOrGone
<1>23. NewSession'
  BY <1>1, <1>7 DEF NewSession
<1>24. CancelIsOver'
  BY <1>1, <1>2, <1>8, <1>9 DEF CancelIsOver, Halting
<1>25. LiveTurn'
  BY <1>1, <1>2, <1>7 DEF LiveTurn, Prompted, Retrying, Halting
<1>26. Undisturbed'
  BY <1>1, <1>7 DEF Undisturbed, Retrying, Halting
<1>27. Asked'
  BY <1>1, <1>2, <1>4, <1>7 DEF Asked
<1>28. StopsAreAsked'
  BY <1>1, <1>2, <1>7 DEF StopsAreAsked, Changing, Halting
<1>29. ~seen'.mixed
  BY <1>2
<1> QED
  BY <1>11, <1>12, <1>13, <1>14, <1>15, <1>16, <1>17, <1>18, <1>19, <1>20, <1>21, <1>22,
     <1>23, <1>24, <1>25, <1>26, <1>27, <1>28, <1>29

\* What the task shows.
LEMMA CurrentTyped ==
  ASSUME TypeOK
  PROVE  /\ Cur \in Nat
         /\ Cur = 0 => State = "none"
         /\ State # "none" => Cur # 0
         /\ entries' = entries => Shows(Cur, State)
<1>1. Cur \in Nat /\ (Cur = 0 => State = "none")
  BY DEF TypeOK, Cur, State
<1>2. entries' = entries => Shows(Cur, State)
  BY EntryStays DEF TypeOK
<1> QED
  BY <1>1, <1>2

\* Each call of the user appends a call, as its guards allow.
LEMMA UserCallIsProper ==
  ASSUME TypeOK, UserCalls
  PROVE  \E x, n, state : Made(x, n, state) /\ Proper(x, n, state)
<1>1. /\ Cur \in Nat /\ (Cur = 0 => State = "none") /\ entries \in Seq(EntryType)
      /\ entries' = entries => Shows(Cur, State)
      /\ canceling \in BOOLEAN
      /\ {"start", "restore", "chat", "send", "stop", "abort", "cancel", "reload", "clear"} \subseteq Ops
      /\ {"setup", "hydrate", "rebind", "halt"} \subseteq Ats
      /\ TRUE \in BOOLEAN /\ FALSE \in BOOLEAN /\ 0 \in Nat
  BY CurrentTyped DEF TypeOK, Ops, Ats
<1>2. ASSUME NEW prompt \in BOOLEAN, StartTaskSession(prompt)
      PROVE  \E x, n, state : Made(x, n, state) /\ Proper(x, n, state)
  <2> DEFINE x == Call("start", "setup", Cur + 1, FALSE, prompt)
             state == IF prompt THEN "running" ELSE "idle"
  <2>1. state \in States /\ "none" \in Reasons
    BY DEF States, Reasons
  <2>2. Shows(Cur + 1, state)
    BY <1>1, <1>2, <2>1, EntryAdded DEF StartTaskSession
  <2>3. /\ Aside /\ canceling' \in BOOLEAN
        /\ Calling("start", "setup", Cur + 1, FALSE, prompt, FALSE)
    BY <1>2, Zenon DEF StartTaskSession
  <2>4. /\ Fits(x) /\ Cur + 1 \in Nat
        /\ "start" \in Ops /\ "setup" \in Ats
    BY <1>1 DEF Fits, Call, Halting
  <2> HIDE DEF state
  <2>5. Made(x, Cur + 1, state)
    BY <1>1, <2>2, <2>3, <2>4, CallingMakes, Zenon
  <2>6. Proper(x, Cur + 1, state)
    BY <1>1, <1>2 DEF Proper, Call, StartTaskSession, Live, state
  <2> QED
    BY <2>5, <2>6
<1>3. CASE RestoreTaskSession
  <2> DEFINE x == Call("restore", "hydrate", 0, FALSE, FALSE)
  <2>1. Shows(Cur, State) /\ Fits(x)
    BY <1>1, <1>3 DEF RestoreTaskSession, Fits, Call, Halting
  <2>2. Arrives(x) /\ Aside /\ canceling' = canceling
    BY <1>3 DEF RestoreTaskSession
  <2>3. seen' = [seen EXCEPT !.crossed = @ \/ InProgress, !.asked = FALSE,
                             !.failed = IF AtRest THEN @ ELSE TRUE]
    BY <1>3 DEF RestoreTaskSession
  <2>4. Made(x, Cur, State) /\ (~AtRest => seen'.failed)
    <3>1. CASE AtRest
      <4>1. seen' = [seen EXCEPT !.crossed = @ \/ InProgress, !.asked = FALSE, !.failed = @ \/ FALSE]
        BY <2>3, <3>1 DEF TypeOK, SeenType
      <4> QED
        BY <1>1, <2>1, <2>2, <3>1, <4>1, ArrivesMakes
    <3>2. CASE ~AtRest
      <4>1. seen' = [seen EXCEPT !.crossed = @ \/ InProgress, !.asked = FALSE, !.failed = @ \/ TRUE]
        BY <2>3, <3>2 DEF TypeOK, SeenType
      <4> QED
        BY <1>1, <2>1, <2>2, <4>1, ArrivesMakes
    <3> QED
      BY <3>1, <3>2
  <2>5. Proper(x, Cur, State)
    BY <1>1, <2>2, <2>4 DEF Proper, Call, Live, AtRest
  <2> QED
    BY <2>4, <2>5
<1>4. CASE SendMessage
  <2>1. CASE /\ State \in Sendable
             /\ entries' = Accepted /\ canceling' = FALSE
             /\ Calling("send", "setup", Cur, State = "running", TRUE, FALSE)
    <3> DEFINE x == Call("send", "setup", Cur, State = "running", TRUE)
    <3>1. Cur # 0 /\ "running" \in States /\ "none" \in Reasons
      BY <1>1, <2>1 DEF Sendable, States, Reasons
    <3>2. Shows(Cur, "running")
      BY <1>1, <2>1, <3>1, EntryPatched DEF Accepted
    <3>3. /\ Fits(x) /\ Aside /\ (State = "running") \in BOOLEAN
          /\ canceling' \in BOOLEAN /\ "send" \in Ops /\ "setup" \in Ats
          /\ Calling("send", "setup", Cur, State = "running", TRUE, FALSE)
      BY <1>1, <1>4, <2>1 DEF Fits, Call, Halting, SendMessage
    <3>4. Made(x, Cur, "running")
      BY <1>1, <3>2, <3>3, CallingMakes, Zenon
    <3>5. Proper(x, Cur, "running")
      BY <2>1, <3>1 DEF Proper, Call, Live
    <3> QED
      BY <3>4, <3>5
  <2>2. CASE /\ Cur = 0
             /\ Calling("send", "rebind", 0, FALSE, TRUE, FALSE)
             /\ UNCHANGED <<entries, canceling>>
    <3> DEFINE x == Call("send", "rebind", 0, FALSE, TRUE)
    <3>1. Shows(Cur, State) /\ Fits(x) /\ Aside
      BY <1>1, <1>4, <2>2 DEF Fits, Call, Halting, SendMessage
    <3>2. Made(x, Cur, State)
      BY <1>1, <2>2, <3>1, CallingMakes
    <3>3. Proper(x, Cur, State)
      BY <1>1, <2>2 DEF Proper, Call
    <3> QED
      BY <3>2, <3>3
  <2>3. CASE /\ State \notin Sendable \/ bound = 0
             /\ Calling("chat", "hydrate", 0, FALSE, TRUE, FALSE)
             /\ canceling' = (canceling /\ State \notin Sendable)
             /\ UNCHANGED entries
    <3> DEFINE x == Call("chat", "hydrate", 0, FALSE, TRUE)
    <3>1. Shows(Cur, State) /\ Fits(x) /\ Aside /\ canceling' \in BOOLEAN
      BY <1>1, <1>4, <2>3 DEF Fits, Call, Halting, SendMessage
    <3>2. Made(x, Cur, State)
      BY <1>1, <2>3, <3>1, CallingMakes
    <3>3. Proper(x, Cur, State)
      BY <2>3 DEF Proper, Call, Sendable, Live
    <3> QED
      BY <3>2, <3>3
  <2> QED
    BY <1>4, <2>1, <2>2, <2>3 DEF SendMessage
<1>5. CASE StopTaskSession
  <2> DEFINE at == IF Cur = 0 THEN "rebind" ELSE "halt"
             x == Call("stop", at, Cur, FALSE, FALSE)
  <2>1. /\ Shows(Cur, State) /\ Fits(x) /\ at \in Ats /\ canceling' \in BOOLEAN
        /\ Calling("stop", at, Cur, FALSE, FALSE, TRUE) /\ Aside /\ "stop" \in Ops
    BY <1>1, <1>5 DEF StopTaskSession, Fits, Call, Halting
  <2> HIDE DEF at
  <2>2. Made(x, Cur, State) /\ seen'.asked = TRUE
    BY <1>1, <2>1, CallingMakes, Zenon
  <2>3. Proper(x, Cur, State)
    BY <1>1, <1>5, <2>2 DEF Proper, Call, StopTaskSession, at
  <2> QED
    BY <2>2, <2>3
<1>6. CASE AbortTaskSession
  <2> DEFINE x == Call("abort", "halt", Cur, FALSE, FALSE)
  <2>1. /\ Shows(Cur, State) /\ Fits(x) /\ "halt" \in Ats /\ canceling' \in BOOLEAN
        /\ Calling("abort", "halt", Cur, FALSE, FALSE, TRUE) /\ Aside /\ "abort" \in Ops
    BY <1>1, <1>6 DEF AbortTaskSession, Fits, Call, Halting
  <2>2. Made(x, Cur, State) /\ seen'.asked = TRUE
    BY <1>1, <2>1, CallingMakes, Zenon
  <2>3. Proper(x, Cur, State)
    BY <1>1, <1>6, <2>2 DEF Proper, Call, AbortTaskSession
  <2> QED
    BY <2>2, <2>3
<1>7. CASE CancelTaskTurn
  <2> DEFINE x == Call("cancel", "halt", Cur, FALSE, FALSE)
  <2>1. Shows(Cur, State) /\ Fits(x)
    BY <1>1, <1>7 DEF CancelTaskTurn, Fits, Call, Halting
  <2>2. Made(x, Cur, State)
    BY <1>1, <1>7, <2>1, CallingMakes DEF CancelTaskTurn
  <2>3. Proper(x, Cur, State)
    BY <1>1, <1>7 DEF Proper, Call, CancelTaskTurn
  <2> QED
    BY <2>2, <2>3
<1>8. CASE ReloadTaskSession
  <2> DEFINE at == IF Cur = 0 THEN "rebind" ELSE "halt"
             x == Call("reload", at, Cur, FALSE, FALSE)
  <2>1. Shows(Cur, State) /\ Fits(x) /\ at \in Ats /\ canceling' \in BOOLEAN
    BY <1>1, <1>8 DEF ReloadTaskSession, Fits, Call, Halting
  <2>2. Made(x, Cur, State)
    BY <1>1, <1>8, <2>1, CallingMakes DEF ReloadTaskSession
  <2>3. Proper(x, Cur, State)
    BY <1>1, <1>8 DEF Proper, Call, ReloadTaskSession
  <2> QED
    BY <2>2, <2>3
<1>9. CASE ClearTaskSession
  <2> DEFINE x == Call("clear", "halt", Cur, FALSE, FALSE)
  <2>1. Shows(Cur, State) /\ Fits(x)
    BY <1>1, <1>9 DEF ClearTaskSession, Fits, Call, Halting
  <2>2. Made(x, Cur, State)
    BY <1>1, <1>9, <2>1, CallingMakes DEF ClearTaskSession
  <2>3. Proper(x, Cur, State)
    BY <1>1, <1>9 DEF Proper, Call, ClearTaskSession
  <2> QED
    BY <2>2, <2>3
<1> QED
  BY <1>2, <1>3, <1>4, <1>5, <1>6, <1>7, <1>8, <1>9 DEF UserCalls

\* The calls of the user keep the types.
LEMMA UserCallsTypes ==
  ASSUME TypeOK, UserCalls
  PROVE  TypeOK'
  BY UserCallIsProper, MadeTypes

\* The calls of the user keep the invariant, unless they cross.
LEMMA UserCallsKeep ==
  ASSUME TypeOK, Inv, UserCalls, Clean'
  PROVE  Inv'
  BY UserCallIsProper, MadeKeeps
------------------------------------------------------------------------------
(***************************************************************************)
(* The runtime process is started again.                                   *)
(***************************************************************************)
\* A restart leaves nothing in progress, and nothing bound.
LEMMA RuntimeRestartKeeps ==
  ASSUME TypeOK, RuntimeRestart
  PROVE  TypeOK' /\ Inv'
<1>1. /\ Len(calls) \in Nat /\ Calls = 1 .. Len(calls) /\ Len(host) \in Nat
      /\ Sessions = 1 .. Len(host) /\ host \in Seq(SessionType)
  BY LatestTyped DEF TypeOK
<1>2. /\ entries' = <<>> /\ bound' = 0 /\ last' = FALSE /\ canceling' = FALSE /\ setup' = "unknown"
      /\ seen' = [crossed |-> FALSE, failed |-> FALSE, asked |-> FALSE, mixed |-> FALSE]
      /\ home' = home
  BY DEF RuntimeRestart
<1>3. calls' \in Seq(CallType) /\ Calls' = Calls /\ \A c \in Calls : calls'[c] = Over
  <2>1. calls' = [c \in 1 .. Len(calls) |-> Over] /\ Over \in CallType
    BY <1>1, OverIsCall DEF RuntimeRestart
  <2>2. calls' \in Seq(CallType) /\ DOMAIN calls' = 1 .. Len(calls)
        /\ \A c \in 1 .. Len(calls) : calls'[c] = Over
    BY <1>1, <2>1
  <2> QED
    BY <1>1, <2>2 DEF Calls
<1>4. /\ host' \in Seq(SessionType) /\ Sessions' = Sessions
      /\ \A s \in Sessions : host'[s].abort = "none"
  <2> DEFINE new(s) == [host[s] EXCEPT !.life = "ended", !.queue = 0, !.mail = <<>>,
                                       !.abort = "none", !.owner = 0]
  <2>1. <<>> \in Seq(Events)
    OBVIOUS
  <2>2. ASSUME NEW s \in Sessions
        PROVE  new(s) \in SessionType /\ new(s).abort = "none"
    <3>1. host[s] \in SessionType
      BY <1>1, SessionTyped
    <3> QED
      BY <2>1, <3>1 DEF SessionType
  <2>3. host' = [s \in 1 .. Len(host) |-> new(s)]
    BY <1>1 DEF RuntimeRestart
  <2> HIDE DEF new
  <2>4. host' \in Seq(SessionType) /\ DOMAIN host' = 1 .. Len(host)
        /\ \A s \in 1 .. Len(host) : host'[s] = new(s)
    BY <1>1, <2>2, <2>3
  <2> QED
    BY <1>1, <2>2, <2>4 DEF Sessions
<1>5. /\ Over.at = "over" /\ Over.op = "none" /\ Over.session = 0 /\ ~Over.retried /\ ~Over.prompt
      /\ Fits(Over)
  BY DEF Over, Fits, Halting
<1>6. Latest' = Over
  <2>1. CASE calls' = <<>>
    BY <2>1 DEF Latest
  <2>2. CASE calls' # <<>>
    <3>1. Len(calls') \in DOMAIN calls'
      BY <1>3, <2>2
    <3> QED
      BY <1>3, <2>2, <3>1 DEF Latest, Calls
  <2> QED
    BY <2>1, <2>2
<1>7. Cur' = 0 /\ State' = "none"
  BY <1>2 DEF Cur, State
<1>8. TypeOK'
  <2>1. (\A c \in Calls : calls[c].session \in 0 .. Len(host) /\ Fits(calls[c]))'
    BY <1>3, <1>4, <1>5
  <2>2. seen' \in SeenType
    BY <1>2 DEF SeenType
  <2>3. entries' \in Seq(EntryType) /\ bound' \in 0 .. Len(host')
    BY <1>2, <1>4
  <2> QED
    BY <1>2, <1>3, <1>4, <2>1, <2>2, <2>3 DEF TypeOK
<1>9. CallsInv'
  BY <1>3, <1>5, <1>6 DEF CallsInv, OneAtATime, NoReloadSent, LatestIsCurrent, RetriesOnce,
     Retrying, Active, Waiting, NoAbortMeanwhile
<1>10. BindingInv'
  BY <1>2, <1>3, <1>5, <1>6 DEF BindingInv, NoEntry, IsReady, BoundToCurrent, QuietAtRest,
     QuietHydrate, BadIsMeant, BoundOrGone, NewSession
<1>11. EntryInv'
  BY <1>2, <1>4, <1>5, <1>6, <1>7 DEF EntryInv, CancelIsOver, LiveTurn, Prompted, Retrying,
     Undisturbed, Asked, StopsAreAsked
<1> QED
  BY <1>2, <1>8, <1>9, <1>10, <1>11 DEF Inv
------------------------------------------------------------------------------
(***************************************************************************)
(* The steps of a call. Call c becomes x, and n entries are left of which  *)
(* the current one is in this state.                                       *)
(***************************************************************************)
Moves(c, x, n, state) ==
  /\ Becomes(c, x) /\ x.session \in 0 .. Len(host') /\ Fits(x) /\ Shows(n, state)
  /\ host' \in Seq(SessionType) /\ Len(host) <= Len(host') /\ bound' \in 0 .. Len(host')
  /\ home' = home /\ last' \in BOOLEAN /\ canceling' \in BOOLEAN
  /\ setup' \in {"unknown", "ready", "broken"} /\ seen' \in SeenType

\* A step of a call keeps the types.
LEMMA MovesTypes ==
  ASSUME TypeOK, NEW c \in Calls, NEW x, NEW n, NEW state, Moves(c, x, n, state)
  PROVE  TypeOK'
<1>1. /\ calls' \in Seq(CallType) /\ Calls' = Calls /\ calls'[c] = x
      /\ \A d \in Calls : d # c => calls'[d] = calls[d]
      /\ host \in Seq(SessionType) /\ host' \in Seq(SessionType) /\ Len(host) <= Len(host')
  BY DEF Moves, Becomes, TypeOK
<1>2. \A d \in Calls : calls[d].session \in 0 .. Len(host) /\ Fits(calls[d])
  BY DEF TypeOK
<1>3. Len(host) \in Nat /\ Len(host') \in Nat
  BY <1>1
<1>4. (\A d \in Calls : calls[d].session \in 0 .. Len(host) /\ Fits(calls[d]))'
  BY <1>1, <1>2, <1>3 DEF Moves
<1> QED
  BY <1>1, <1>4 DEF TypeOK, Moves, Shows

\* While nothing crosses, a call in progress is the latest one.
LEMMA LatestCalled ==
  ASSUME TypeOK, Inv, NEW c \in Calls, calls[c].at \notin Waiting
  PROVE  c = Len(calls) /\ Latest = calls[c] /\ Active
<1>1. c = Len(calls)
  BY DEF Inv, CallsInv, OneAtATime
<1> QED
  BY <1>1, LatestTyped DEF Active

\* A call of the user is a call, on what there is.
LEMMA CallTyped ==
  ASSUME TypeOK, NEW c \in Calls
  PROVE  /\ calls[c] \in CallType /\ calls[c].session \in 0 .. Len(host) /\ Fits(calls[c])
         /\ calls \in Seq(CallType) /\ host \in Seq(SessionType) /\ entries \in Seq(EntryType)
         /\ Len(host) \in Nat /\ Cur \in Nat /\ bound \in 0 .. Len(host)
         /\ Sessions = 1 .. Len(host)
  BY LatestTyped, CurrentTyped DEF TypeOK, Calls

\* A call goes on to its next stage.
LEMMA GoBecomes ==
  ASSUME TypeOK, NEW c \in Calls, NEW at \in Ats \ {"over"}, Go(c, at)
  PROVE  /\ [calls[c] EXCEPT !.at = at] \in CallType
         /\ Becomes(c, [calls[c] EXCEPT !.at = at])
<1> DEFINE x == [calls[c] EXCEPT !.at = at]
<1>1. x \in CallType /\ calls' = [calls EXCEPT ![c] = x]
  BY CallTyped DEF CallType, Go
<1> HIDE DEF x
<1> QED
  BY <1>1, CallTyped, CallBecomes DEF x

\* A call is over.
LEMMA OverBecomes ==
  ASSUME TypeOK, NEW c \in Calls, Go(c, "over")
  PROVE  Becomes(c, Over) /\ Fits(Over) /\ Over.session \in 0 .. Len(host)
<1>1. calls' = [calls EXCEPT ![c] = Over]
  BY DEF Go
<1>2. Fits(Over) /\ Over.session = 0
  BY DEF Over, Fits, Halting
<1>3. Over \in CallType /\ calls \in Seq(CallType) /\ Len(host) \in Nat
  BY OverIsCall, CallTyped
<1>4. Becomes(c, Over)
  BY <1>1, <1>3, CallBecomes
<1> QED
  BY <1>2, <1>3, <1>4

\* A failure in the background is shown on the entry of the call.
LEMMA FailsShows ==
  ASSUME TypeOK, NEW c \in Calls, Fails(c)
  PROVE  /\ Becomes(c, Over)
         /\ Shows(Cur, IF calls[c].entry = Cur /\ Cur # 0 THEN "awaiting_review" ELSE State)
<1>1. Becomes(c, Over)
  BY OverBecomes DEF Fails
<1>2. calls[c].entry \in Nat /\ entries \in Seq(EntryType)
  BY CallTyped DEF CallType
<1>3. "awaiting_review" \in States /\ "error" \in Reasons
  BY DEF States, Reasons
<1>4. entries' = Patched(calls[c].entry, "awaiting_review", "error")
  BY DEF Fails, Failed
<1> DEFINE e == calls[c].entry
<1>5. e \in Nat /\ entries' = Patched(e, "awaiting_review", "error")
  BY <1>2, <1>4
<1> HIDE DEF e
<1>6. Shows(Cur, IF e = Cur /\ Cur # 0 THEN "awaiting_review" ELSE State)
  BY <1>2, <1>3, <1>5, EntryPatched
<1> QED
  BY <1>1, <1>6 DEF e

\* A failure in the background keeps the types.
LEMMA FailsTypes ==
  ASSUME TypeOK, NEW c \in Calls, Fails(c), host' = host, bound' \in {0, bound},
         home' = home, last' = last, canceling' = canceling, seen' = seen,
         setup' \in {"unknown", "ready", "broken"}
  PROVE  TypeOK'
<1> DEFINE state == IF calls[c].entry = Cur /\ Cur # 0 THEN "awaiting_review" ELSE State
<1>1. Becomes(c, Over) /\ Shows(Cur, state)
  BY FailsShows
<1>2. Fits(Over) /\ Over.session \in 0 .. Len(host)
  BY OverBecomes DEF Fails
<1> HIDE DEF state
<1>3. Moves(c, Over, Cur, state)
  BY <1>1, <1>2, CallTyped DEF Moves, TypeOK
<1> QED
  BY <1>3, MovesTypes

\* A failure in the background keeps the invariant: its task waits for the
\* user.
LEMMA FailsKeeps ==
  ASSUME TypeOK, Inv, NEW c \in Calls, Fails(c),
         calls[c].at \in {"setup", "read", "starting", "rejected", "refused"},
         calls[c].at = "setup" => bound = 0,
         bound' \in {bound, Unbound(calls[c].session)}, setup = "ready" => setup' = "ready",
         UNCHANGED <<home, last, canceling, host, seen>>
  PROVE  Inv'
<1> USE DEF Inv, CallsInv, BindingInv, EntryInv
<1>1. /\ Len(calls') = Len(calls) /\ Calls' = Calls /\ calls'[c] = Over
      /\ \A d \in Calls : d # c => calls'[d] = calls[d]
      /\ Latest' = IF c = Len(calls) THEN Over ELSE Latest
      /\ Cur' = Cur /\ State' = IF calls[c].entry = Cur /\ Cur # 0 THEN "awaiting_review" ELSE State
  BY FailsShows DEF Becomes, Shows
<1>2. /\ Over.at = "over" /\ Over.session = 0 /\ ~Over.retried /\ Over.op = "none" /\ ~Over.prompt
      /\ Len(calls) \in Nat /\ Calls = 1 .. Len(calls)
      /\ c = Len(calls) => Latest = calls[c]
      /\ Cur \in Nat /\ (Cur = 0 => State = "none") /\ Sessions = 1 .. Len(host)
      /\ bound \in 0 .. Len(host)
      /\ Latest.session \in 0 .. Len(host)
  BY LatestTyped, CurrentTyped DEF Over, TypeOK
<1>3. /\ UNCHANGED <<home, last, canceling, host, seen>> /\ Sessions' = Sessions
      /\ setup = "ready" => setup' = "ready"
      /\ bound' \in {0, bound}
      /\ bound' # bound => bound = calls[c].session
  BY DEF Sessions, Unbound
<1>4. /\ calls[c].at \in {"setup", "read", "starting", "rejected", "refused"}
      /\ calls[c].at \notin {"rejected", "refused"} => c = Len(calls) /\ calls[c].entry = Cur
      /\ calls[c].at = "setup" => bound = 0
  BY <1>2 DEF OneAtATime, Waiting, LatestIsCurrent
<1>5. ~Active /\ State \notin Live => bound = 0 \/ host[bound].abort # "none" \/ Quiet(bound)
  BY DEF QuietAtRest
<1>6. ~Active' /\ State' \notin Live => bound = 0 \/ (~Active /\ State \notin Live)
  BY <1>1, <1>2, <1>4 DEF Active, Waiting, Live, NoEntry
<1>7. OneAtATime'
  BY <1>1, <1>2 DEF OneAtATime, Waiting
<1>8. NoReloadSent'
  BY <1>1, <1>2 DEF NoReloadSent
<1>9. LatestIsCurrent'
  BY <1>1, <1>2 DEF LatestIsCurrent
<1>10. RetriesOnce'
  BY <1>1, <1>2 DEF RetriesOnce, Retrying, Active
<1>11. NoAbortMeanwhile'
  BY <1>1, <1>2, <1>3 DEF NoAbortMeanwhile, Active, Waiting
<1>12. NoEntry'
  BY <1>1, <1>3 DEF NoEntry
<1>13. IsReady'
  BY <1>1, <1>2, <1>3 DEF IsReady
<1>14. BoundToCurrent'
  BY <1>1, <1>2, <1>3 DEF BoundToCurrent, Replacing, Quiet
<1>15. QuietAtRest'
  BY <1>3, <1>6 DEF QuietAtRest, Quiet
<1>16. QuietHydrate'
  BY <1>1, <1>2, <1>3 DEF QuietHydrate, Quiet
<1>17. BadIsMeant'
  BY <1>1, <1>2, <1>3 DEF BadIsMeant
<1>18. BoundOrGone'
  BY <1>1, <1>2, <1>3 DEF BoundOrGone, Halting
<1>19. NewSession'
  BY <1>1, <1>2, <1>3 DEF NewSession, Quiet
<1>20. CancelIsOver'
  BY <1>1, <1>2, <1>3 DEF CancelIsOver, Halting
<1>21. LiveTurn'
  BY <1>1, <1>2 DEF LiveTurn, Prompted, Retrying, Live
<1>22. Undisturbed'
  BY <1>1, <1>2 DEF Undisturbed, Retrying
<1>23. Asked'
  BY <1>1, <1>2, <1>3 DEF Asked
<1>24. StopsAreAsked'
  BY <1>1, <1>2, <1>4 DEF StopsAreAsked, Changing, Halting
<1>25. ~seen'.mixed
  OBVIOUS
<1> QED
  BY <1>7, <1>8, <1>9, <1>10, <1>11, <1>12, <1>13, <1>14, <1>15, <1>16, <1>17, <1>18,
     <1>19, <1>20, <1>21, <1>22, <1>23, <1>24, <1>25
\* The call goes on; what it is for stays the same.
GoesOn(c, x) ==
  /\ x \in CallType /\ Becomes(c, x) /\ x.entry = calls[c].entry
  /\ x.op = calls[c].op /\ x.prompt = calls[c].prompt /\ x.retried = calls[c].retried

\* A new session is bound before the host knows it.
LEMMA BeginsDoes ==
  ASSUME TypeOK, NEW c \in Calls, Begins(c, calls[c].entry), calls[c].op # "clear"
  PROVE  \E x, z : /\ GoesOn(c, x) /\ x.at = "starting" /\ x.session = Len(host) + 1 /\ Fits(x)
                   /\ z \in SessionType /\ Opened(z) /\ z.life = "none" /\ z.mail = <<>>
                   /\ z.owner = calls[c].entry /\ z.abort = "none"
                   /\ bound' = Len(host) + 1
<1> DEFINE z == [life |-> "none", queue |-> 0, mail |-> <<>>, owner |-> calls[c].entry,
                 stored |-> FALSE, abort |-> "none"]
           x == [calls[c] EXCEPT !.at = "starting", !.session = Len(host) + 1, !.own = TRUE]
<1>1. calls[c] \in CallType /\ Len(host) \in Nat /\ Fits(calls[c]) /\ host \in Seq(SessionType)
      /\ calls \in Seq(CallType) /\ calls[c].entry \in Nat
  BY CallTyped DEF CallType
<1>2. <<>> \in Seq(Events)
  OBVIOUS
<1>3. z \in SessionType /\ z.life = "none" /\ z.mail = <<>> /\ z.owner = calls[c].entry /\ z.abort = "none"
  BY <1>1, <1>2 DEF SessionType
<1>4. /\ x \in CallType /\ x.at = "starting" /\ x.session = Len(host) + 1 /\ x.entry = calls[c].entry
      /\ x.op = calls[c].op /\ x.prompt = calls[c].prompt /\ x.retried = calls[c].retried
  <2> DEFINE n == Len(host) + 1
  <2>1. n \in Nat
    BY <1>1
  <2> HIDE DEF n
  <2>2. /\ [calls[c] EXCEPT !.at = "starting", !.session = n, !.own = TRUE] \in CallType
        /\ x.at = "starting" /\ x.session = n /\ x.entry = calls[c].entry
        /\ x.op = calls[c].op /\ x.prompt = calls[c].prompt /\ x.retried = calls[c].retried
    BY <1>1, <2>1 DEF CallType, Ats, n
  <2> QED
    BY <2>2 DEF n
<1>5. host' = Append(host, z) /\ bound' = Len(host) + 1 /\ calls' = [calls EXCEPT ![c] = x]
  BY DEF Begins
<1> HIDE DEF z, x
<1>6. Opened(z) /\ Becomes(c, x)
  BY <1>1, <1>3, <1>4, <1>5, SessionOpened, CallBecomes
<1>7. Fits(x)
  BY <1>1, <1>4 DEF Fits, Halting
<1> QED
  BY <1>3, <1>4, <1>5, <1>6, <1>7 DEF GoesOn

\* A new session keeps the types.
LEMMA BeginsTypes ==
  ASSUME TypeOK, NEW c \in Calls, Begins(c, calls[c].entry), calls[c].op # "clear", entries' = entries, home' = home,
         last' \in BOOLEAN, canceling' \in BOOLEAN, setup' \in {"unknown", "ready", "broken"},
         seen' \in SeenType
  PROVE  TypeOK'
<1>1. PICK x, z : /\ GoesOn(c, x) /\ x.session = Len(host) + 1 /\ Fits(x)
                  /\ Opened(z) /\ bound' = Len(host) + 1
  BY BeginsDoes
<1>2. host' \in Seq(SessionType) /\ Len(host') = Len(host) + 1 /\ Len(host) \in Nat
      /\ Becomes(c, x) /\ Shows(Cur, State)
  BY <1>1, CallTyped, CurrentTyped DEF Opened, GoesOn
<1>3. x.session \in 0 .. Len(host') /\ bound' \in 0 .. Len(host') /\ Len(host) <= Len(host')
  BY <1>1, <1>2
<1>4. Moves(c, x, Cur, State)
  BY <1>1, <1>2, <1>3 DEF Moves
<1> QED
  BY <1>4, MovesTypes

\* A new session belongs to the current entry, and is quiet.
LEMMA BeginsKeeps ==
  ASSUME TypeOK, Inv, NEW c \in Calls, Begins(c, calls[c].entry),
         calls[c].at \in {"setup", "read"} \/ (calls[c].at = "halted" /\ calls[c].op = "send"),
         setup' = "ready", UNCHANGED <<home, entries, canceling, seen>>
  PROVE  Inv'
<1> USE DEF Inv, CallsInv, BindingInv, EntryInv
<1>1. PICK x, z : /\ GoesOn(c, x) /\ x.at = "starting" /\ x.session = Len(host) + 1 /\ Fits(x)
                  /\ z \in SessionType /\ Opened(z) /\ z.life = "none" /\ z.mail = <<>>
                  /\ z.owner = calls[c].entry /\ z.abort = "none"
                  /\ bound' = Len(host) + 1
  <2>1. calls[c].op # "clear"
    BY CallTyped DEF Fits, Halting
  <2> QED
    BY <2>1, BeginsDoes
<1>2. c = Len(calls) /\ Latest = calls[c] /\ Active
  BY LatestCalled DEF Waiting
<1>3. /\ Len(calls') = Len(calls) /\ Calls' = Calls /\ calls'[c] = x
      /\ \A d \in Calls : d # c => calls'[d] = calls[d]
      /\ Latest' = x /\ x.entry = Latest.entry /\ x.op = Latest.op /\ x.prompt = Latest.prompt
      /\ x.retried = Latest.retried
  BY <1>1, <1>2 DEF GoesOn, Becomes
<1>4. /\ Sessions' = Sessions \cup {Len(host) + 1} /\ host'[bound'] = z
      /\ \A t \in Sessions : host'[t] = host[t]
      /\ Len(calls) \in Nat /\ Calls = 1 .. Len(calls)
      /\ Cur \in Nat /\ Cur' = Cur /\ State' = State /\ Sessions = 1 .. Len(host) /\ Len(host) \in Nat
      /\ \A d \in Calls : calls[d].session \in 0 .. Len(host)
  BY <1>1, LatestTyped, CurrentTyped DEF Opened, Shows, TypeOK
<1>5. \/ Latest.at \in {"setup", "read"} /\ ~Latest.retried
      \/ Latest.at = "halted" /\ Latest.op = "send"
  BY <1>2 DEF RetriesOnce
<1>6. Latest.entry = Cur /\ ~canceling /\ ~BadIn(<<>>)
  BY <1>5 DEF LatestIsCurrent, CancelIsOver, Halting, BadIn
<1>7. UNCHANGED <<home, entries, canceling, seen>> /\ setup' = "ready"
  OBVIOUS
<1>8. Cur # 0 /\ bound' # 0
  <2>1. Latest.op # "clear"
    BY <1>2, <1>5, CallTyped DEF Fits, Halting
  <2> QED
    BY <1>1, <1>4, <1>5, <2>1 DEF LatestIsCurrent
<1>9. OneAtATime'
  BY <1>3 DEF OneAtATime, Waiting
<1>10. NoReloadSent'
  BY <1>1, <1>3 DEF NoReloadSent
<1>11. LatestIsCurrent'
  BY <1>1, <1>3, <1>4, <1>6, <1>8 DEF LatestIsCurrent
<1>12. RetriesOnce'
  BY <1>1, <1>3, <1>5 DEF RetriesOnce, Retrying, Halting
<1>13. NoAbortMeanwhile'
  BY <1>1, <1>3, <1>4, <1>5 DEF NoAbortMeanwhile, Active, Waiting
<1>14. NoEntry'
  BY <1>4, <1>8 DEF NoEntry
<1>15. IsReady'
  BY DEF IsReady
<1>16. BoundToCurrent'
  BY <1>1, <1>2, <1>4, <1>6 DEF BoundToCurrent
<1>17. QuietAtRest'
  BY <1>1, <1>4 DEF QuietAtRest, Quiet
<1>18. QuietHydrate'
  BY <1>1, <1>4 DEF QuietHydrate, Quiet
<1>19. BadIsMeant'
  BY <1>1, <1>4, <1>6 DEF BadIsMeant
<1>20. BoundOrGone'
  BY <1>1, <1>3 DEF BoundOrGone
<1>21. NewSession'
  BY <1>1, <1>2, <1>3, <1>4 DEF NewSession, Quiet
<1>22. CancelIsOver'
  BY <1>6 DEF CancelIsOver
<1>23. LiveTurn'
  BY <1>1, <1>3, <1>4, <1>5 DEF LiveTurn, Prompted, Retrying, Halting
<1>24. Undisturbed'
  BY <1>1, <1>3 DEF Undisturbed, Retrying, Halting
<1>25. Asked'
  BY <1>1, <1>3, <1>4 DEF Asked
<1>26. StopsAreAsked'
  BY <1>1, <1>3, <1>4, <1>5 DEF StopsAreAsked, Changing, Halting
<1>27. ~seen'.mixed
  OBVIOUS
<1> QED
  BY <1>9, <1>10, <1>11, <1>12, <1>13, <1>14, <1>15, <1>16, <1>17, <1>18, <1>19, <1>20,
     <1>21, <1>22, <1>23, <1>24, <1>25, <1>26, <1>27

\* A prompt is sent to the session bound, which takes or refuses it.
LEMMA HostSendsDoes ==
  ASSUME TypeOK, NEW c \in Calls, NEW s \in Sessions, HostSends(c, s), calls[c].op # "clear"
  PROVE  \E x, y : /\ GoesOn(c, x) /\ x.at \in {"sending", "refused"} /\ x.session = s /\ Fits(x)
                   /\ y \in SessionType /\ Turns(s, y) /\ y.mail = host[s].mail
                   /\ y.owner = host[s].owner /\ y.abort = host[s].abort
<1>1. calls[c] \in CallType /\ Len(host) \in Nat /\ Fits(calls[c]) /\ host \in Seq(SessionType)
      /\ calls \in Seq(CallType) /\ s \in Nat /\ host[s] \in SessionType
  BY CallTyped, SessionTyped
<1>2. ASSUME NEW at \in {"sending", "refused"},
             calls' = [calls EXCEPT ![c].at = at, ![c].session = s, ![c].own = FALSE],
             NEW y \in SessionType, host' = [host EXCEPT ![s] = y], y.mail = host[s].mail,
             y.owner = host[s].owner, y.abort = host[s].abort
      PROVE  \E x, w : /\ GoesOn(c, x) /\ x.at \in {"sending", "refused"} /\ x.session = s /\ Fits(x)
                       /\ w \in SessionType /\ Turns(s, w) /\ w.mail = host[s].mail
                       /\ w.owner = host[s].owner /\ w.abort = host[s].abort
  <2> DEFINE x == [calls[c] EXCEPT !.at = at, !.session = s, !.own = FALSE]
  <2>1. /\ x \in CallType /\ x.at = at /\ x.session = s /\ x.entry = calls[c].entry
        /\ x.op = calls[c].op /\ x.prompt = calls[c].prompt /\ x.retried = calls[c].retried
    BY <1>1 DEF CallType, Ats
  <2>2. calls' = [calls EXCEPT ![c] = x]
    BY <1>1, <1>2
  <2> HIDE DEF x
  <2>3. Becomes(c, x) /\ Turns(s, y)
    BY <1>1, <1>2, <2>1, <2>2, CallBecomes, SessionTurns
  <2>4. Fits(x)
    BY <1>1, <2>1 DEF Fits, Halting
  <2> QED
    BY <1>2, <2>1, <2>3, <2>4 DEF GoesOn
<1>3. \/ /\ calls' = [calls EXCEPT ![c].at = "sending", ![c].session = s, ![c].own = FALSE]
         /\ \/ host' = [host EXCEPT ![s].life = "busy"]
            \/ host' = [host EXCEPT ![s].queue = @ + 1]
      \/ /\ calls' = [calls EXCEPT ![c].at = "refused", ![c].session = s, ![c].own = FALSE]
         /\ host' = host
  BY DEF HostSends
<1>4. ASSUME NEW y, y = [host[s] EXCEPT !.life = "busy"] \/ y = [host[s] EXCEPT !.queue = @ + 1] \/ y = host[s]
      PROVE  /\ y \in SessionType /\ y.mail = host[s].mail
             /\ y.owner = host[s].owner /\ y.abort = host[s].abort
  <2>1. host[s].queue + 1 \in Nat
    BY <1>1, SessionFields
  <2> QED
    BY <1>1, <1>4, <2>1 DEF SessionType
<1>5. host = [host EXCEPT ![s] = host[s]]
  BY <1>1
<1>6. CASE host' = [host EXCEPT ![s].life = "busy"]
  <2>1. host' = [host EXCEPT ![s] = [host[s] EXCEPT !.life = "busy"]]
    BY <1>6
  <2> QED
    BY <1>2, <1>3, <1>4, <1>5, <2>1
<1>7. CASE host' = [host EXCEPT ![s].queue = @ + 1]
  <2>1. host' = [host EXCEPT ![s] = [host[s] EXCEPT !.queue = @ + 1]]
    BY <1>7
  <2> QED
    BY <1>2, <1>3, <1>4, <1>5, <2>1
<1>8. CASE host' = host
  <2>1. host' = [host EXCEPT ![s] = host[s]]
    BY <1>5, <1>8
  <2> QED
    BY <1>2, <1>3, <1>4, <2>1
<1> QED
  BY <1>3, <1>6, <1>7, <1>8

\* A prompt that is sent keeps the types.
LEMMA SendsTypes ==
  ASSUME TypeOK, NEW c \in Calls, NEW s \in Sessions, HostSends(c, s), calls[c].op # "clear", entries' = entries, home' = home,
         bound' \in {0, bound}, last' = last, canceling' = canceling, seen' = seen,
         setup' \in {"unknown", "ready", "broken"}
  PROVE  TypeOK'
<1>1. PICK x, y : GoesOn(c, x) /\ x.session = s /\ Fits(x) /\ Turns(s, y)
  BY HostSendsDoes
<1>2. Moves(c, x, Cur, State)
  BY <1>1, CallTyped, CurrentTyped DEF Moves, Turns, GoesOn, TypeOK
<1> QED
  BY <1>2, MovesTypes

\* A prompt is only sent to a session nobody has stopped.
LEMMA SendsKeeps ==
  ASSUME TypeOK, Inv, NEW c \in Calls, bound # 0, HostSends(c, bound),
         calls[c].at = "setup", calls[c].op = "send",
         setup' = setup, UNCHANGED <<home, entries, bound, last, canceling, seen>>
  PROVE  Inv'
<1> USE DEF Inv, CallsInv, BindingInv, EntryInv
<1>1. bound \in Sessions /\ Len(calls) \in Nat /\ Calls = 1 .. Len(calls) /\ Fits(calls[c])
  BY LatestTyped, CallTyped
<1>2. PICK x, y : /\ GoesOn(c, x) /\ x.at \in {"sending", "refused"} /\ x.session = bound /\ Fits(x)
                  /\ y \in SessionType /\ Turns(bound, y) /\ y.mail = host[bound].mail
                  /\ y.owner = host[bound].owner /\ y.abort = host[bound].abort
  BY <1>1, HostSendsDoes
<1>3. c = Len(calls) /\ Latest = calls[c] /\ Active
  BY LatestCalled DEF Waiting
<1>4. /\ Len(calls') = Len(calls) /\ Calls' = Calls /\ calls'[c] = x
      /\ \A d \in Calls : d # c => calls'[d] = calls[d]
      /\ Latest' = x /\ x.entry = Latest.entry /\ x.op = Latest.op /\ x.prompt = Latest.prompt
      /\ x.retried = Latest.retried
  BY <1>2, <1>3 DEF GoesOn, Becomes
<1>5. /\ Sessions' = Sessions /\ host'[bound] = y
      /\ \A t \in Sessions : t # bound => host'[t] = host[t]
      /\ Cur' = Cur /\ State' = State
  BY <1>2, CurrentTyped DEF Turns, Shows
<1>6. /\ Latest.at = "setup" /\ Latest.op = "send" /\ Latest.prompt /\ ~Latest.retried
      /\ Latest.entry = Cur /\ ~canceling /\ State \in Live /\ setup = "ready"
  BY <1>1, <1>3 DEF LatestIsCurrent, CancelIsOver, Halting, RetriesOnce, LiveTurn, Prompted, Fits, IsReady
<1>7. \A t \in Sessions : host[t].abort = "none"
  BY <1>6, <1>3 DEF NoAbortMeanwhile
<1>8. host[bound].owner = Cur /\ ~BadIn(host[bound].mail)
  BY <1>1, <1>6, <1>7 DEF BoundToCurrent, Replacing, BadIsMeant
<1>9. bound # 0 /\ setup' = setup /\ UNCHANGED <<home, entries, bound, last, canceling, seen>>
  OBVIOUS
<1>10. OneAtATime'
  BY <1>4 DEF OneAtATime, Waiting
<1>11. NoReloadSent'
  BY <1>2, <1>4, <1>6 DEF NoReloadSent
<1>12. LatestIsCurrent'
  BY <1>2, <1>4, <1>5, <1>6 DEF LatestIsCurrent
<1>13. RetriesOnce'
  BY <1>2, <1>4 DEF RetriesOnce, Retrying, Halting, Active, Waiting
<1>14. NoAbortMeanwhile'
  BY <1>2, <1>5, <1>7 DEF NoAbortMeanwhile
<1>15. NoEntry'
  BY <1>5 DEF NoEntry
<1>16. IsReady'
  BY DEF IsReady
<1>17. BoundToCurrent'
  BY <1>2, <1>5, <1>8 DEF BoundToCurrent
<1>18. QuietAtRest'
  BY <1>5, <1>6 DEF QuietAtRest
<1>19. QuietHydrate'
  BY <1>2, <1>4 DEF QuietHydrate
<1>20. BadIsMeant'
  BY <1>2, <1>5, <1>8 DEF BadIsMeant
<1>21. BoundOrGone'
  BY <1>2, <1>4 DEF BoundOrGone
<1>22. NewSession'
  BY <1>2, <1>4 DEF NewSession
<1>23. CancelIsOver'
  BY <1>6 DEF CancelIsOver
<1>24. LiveTurn'
  BY <1>5, <1>6 DEF LiveTurn
<1>25. Undisturbed'
  BY <1>2, <1>4, <1>5, <1>8 DEF Undisturbed, Retrying, Halting
<1>26. Asked'
  BY <1>2, <1>4, <1>5 DEF Asked
<1>27. StopsAreAsked'
  BY <1>5, <1>6 DEF StopsAreAsked, Live
<1>28. ~seen'.mixed
  OBVIOUS
<1> QED
  BY <1>10, <1>11, <1>12, <1>13, <1>14, <1>15, <1>16, <1>17, <1>18, <1>19, <1>20, <1>21,
     <1>22, <1>23, <1>24, <1>25, <1>26, <1>27, <1>28
\* Where nothing is bound, the persisted history is read first.
LEMMA ReadsKeeps ==
  ASSUME TypeOK, Inv, NEW c \in Calls, Go(c, "read"), calls[c].at = "setup", calls[c].op = "send",
         bound = 0, setup' = "ready", UNCHANGED <<home, entries, bound, last, canceling, host, seen>>
  PROVE  Inv'
<1> USE DEF Inv, CallsInv, BindingInv, EntryInv
<1>1. PICK x \in CallType : x = [calls[c] EXCEPT !.at = "read"] /\ Becomes(c, x)
  BY GoBecomes DEF Ats
<1>2. c = Len(calls) /\ Latest = calls[c] /\ Active
  BY LatestCalled DEF Waiting
<1>3. /\ x.at = "read" /\ x.entry = Latest.entry /\ x.op = "send" /\ x.prompt = Latest.prompt
      /\ x.retried = Latest.retried /\ x.session = Latest.session
      /\ Len(calls') = Len(calls) /\ Calls' = Calls /\ calls'[c] = x
      /\ \A d \in Calls : d # c => calls'[d] = calls[d]
      /\ Latest' = x
  BY <1>1, <1>2, CallTyped DEF Becomes, CallType
<1>4. /\ Latest.at = "setup" /\ Latest.op = "send" /\ Latest.prompt /\ ~Latest.retried
      /\ Latest.entry = Cur /\ ~canceling /\ State \in Live
  BY <1>2, CallTyped DEF LatestIsCurrent, CancelIsOver, Halting, RetriesOnce, LiveTurn, Prompted, Fits
<1>5. /\ bound = 0 /\ setup' = "ready" /\ UNCHANGED <<home, entries, bound, last, canceling, host, seen>>
      /\ Cur' = Cur /\ State' = State /\ Sessions' = Sessions
  BY DEF Cur, State, Sessions
<1>6. OneAtATime'
  BY <1>3 DEF OneAtATime, Waiting
<1>7. NoReloadSent'
  BY <1>3 DEF NoReloadSent
<1>8. LatestIsCurrent'
  BY <1>3, <1>4, <1>5 DEF LatestIsCurrent
<1>9. RetriesOnce'
  BY <1>3, <1>4 DEF RetriesOnce, Retrying, Halting
<1>10. NoAbortMeanwhile'
  BY <1>4, <1>5 DEF NoAbortMeanwhile, Active, Waiting
<1>11. NoEntry'
  BY <1>5 DEF NoEntry
<1>12. IsReady'
  BY DEF IsReady
<1>13. BoundToCurrent'
  BY DEF BoundToCurrent
<1>14. QuietAtRest'
  BY DEF QuietAtRest
<1>15. QuietHydrate'
  BY DEF QuietHydrate
<1>16. BadIsMeant'
  BY DEF BadIsMeant
<1>17. BoundOrGone'
  BY DEF BoundOrGone
<1>18. NewSession'
  BY <1>3 DEF NewSession
<1>19. CancelIsOver'
  BY <1>4 DEF CancelIsOver
<1>20. LiveTurn'
  BY <1>4, <1>5 DEF LiveTurn
<1>21. Undisturbed'
  BY <1>3 DEF Undisturbed, Retrying, Halting
<1>22. Asked'
  BY <1>3, <1>5 DEF Asked
<1>23. StopsAreAsked'
  BY <1>4, <1>5 DEF StopsAreAsked, Live
<1>24. ~seen'.mixed
  OBVIOUS
<1> QED
  BY <1>6, <1>7, <1>8, <1>9, <1>10, <1>11, <1>12, <1>13, <1>14, <1>15, <1>16, <1>17,
     <1>18, <1>19, <1>20, <1>21, <1>22, <1>23, <1>24

\* The setup of the runtime, and what follows.
LEMMA SetupSteps ==
  ASSUME TypeOK, NEW c \in Calls, Setup(c)
  PROVE  TypeOK' /\ (Inv => Inv')
<1>1. /\ calls[c].at = "setup" /\ UNCHANGED <<home, canceling, seen>>
      /\ calls[c].op # "clear" /\ Fits(calls[c])
      /\ setup' \in {"unknown", "ready", "broken"} /\ last \in BOOLEAN /\ canceling \in BOOLEAN
      /\ seen \in SeenType
      /\ setup = "ready" => setup' = "ready"
      /\ setup' # "broken" => setup' = "ready"
  BY CallTyped DEF Setup, TypeOK, Fits, Halting
<1>2. CASE setup' = "broken"
  <2>1. Fails(c) /\ UNCHANGED <<bound, last, host>>
    BY <1>1, <1>2 DEF Setup
  <2>2. TypeOK'
    BY <1>1, <2>1, FailsTypes
  <2>3. ASSUME Inv PROVE Inv'
    <3>1. bound = 0
      BY <1>1, <1>2, <2>3 DEF Inv, BindingInv, IsReady
    <3> QED
      BY <1>1, <2>1, <2>3, <3>1, FailsKeeps
  <2> QED
    BY <2>2, <2>3
<1>3. CASE setup' # "broken" /\ calls[c].op = "send" /\ bound # 0
  <2>1. HostSends(c, bound) /\ UNCHANGED <<entries, bound, last>>
    BY <1>1, <1>3 DEF Setup, Dispatch
  <2>2. bound \in Sessions
    BY <1>3, CallTyped
  <2>3. TypeOK'
    BY <1>1, <2>1, <2>2, SendsTypes
  <2>4. ASSUME Inv PROVE Inv'
    <3>1. setup' = setup
      BY <1>1, <1>3, <2>4 DEF Inv, BindingInv, IsReady
    <3> QED
      BY <1>1, <1>3, <2>1, <2>4, <3>1, SendsKeeps
  <2> QED
    BY <2>3, <2>4
<1>4. CASE setup' # "broken" /\ calls[c].op = "send" /\ bound = 0
  <2>1. Go(c, "read") /\ UNCHANGED <<entries, bound, last, host>>
    BY <1>1, <1>4 DEF Setup, Dispatch
  <2>2. TypeOK'
    <3>1. PICK x \in CallType : x = [calls[c] EXCEPT !.at = "read"] /\ Becomes(c, x)
      BY <2>1, GoBecomes DEF Ats
    <3>2. x.session = calls[c].session /\ Fits(x)
      BY <1>1, <3>1, CallTyped DEF CallType, Fits, Halting
    <3>3. /\ Shows(Cur, State) /\ host \in Seq(SessionType) /\ Len(host) \in Nat
          /\ bound \in 0 .. Len(host) /\ calls[c].session \in 0 .. Len(host)
      BY <2>1, CallTyped, CurrentTyped
    <3>4. Moves(c, x, Cur, State)
      BY <1>1, <2>1, <3>1, <3>2, <3>3 DEF Moves
    <3> QED
      BY <3>4, MovesTypes
  <2>3. ASSUME Inv PROVE Inv'
    BY <1>1, <1>4, <2>1, <2>3, ReadsKeeps
  <2> QED
    BY <2>2, <2>3
<1>5. CASE setup' # "broken" /\ calls[c].op # "send"
  <2>1. Begins(c, calls[c].entry) /\ entries' = entries /\ last' = TRUE
    BY <1>1, <1>5 DEF Setup, Kept
  <2>2. TypeOK'
    BY <1>1, <2>1, BeginsTypes
  <2>3. ASSUME Inv PROVE Inv'
    BY <1>1, <1>5, <2>1, <2>3, BeginsKeeps
  <2> QED
    BY <2>2, <2>3
<1> QED
  BY <1>2, <1>3, <1>4, <1>5

\* A session is restarted from what was stored of it.
LEMMA RestartSteps ==
  ASSUME TypeOK, NEW c \in Calls, Restart(c)
  PROVE  TypeOK' /\ (Inv => Inv')
<1>1. /\ calls[c].at = "read" /\ UNCHANGED <<home, last, canceling, setup, seen>>
      /\ calls[c].op # "clear"
      /\ setup \in {"unknown", "ready", "broken"} /\ last \in BOOLEAN /\ canceling \in BOOLEAN
      /\ seen \in SeenType
  BY CallTyped DEF Restart, TypeOK, Fits, Halting
<1>2. CASE Fails(c) /\ UNCHANGED <<bound, host>>
  BY <1>1, <1>2, FailsTypes, FailsKeeps
<1>3. CASE last /\ Begins(c, calls[c].entry) /\ entries' = entries
  <2>1. TypeOK'
    BY <1>1, <1>3, BeginsTypes
  <2>2. ASSUME Inv PROVE Inv'
    <3>1. setup' = "ready"
      BY <1>1, <1>3, <2>2 DEF Inv, BindingInv, IsReady
    <3> QED
      BY <1>1, <1>3, <2>2, <3>1, BeginsKeeps
  <2> QED
    BY <2>1, <2>2
<1> QED
  BY <1>2, <1>3 DEF Restart
------------------------------------------------------------------------------
(***************************************************************************)
(* Entries made from what the host has stored.                             *)
(***************************************************************************)
\* The entry of a restored task, or of a new chat, is made.
LEMMA HydrateDoes ==
  ASSUME TypeOK, NEW c \in Calls, Hydrate(c)
  PROVE  \E x, state :
           /\ x \in CallType /\ Moves(c, x, Cur + 1, state)
           /\ x.at = "setup" /\ x.entry = Cur + 1 /\ x.session = calls[c].session
           /\ x.op = calls[c].op /\ x.prompt = calls[c].prompt /\ x.retried = calls[c].retried
           /\ x.op \in {"restore", "chat", "reload"}
           /\ state # "interrupted" /\ (x.prompt => state \in Live)
           /\ canceling' = FALSE /\ UNCHANGED <<home, bound, last, setup, host, seen>>
<1> DEFINE x == [calls[c] EXCEPT !.at = "setup", !.entry = Cur + 1]
<1>1. /\ calls[c] \in CallType /\ calls[c].session \in 0 .. Len(host) /\ Fits(calls[c])
      /\ Cur \in Nat /\ entries \in Seq(EntryType) /\ host \in Seq(SessionType)
      /\ Len(host) \in Nat /\ bound \in 0 .. Len(host) /\ calls \in Seq(CallType)
      /\ Cur + 1 \in Nat
  BY CallTyped
<1>2. /\ calls[c].at = "hydrate" /\ canceling' = FALSE
      /\ UNCHANGED <<home, bound, last, setup, host, seen>>
      /\ home \in BOOLEAN /\ last \in BOOLEAN /\ seen \in SeenType
      /\ setup \in {"unknown", "ready", "broken"}
  BY DEF Hydrate, Aside, TypeOK
<1>3. calls' = [calls EXCEPT ![c].at = "setup", ![c].entry = Cur + 1]
  BY DEF Hydrate
<1>4. /\ x \in CallType /\ x.at = "setup" /\ x.entry = Cur + 1 /\ x.session = calls[c].session
      /\ x.op = calls[c].op /\ x.prompt = calls[c].prompt /\ x.retried = calls[c].retried
  <2> DEFINE n == Cur + 1
  <2>1. n \in Nat
    BY <1>1
  <2> HIDE DEF n
  <2>2. LET y == [calls[c] EXCEPT !.at = "setup", !.entry = n] IN
        /\ y \in CallType /\ y.at = "setup" /\ y.entry = n /\ y.session = calls[c].session
        /\ y.op = calls[c].op /\ y.prompt = calls[c].prompt /\ y.retried = calls[c].retried
    BY <1>1, <2>1 DEF CallType, Ats
  <2> QED
    BY <2>2 DEF n
<1>5. calls' = [calls EXCEPT ![c] = x]
  BY <1>3
<1> HIDE DEF x
<1>6. Becomes(c, x) /\ x.op \in {"restore", "chat", "reload"} /\ Fits(x)
  BY <1>1, <1>2, <1>4, <1>5, CallBecomes DEF Fits, Halting
<1>7. PICK state, reason :
        /\ <<state, reason>> \in {<<"awaiting_review", "attention">>, <<"running", "none">>, <<"idle", "none">>}
        /\ calls[c].prompt => state \in {"awaiting_review", "running"}
        /\ entries' = Append(entries, Entry(state, reason))
  <2>1. CASE calls[c].op = "restore"
    BY <2>1 DEF Hydrate
  <2>2. CASE calls[c].op # "restore" /\ calls[c].prompt
    BY <2>2 DEF Hydrate
  <2>3. CASE calls[c].op # "restore" /\ ~calls[c].prompt
    BY <2>3 DEF Hydrate
  <2> QED
    BY <2>1, <2>2, <2>3
<1>8. Shows(Cur + 1, state) /\ state # "interrupted" /\ (x.prompt => state \in Live)
  BY <1>1, <1>4, <1>7, EntryAdded DEF States, Reasons, Live
<1>9. Moves(c, x, Cur + 1, state)
  <2>1. /\ UNCHANGED <<home, bound, last, setup, host, seen>>
        /\ home \in BOOLEAN /\ last \in BOOLEAN /\ seen \in SeenType
        /\ setup \in {"unknown", "ready", "broken"}
    BY <1>2
  <2>2. canceling' \in BOOLEAN
    BY <1>2, Zenon
  <2> QED
    BY <1>1, <1>4, <1>6, <1>8, <2>1, <2>2 DEF Moves
<1> QED
  BY <1>2, <1>4, <1>6, <1>8, <1>9

\* The session of the previous entry is quiet when a new one is made.
LEMMA HydrateKeeps ==
  ASSUME TypeOK, Inv, NEW c \in Calls, Hydrate(c)
  PROVE  Inv'
<1> USE DEF Inv, CallsInv, BindingInv, EntryInv
<1>1. PICK x, state :
           /\ x \in CallType /\ Moves(c, x, Cur + 1, state)
           /\ x.at = "setup" /\ x.entry = Cur + 1 /\ x.session = calls[c].session
           /\ x.op = calls[c].op /\ x.prompt = calls[c].prompt /\ x.retried = calls[c].retried
           /\ x.op \in {"restore", "chat", "reload"}
           /\ state # "interrupted" /\ (x.prompt => state \in Live)
           /\ canceling' = FALSE /\ UNCHANGED <<home, bound, last, setup, host, seen>>
  BY HydrateDoes
<1>2. calls[c].at = "hydrate" /\ c = Len(calls) /\ Latest = calls[c] /\ Active
  BY LatestCalled DEF Hydrate, Waiting
<1>3. /\ Len(calls') = Len(calls) /\ Calls' = Calls /\ calls'[c] = x
      /\ \A d \in Calls : d # c => calls'[d] = calls[d]
      /\ Latest' = x /\ Cur' = Cur + 1 /\ State' = state /\ Sessions' = Sessions
  BY <1>1, <1>2 DEF Moves, Becomes, Shows, Sessions
<1>4. /\ Latest.at = "hydrate" /\ ~Latest.retried /\ Cur \in Nat
      /\ bound # 0 => Quiet(bound)
  BY <1>2, CallTyped DEF RetriesOnce, QuietHydrate
<1>5. OneAtATime'
  BY <1>2, <1>3 DEF OneAtATime
<1>6. NoReloadSent'
  BY <1>1, <1>3 DEF NoReloadSent
<1>7. LatestIsCurrent'
  BY <1>1, <1>3, <1>4 DEF LatestIsCurrent
<1>8. RetriesOnce'
  BY <1>1, <1>2, <1>3 DEF RetriesOnce, Retrying
<1>9. NoAbortMeanwhile'
  BY <1>1, <1>3, <1>4 DEF NoAbortMeanwhile, Active, Waiting
<1>10. NoEntry'
  BY <1>3, <1>4 DEF NoEntry
<1>11. IsReady'
  BY <1>1, <1>3 DEF IsReady
<1>12. BoundToCurrent'
  BY <1>1, <1>3, <1>4 DEF BoundToCurrent, Replacing, Quiet
<1>13. QuietAtRest'
  BY <1>1, <1>4 DEF QuietAtRest, Quiet
<1>14. QuietHydrate'
  BY <1>1, <1>4 DEF QuietHydrate, Quiet
<1>15. BadIsMeant'
  BY <1>1, <1>4 DEF BadIsMeant
<1>16. BoundOrGone'
  BY <1>1, <1>3 DEF BoundOrGone, Halting
<1>17. NewSession'
  BY <1>1, <1>3 DEF NewSession
<1>18. CancelIsOver'
  BY <1>1 DEF CancelIsOver
<1>19. LiveTurn'
  BY <1>1, <1>3 DEF LiveTurn, Prompted, Retrying
<1>20. Undisturbed'
  BY <1>1, <1>3 DEF Undisturbed, Retrying
<1>21. Asked'
  BY <1>1, <1>3 DEF Asked
<1>22. StopsAreAsked'
  BY <1>1, <1>3 DEF StopsAreAsked
<1>23. ~seen'.mixed
  BY <1>1
<1> QED
  BY <1>5, <1>6, <1>7, <1>8, <1>9, <1>10, <1>11, <1>12, <1>13, <1>14, <1>15, <1>16,
     <1>17, <1>18, <1>19, <1>20, <1>21, <1>22, <1>23

\* What is made of a task without an entry: nothing is bound to it.
LEMMA RebindDoes ==
  ASSUME TypeOK, NEW c \in Calls, Rebind(c)
  PROVE  /\ UNCHANGED <<home, bound, last, setup, host, seen>>
         /\ \E x, n, state :
              /\ x \in CallType /\ Moves(c, x, n, state)
              /\ x.session \in {0, calls[c].session, bound}
              /\ Cur = 0 =>
                   \/ x = Over /\ n = Cur /\ state = State /\ canceling' = canceling
                   \/ /\ x.at = "setup" /\ x.op = "send" /\ n = 1 /\ state = "running"
                      /\ ~x.retried \/ calls[c].retried
                      /\ x.entry = 1 /\ canceling' = FALSE
                   \/ /\ x.at = "halt" /\ x.op = calls[c].op /\ x.op \in {"stop", "reload"}
                      /\ x.session = bound
                      /\ ~x.retried \/ calls[c].retried
                      /\ n = 1 /\ state = "awaiting_review" /\ x.entry = 1 /\ canceling' = FALSE
<1> DEFINE made == IF Cur = 0 THEN Append(entries, Entry("awaiting_review", "attention")) ELSE entries
           e == Len(made)
<1>1. /\ calls[c] \in CallType /\ calls[c].session \in 0 .. Len(host) /\ Fits(calls[c])
      /\ Cur \in Nat /\ entries \in Seq(EntryType) /\ host \in Seq(SessionType)
      /\ Len(host) \in Nat /\ bound \in 0 .. Len(host) /\ calls \in Seq(CallType)
      /\ Over \in CallType /\ Over.session = 0
  BY CallTyped, OverIsCall
<1>2. /\ calls[c].at = "rebind"
      /\ UNCHANGED <<home, bound, last, setup, host, seen>>
      /\ home \in BOOLEAN /\ last \in BOOLEAN /\ seen \in SeenType /\ canceling \in BOOLEAN
      /\ setup \in {"unknown", "ready", "broken"}
  BY DEF Rebind, Aside, TypeOK
<1>3. Entry("awaiting_review", "attention") \in EntryType /\ Entry("running", "none") \in EntryType
      /\ Entry("awaiting_review", "attention").state = "awaiting_review"
      /\ Entry("running", "none").state = "running"
  BY DEF Entry, EntryType, States, Reasons
<1>4. /\ made \in Seq(EntryType) /\ e \in Nat /\ e # 0 /\ e \in DOMAIN made
      /\ Cur = 0 => e = 1 /\ made[e].state = "awaiting_review"
  BY <1>1, <1>3 DEF Cur
<1>5. \/ Cur = 0 /\ Go(c, "over") /\ UNCHANGED <<entries, canceling>>
      \/ /\ canceling' = FALSE /\ calls[c].op = "send" /\ entries' = [made EXCEPT ![e] = Entry("running", "none")]
         /\ calls' = [calls EXCEPT ![c].at = "setup", ![c].entry = e,
                                   ![c].queue = made[e].state = "running"]
      \/ /\ canceling' = FALSE /\ calls[c].op = "send" /\ made[e].state \notin Sendable
         /\ entries' = made /\ Go(c, "over")
      \/ /\ canceling' = FALSE /\ calls[c].op # "send" /\ entries' = made
         /\ calls' = [calls EXCEPT ![c].at = "halt", ![c].entry = e, ![c].session = bound]
  BY DEF Rebind
<1> HIDE DEF made, e
<1> DEFINE Done(x, n, state) ==
       /\ x \in CallType /\ Moves(c, x, n, state)
       /\ x.session \in {0, calls[c].session, bound}
       /\ Cur = 0 =>
            \/ x = Over /\ n = Cur /\ state = State /\ canceling' = canceling
            \/ /\ x.at = "setup" /\ x.op = "send" /\ n = 1 /\ state = "running"
               /\ ~x.retried \/ calls[c].retried
               /\ x.entry = 1 /\ canceling' = FALSE
            \/ /\ x.at = "halt" /\ x.op = calls[c].op /\ x.op \in {"stop", "reload"}
               /\ x.session = bound
               /\ ~x.retried \/ calls[c].retried
               /\ n = 1 /\ state = "awaiting_review" /\ x.entry = 1 /\ canceling' = FALSE
<1>6. CASE Cur = 0 /\ Go(c, "over") /\ UNCHANGED <<entries, canceling>>
  <2>1. Becomes(c, Over) /\ Fits(Over) /\ Shows(Cur, State)
    BY <1>6, OverBecomes, CurrentTyped
  <2>2. Moves(c, Over, Cur, State)
    BY <1>1, <1>2, <1>6, <2>1 DEF Moves
  <2>3. Done(Over, Cur, State)
    BY <1>1, <1>6, <2>2
  <2> QED
    BY <1>2, <2>3
<1>7. CASE /\ canceling' = FALSE /\ calls[c].op = "send"
           /\ entries' = [made EXCEPT ![e] = Entry("running", "none")]
           /\ calls' = [calls EXCEPT ![c].at = "setup", ![c].entry = e,
                                     ![c].queue = made[e].state = "running"]
  <2> DEFINE q == made[e].state = "running"
             x == [calls[c] EXCEPT !.at = "setup", !.entry = e, !.queue = q]
  <2>1. q \in BOOLEAN
    OBVIOUS
  <2>2. calls' = [calls EXCEPT ![c] = x]
    BY <1>7
  <2> HIDE DEF q
  <2>3. /\ x \in CallType /\ x.at = "setup" /\ x.entry = e /\ x.session = calls[c].session
        /\ x.op = calls[c].op /\ x.prompt = calls[c].prompt /\ x.retried = calls[c].retried
    BY <1>1, <1>4, <2>1 DEF CallType, Ats
  <2> HIDE DEF x
  <2>4. Becomes(c, x) /\ Fits(x)
    BY <1>1, <1>7, <2>2, <2>3, CallBecomes DEF Fits, Halting
  <2>5. Shows(e, "running")
    <3>1. entries' \in Seq(EntryType) /\ Len(entries') = e /\ entries'[e] = Entry("running", "none")
      BY <1>3, <1>4, <1>7 DEF e
    <3> QED
      BY <1>3, <1>4, <3>1 DEF Shows, Cur, State
  <2>6. Moves(c, x, e, "running")
    <3>1. canceling' \in BOOLEAN
      BY <1>7, Zenon
    <3> QED
      BY <1>1, <1>2, <2>3, <2>4, <2>5, <3>1 DEF Moves
  <2>7. Done(x, e, "running")
    BY <1>4, <1>7, <2>3, <2>6
  <2> QED
    BY <1>2, <2>7
<1>8. CASE /\ canceling' = FALSE /\ calls[c].op = "send" /\ made[e].state \notin Sendable
           /\ entries' = made /\ Go(c, "over")
  <2>1. Becomes(c, Over) /\ Fits(Over)
    BY <1>8, OverBecomes
  <2>2. Shows(e, made[e].state)
    BY <1>4, <1>8 DEF Shows, Cur, State, e
  <2>3. Moves(c, Over, e, made[e].state)
    <3>1. canceling' \in BOOLEAN
      BY <1>8, Zenon
    <3> QED
      BY <1>1, <1>2, <2>1, <2>2, <3>1 DEF Moves
  <2>4. Cur # 0
    BY <1>4, <1>8 DEF Sendable
  <2>5. Done(Over, e, made[e].state)
    BY <1>1, <2>3, <2>4
  <2> QED
    BY <1>2, <2>5
<1>9. CASE /\ canceling' = FALSE /\ calls[c].op # "send" /\ entries' = made
           /\ calls' = [calls EXCEPT ![c].at = "halt", ![c].entry = e, ![c].session = bound]
  <2> DEFINE x == [calls[c] EXCEPT !.at = "halt", !.entry = e, !.session = bound]
  <2>1. calls' = [calls EXCEPT ![c] = x]
    BY <1>9
  <2>2. /\ x \in CallType /\ x.at = "halt" /\ x.entry = e /\ x.session = bound
        /\ x.op = calls[c].op /\ x.prompt = calls[c].prompt /\ x.retried = calls[c].retried
    <3>1. bound \in Nat
      BY <1>1
    <3> QED
      BY <1>1, <1>4, <3>1 DEF CallType, Ats
  <2> HIDE DEF x
  <2>3. Becomes(c, x) /\ Fits(x) /\ x.op \in {"stop", "reload"}
    BY <1>1, <1>2, <1>9, <2>1, <2>2, CallBecomes DEF Fits, Halting
  <2>4. Shows(e, made[e].state)
    BY <1>4, <1>9 DEF Shows, Cur, State, e
  <2>5. Moves(c, x, e, made[e].state)
    <3>1. canceling' \in BOOLEAN
      BY <1>9, Zenon
    <3> QED
      BY <1>1, <1>2, <2>2, <2>3, <2>4, <3>1 DEF Moves
  <2>6. Done(x, e, made[e].state)
    BY <1>4, <1>9, <2>2, <2>3, <2>5
  <2> QED
    BY <1>2, <2>6
<1> QED
  BY <1>5, <1>6, <1>7, <1>8, <1>9

\* Nothing was bound to a task without an entry.
LEMMA RebindKeeps ==
  ASSUME TypeOK, Inv, NEW c \in Calls, Rebind(c)
  PROVE  Inv'
<1> USE DEF Inv, CallsInv, BindingInv, EntryInv
<1>1. calls[c].at = "rebind" /\ c = Len(calls) /\ Latest = calls[c] /\ Active
  BY LatestCalled DEF Rebind, Waiting
<1>2. Cur = 0 /\ bound = 0 /\ ~canceling /\ ~Latest.retried
  BY <1>1 DEF LatestIsCurrent, NoEntry, RetriesOnce
<1>3. PICK x, n, state :
        /\ x \in CallType /\ Moves(c, x, n, state)
        /\ x.session \in {0, calls[c].session, bound}
        /\ \/ x = Over /\ n = Cur /\ state = State /\ canceling' = canceling
           \/ /\ x.at = "setup" /\ x.op = "send" /\ n = 1 /\ state = "running"
              /\ ~x.retried \/ calls[c].retried
              /\ x.entry = 1 /\ canceling' = FALSE
           \/ /\ x.at = "halt" /\ x.op = calls[c].op /\ x.op \in {"stop", "reload"}
              /\ x.session = bound
              /\ ~x.retried \/ calls[c].retried
              /\ n = 1 /\ state = "awaiting_review" /\ x.entry = 1 /\ canceling' = FALSE
  BY <1>2, RebindDoes
<1>4. UNCHANGED <<home, bound, last, setup, host, seen>> /\ Sessions' = Sessions
  BY RebindDoes DEF Sessions
<1>5. /\ Len(calls') = Len(calls) /\ Calls' = Calls /\ calls'[c] = x
      /\ \A d \in Calls : d # c => calls'[d] = calls[d]
      /\ Latest' = x /\ Cur' = n /\ State' = state
  BY <1>1, <1>3 DEF Moves, Becomes, Shows
<1>6. /\ Over.at = "over" /\ Over.session = 0 /\ ~Over.retried /\ Over.op = "none" /\ ~Over.prompt
      /\ State = "none"
  BY <1>2, CurrentTyped DEF Over
<1>7. OneAtATime'
  BY <1>1, <1>5 DEF OneAtATime
<1>8. NoReloadSent'
  BY <1>3, <1>5, <1>6 DEF NoReloadSent
<1>9. LatestIsCurrent'
  BY <1>3, <1>5, <1>6 DEF LatestIsCurrent
<1>10. RetriesOnce'
  BY <1>1, <1>3, <1>5, <1>6 DEF RetriesOnce, Retrying, Halting
<1>11. NoAbortMeanwhile'
  BY <1>1, <1>2, <1>4 DEF NoAbortMeanwhile
<1>12. NoEntry'
  BY <1>3, <1>4, <1>5 DEF NoEntry
<1>13. IsReady'
  BY <1>3, <1>4, <1>5, <1>6 DEF IsReady, Halting
<1>14. BoundToCurrent'
  BY <1>2, <1>4 DEF BoundToCurrent
<1>15. QuietAtRest'
  BY <1>2, <1>4 DEF QuietAtRest
<1>16. QuietHydrate'
  BY <1>3, <1>5, <1>6 DEF QuietHydrate
<1>17. BadIsMeant'
  BY <1>2, <1>4 DEF BadIsMeant
<1>18. BoundOrGone'
  BY <1>3, <1>4, <1>5, <1>6 DEF BoundOrGone, Halting
<1>19. NewSession'
  BY <1>3, <1>5, <1>6 DEF NewSession
<1>20. CancelIsOver'
  BY <1>2, <1>3 DEF CancelIsOver
<1>21. LiveTurn'
  BY <1>3, <1>5, <1>6 DEF LiveTurn, Prompted, Retrying, Live
<1>22. Undisturbed'
  BY <1>3, <1>5, <1>6 DEF Undisturbed, Retrying, Halting
<1>23. Asked'
  BY <1>1, <1>3, <1>4, <1>5, <1>6 DEF Asked
<1>24. StopsAreAsked'
  BY <1>3, <1>5, <1>6 DEF StopsAreAsked
<1>25. ~seen'.mixed
  BY <1>4
<1> QED
  BY <1>7, <1>8, <1>9, <1>10, <1>11, <1>12, <1>13, <1>14, <1>15, <1>16, <1>17, <1>18,
     <1>19, <1>20, <1>21, <1>22, <1>23, <1>24, <1>25
------------------------------------------------------------------------------
(***************************************************************************)
(* The host answers a stop, an abort or a cancel.                          *)
(***************************************************************************)
\* Call c is answered: of the sessions only its own is halted, and the sends
\* of that session are settled.
Answered(c) ==
  /\ calls' \in Seq(CallType) /\ Len(calls') = Len(calls) /\ Calls' = Calls
  /\ \E x \in CallType :
       /\ calls'[c] = x /\ x.at = "halted" /\ x.session = calls[c].session /\ x.entry = calls[c].entry
       /\ x.op = calls[c].op /\ x.prompt = calls[c].prompt /\ x.retried = calls[c].retried
  /\ \A d \in Calls : d # c => calls'[d] = calls[d] \/ \E at \in {"over", "refused"} :
                                  calls[d].at = "sending" /\ calls'[d] = Then(calls[d], at)
  /\ host' \in Seq(SessionType) /\ Len(host') = Len(host) /\ Sessions' = Sessions
  /\ \A t \in Sessions :
       /\ host'[t].owner = host[t].owner /\ host'[t].abort = host[t].abort
       /\ t # calls[c].session => host'[t] = host[t]
       /\ host[t].life # "busy" =>
            host'[t].life # "busy" /\ (BadIn(host'[t].mail) <=> BadIn(host[t].mail))

\* A settled send is a call.
LEMMA ThenFits ==
  ASSUME TypeOK, NEW d \in Calls, calls[d].at = "sending", NEW at \in {"over", "refused"}
  PROVE  /\ Then(calls[d], at).session \in 0 .. Len(host) /\ Fits(Then(calls[d], at))
         /\ Then(calls[d], at).at \in {"over", "refused", "resolved"}
         /\ calls[d].op # "reload" => Then(calls[d], at).at \in {"over", "refused"}
         /\ Then(calls[d], at).op \in {calls[d].op, "none"}
         /\ Then(calls[d], at).session \in {0, calls[d].session}
<1>1. /\ Over.at = "over" /\ Over.op = "none" /\ Over.session = 0 /\ Fits(Over)
      /\ calls[d] \in CallType /\ calls[d].session \in 0 .. Len(host) /\ Fits(calls[d])
      /\ Len(host) \in Nat
  BY CallTyped DEF Over, Fits, Halting
<1> QED
  BY <1>1 DEF Then, Fits, Halting, CallType

\* A halt is answered, or refused.
LEMMA HaltAnswers ==
  ASSUME TypeOK, NEW c \in Calls, Halt(c)
  PROVE  /\ UNCHANGED <<home, entries, bound, last, canceling, setup>> /\ seen' \in SeenType
         /\ \/ Answered(c) /\ seen' = seen
            \/ /\ seen'.failed
               /\ \E x : Becomes(c, x) /\ x.session \in 0 .. Len(host) /\ Fits(x) /\ host' = host
<1>1. /\ calls[c] \in CallType /\ calls[c].session \in 0 .. Len(host) /\ Fits(calls[c])
      /\ host \in Seq(SessionType) /\ calls \in Seq(CallType) /\ Len(host) \in Nat
      /\ Sessions = 1 .. Len(host) /\ calls[c].at = "halt"
  BY CallTyped DEF Halt
<1>2. UNCHANGED <<home, entries, bound, last, canceling, setup>> /\ seen \in SeenType
  BY DEF Halt, TypeOK
<1> DEFINE s == calls[c].session
           x == [calls[c] EXCEPT !.at = "halted"]
<1>3. /\ x \in CallType /\ x.at = "halted" /\ x.session = calls[c].session /\ x.entry = calls[c].entry
      /\ x.op = calls[c].op /\ x.prompt = calls[c].prompt /\ x.retried = calls[c].retried
  BY <1>1 DEF CallType, Ats
<1>4. CASE s = 0 /\ Go(c, "halted") /\ UNCHANGED <<host, seen>>
  <2>1. calls' = [calls EXCEPT ![c] = x]
    BY <1>4 DEF Go
  <2> HIDE DEF x
  <2>2. Becomes(c, x)
    BY <1>1, <1>3, <2>1, CallBecomes
  <2>3. Sessions' = Sessions
    BY <1>4 DEF Sessions
  <2>4. Answered(c)
    BY <1>1, <1>3, <1>4, <2>2, <2>3 DEF Answered, Becomes
  <2> QED
    BY <1>2, <1>4, <2>4
<1>5. CASE /\ s # 0 /\ UNCHANGED seen
           /\ \E y \in Outcomes(c, host[s]) : host' = [host EXCEPT ![s] = y]
           /\ \E at \in {"over", "refused"} : calls' = [Settled(s, at) EXCEPT ![c].at = "halted"]
  <2>1. s \in Sessions /\ host[s] \in SessionType
    BY <1>1, <1>5, SessionTyped
  <2>2. PICK y \in Outcomes(c, host[s]) : host' = [host EXCEPT ![s] = y]
    BY <1>5
  <2>3. PICK at \in {"over", "refused"} : calls' = [Settled(s, at) EXCEPT ![c].at = "halted"]
    BY <1>5
  <2>4. y \in Stopped(host[s]) \cup Aborted(host[s])
    BY <2>2 DEF Outcomes
  <2>5. /\ y \in SessionType /\ y.life # "busy" /\ y.owner = host[s].owner /\ y.abort = host[s].abort
        /\ host[s].life # "busy" => (BadIn(y.mail) <=> BadIn(host[s].mail))
    BY <2>1, <2>4, HaltedSession
  <2>6. Turns(s, y)
    BY <1>1, <2>1, <2>2, <2>5, SessionTurns
  <2>7. PICK z : z = Settled(s, at)
    OBVIOUS
  <2>8. /\ z \in Seq(CallType) /\ Len(z) = Len(calls) /\ DOMAIN z = Calls
        /\ \A d \in Calls : z[d] = IF calls[d].at = "sending" /\ calls[d].session = s
                                   THEN Then(calls[d], at) ELSE calls[d]
    BY <1>1, <2>7, SettledSeq
  <2>9. z[c] = calls[c] /\ calls' = [z EXCEPT ![c] = x]
    BY <1>1, <2>3, <2>7, <2>8
  <2> HIDE DEF x
  <2>10. /\ calls' \in Seq(CallType) /\ Len(calls') = Len(calls) /\ Calls' = Calls
         /\ calls'[c] = x
         /\ \A d \in Calls : d # c => calls'[d] = z[d]
    BY <1>3, <2>8, <2>9 DEF Calls
  <2>11. \A d \in Calls : d # c => calls'[d] = calls[d] \/ \E a \in {"over", "refused"} :
                                     calls[d].at = "sending" /\ calls'[d] = Then(calls[d], a)
    BY <2>8, <2>10
  <2>12. \A t \in Sessions :
           /\ host'[t].owner = host[t].owner /\ host'[t].abort = host[t].abort
           /\ t # calls[c].session => host'[t] = host[t]
           /\ host[t].life # "busy" =>
                host'[t].life # "busy" /\ (BadIn(host'[t].mail) <=> BadIn(host[t].mail))
    BY <2>5, <2>6 DEF Turns
  <2>13. Answered(c)
    BY <1>3, <2>6, <2>10, <2>11, <2>12 DEF Answered, Turns
  <2> QED
    BY <1>2, <1>5, <2>13
<1>6. CASE /\ calls' = [calls EXCEPT ![c].at = "halted", ![c].session = 0]
           /\ seen' = [seen EXCEPT !.failed = TRUE] /\ UNCHANGED host
  <2> DEFINE w == [calls[c] EXCEPT !.at = "halted", !.session = 0]
  <2>1. calls' = [calls EXCEPT ![c] = w]
    BY <1>6
  <2>2. /\ w \in CallType /\ w.session = 0 /\ w.at = "halted" /\ w.op = calls[c].op
        /\ w.prompt = calls[c].prompt
    BY <1>1 DEF CallType, Ats
  <2> HIDE DEF w
  <2>3. Becomes(c, w) /\ Fits(w) /\ w.session \in 0 .. Len(host)
    <3>1. Becomes(c, w)
      BY <1>1, <2>1, <2>2, CallBecomes
    <3>2. Fits(w)
      BY <1>1, <2>2 DEF Fits, Halting
    <3> QED
      BY <1>1, <2>2, <3>1, <3>2
  <2>4. seen' \in SeenType /\ seen'.failed
    BY <1>2, <1>6 DEF SeenType
  <2> QED
    BY <1>2, <1>6, <2>3, <2>4
<1> QED
  BY <1>4, <1>5, <1>6 DEF Halt

\* A halt keeps the types.
LEMMA HaltTypes ==
  ASSUME TypeOK, NEW c \in Calls, Halt(c)
  PROVE  TypeOK'
<1>1. /\ UNCHANGED <<home, entries, bound, last, canceling, setup>> /\ seen' \in SeenType
      /\ Shows(Cur, State)
  BY HaltAnswers, CurrentTyped
<1>2. CASE Answered(c)
  <2>1. /\ calls' \in Seq(CallType) /\ Calls' = Calls
        /\ host' \in Seq(SessionType) /\ Len(host') = Len(host)
        /\ calls'[c].session = calls[c].session /\ calls'[c].at = "halted"
        /\ calls'[c].op = calls[c].op /\ calls'[c].prompt = calls[c].prompt
    BY <1>2 DEF Answered
  <2>2. \A d \in Calls : calls[d].session \in 0 .. Len(host) /\ Fits(calls[d])
    BY DEF TypeOK
  <2>3. Fits(calls'[c])
    BY <2>1, <2>2 DEF Fits, Halting, Halt
  <2>4. \A d \in Calls : d # c => calls'[d].session \in 0 .. Len(host) /\ Fits(calls'[d])
    BY <1>2, <2>2, ThenFits DEF Answered
  <2>5. (\A d \in Calls : calls[d].session \in 0 .. Len(host) /\ Fits(calls[d]))'
    BY <2>1, <2>2, <2>3, <2>4
  <2> QED
    BY <1>1, <2>1, <2>5 DEF TypeOK
<1>3. CASE \E x : Becomes(c, x) /\ x.session \in 0 .. Len(host) /\ Fits(x) /\ host' = host
  <2>1. PICK x : Becomes(c, x) /\ x.session \in 0 .. Len(host) /\ Fits(x) /\ host' = host
    BY <1>3
  <2>2. Moves(c, x, Cur, State)
    BY <1>1, <2>1, CallTyped DEF Moves, TypeOK
  <2> QED
    BY <2>2, MovesTypes
<1> QED
  BY <1>2, <1>3, HaltAnswers

\* What a halted session says of it is meant.
LEMMA HaltKeeps ==
  ASSUME TypeOK, Inv, NEW c \in Calls, Halt(c), Clean'
  PROVE  Inv'
<1> USE DEF Inv, CallsInv, BindingInv, EntryInv
<1>1. Answered(c) /\ UNCHANGED <<home, entries, bound, last, canceling, setup, seen>>
  BY HaltAnswers DEF Clean
<1>2. calls[c].at = "halt" /\ c = Len(calls) /\ Latest = calls[c] /\ Active
  BY LatestCalled DEF Halt, Waiting
<1>3. /\ Len(calls) \in Nat /\ Calls = 1 .. Len(calls) /\ Sessions = 1 .. Len(host)
      /\ bound \in 0 .. Len(host) /\ Latest.session \in 0 .. Len(host)
  BY LatestTyped DEF TypeOK
<1>4. PICK x \in CallType :
        /\ calls'[c] = x /\ x.at = "halted" /\ x.session = Latest.session /\ x.entry = Latest.entry
        /\ x.op = Latest.op /\ x.prompt = Latest.prompt /\ x.retried = Latest.retried
  BY <1>1, <1>2 DEF Answered
<1>5. /\ Len(calls') = Len(calls) /\ Calls' = Calls /\ Latest' = x
  <2>1. calls' # <<>> /\ Len(calls') = Len(calls) /\ Calls' = Calls
    BY <1>1, <1>2 DEF Answered, Calls
  <2> QED
    BY <1>2, <1>4, <2>1 DEF Latest
<1>6. \A d \in Calls : d # c =>
        \/ calls'[d] = calls[d]
        \/ /\ calls[d].at = "sending" /\ calls'[d].at \in {"over", "refused"}
           /\ calls'[d].session \in {0, calls[d].session}
  <2>1. \A d \in Calls : calls[d].at = "sending" => calls[d].op # "reload"
    BY DEF NoReloadSent
  <2> QED
    BY <1>1, <2>1, ThenFits DEF Answered
<1>7. /\ Sessions' = Sessions
      /\ \A t \in Sessions :
           /\ host'[t].owner = host[t].owner /\ host'[t].abort = host[t].abort
           /\ t # Latest.session => host'[t] = host[t]
           /\ host[t].life # "busy" =>
                host'[t].life # "busy" /\ (BadIn(host'[t].mail) <=> BadIn(host[t].mail))
  BY <1>1, <1>2 DEF Answered
<1>8. UNCHANGED <<home, entries, bound, last, canceling, setup, seen>> /\ Cur' = Cur /\ State' = State
  BY <1>1 DEF Cur, State
<1>9. OneAtATime'
  BY <1>2, <1>5, <1>6 DEF OneAtATime, Waiting
<1>10. NoReloadSent'
  BY <1>4, <1>5, <1>6 DEF NoReloadSent
<1>11. LatestIsCurrent'
  BY <1>2, <1>4, <1>5, <1>8 DEF LatestIsCurrent
<1>12. RetriesOnce'
  BY <1>2, <1>4, <1>5 DEF RetriesOnce, Retrying, Halting
<1>13. NoAbortMeanwhile'
  BY <1>2, <1>4, <1>5, <1>7 DEF NoAbortMeanwhile
<1>14. NoEntry'
  BY <1>8 DEF NoEntry
<1>15. IsReady'
  BY <1>2, <1>4, <1>5, <1>6, <1>8 DEF IsReady, Halting
<1>16. BoundToCurrent'
  BY <1>2, <1>3, <1>7, <1>8 DEF BoundToCurrent, Replacing
<1>17. QuietAtRest'
  BY <1>4, <1>5 DEF QuietAtRest, Active, Waiting
<1>18. QuietHydrate'
  BY <1>4, <1>5 DEF QuietHydrate
<1>19. BadIsMeant'
  BY <1>4, <1>5 DEF BadIsMeant
<1>20. BoundOrGone'
  BY <1>2, <1>4, <1>5, <1>8 DEF BoundOrGone, Halting
<1>21. NewSession'
  BY <1>4, <1>5 DEF NewSession
<1>22. CancelIsOver'
  BY <1>2, <1>4, <1>5, <1>8 DEF CancelIsOver, Halting
<1>23. LiveTurn'
  BY <1>2, <1>4, <1>5, <1>8 DEF LiveTurn, Prompted, Retrying, Halting
<1>24. Undisturbed'
  BY <1>2, <1>3, <1>4, <1>5, <1>7 DEF Undisturbed, Retrying, Halting
<1>25. Asked'
  BY <1>2, <1>4, <1>5, <1>7, <1>8 DEF Asked
<1>26. StopsAreAsked'
  BY <1>2, <1>4, <1>5, <1>8 DEF StopsAreAsked, Changing, Halting
<1>27. ~seen'.mixed
  BY <1>8
<1> QED
  BY <1>9, <1>10, <1>11, <1>12, <1>13, <1>14, <1>15, <1>16, <1>17, <1>18, <1>19, <1>20,
     <1>21, <1>22, <1>23, <1>24, <1>25, <1>26, <1>27
------------------------------------------------------------------------------
(***************************************************************************)
(* What a call does once the host has answered.                            *)
(***************************************************************************)
\* A call that ends with nothing bound keeps the invariant.
LEMMA EndedKeeps ==
  ASSUME TypeOK, Inv, NEW c \in Calls, calls[c].at = "halted",
         calls[c].op \in {"stop", "abort", "cancel", "clear"},
         Becomes(c, Over), NEW n, NEW state, Shows(n, state), n = 0 => Cur = 0, bound' = 0,
         state = "interrupted" => calls[c].op \in {"stop", "abort"} \/ State = "interrupted",
         calls[c].op \in {"cancel", "clear"} => state # "interrupted",
         Sessions' = Sessions, \A t \in Sessions : host'[t].abort = host[t].abort,
         UNCHANGED <<home, last, canceling, setup, seen>>
  PROVE  Inv'
<1> USE DEF Inv, CallsInv, BindingInv, EntryInv
<1>1. c = Len(calls) /\ Latest = calls[c] /\ Active
  BY LatestCalled DEF Waiting
<1>2. /\ Len(calls') = Len(calls) /\ Calls' = Calls /\ calls'[c] = Over
      /\ \A d \in Calls : d # c => calls'[d] = calls[d]
      /\ Latest' = Over /\ Cur' = n /\ State' = state
  BY <1>1 DEF Becomes, Shows
<1>3. /\ Over.at = "over" /\ Over.session = 0 /\ ~Over.retried /\ Over.op = "none" /\ ~Over.prompt
  BY DEF Over
<1>4. /\ bound' = 0 /\ Sessions' = Sessions /\ \A t \in Sessions : host'[t].abort = host[t].abort
      /\ UNCHANGED <<home, last, canceling, setup, seen>>
      /\ n = 0 => Cur = 0
      /\ Latest.at = "halted" /\ Latest.op \in {"stop", "abort", "cancel", "clear"}
      /\ state = "interrupted" => Latest.op \in {"stop", "abort"}
  BY <1>1
<1>5. state = "interrupted" => seen.asked
  BY <1>4 DEF Asked
<1>6. OneAtATime'
  BY <1>2 DEF OneAtATime, Waiting
<1>7. NoReloadSent'
  BY <1>2, <1>3 DEF NoReloadSent
<1>8. LatestIsCurrent'
  BY <1>2, <1>3 DEF LatestIsCurrent
<1>9. RetriesOnce'
  BY <1>2, <1>3 DEF RetriesOnce, Retrying
<1>10. NoAbortMeanwhile'
  BY <1>2, <1>3 DEF NoAbortMeanwhile, Active, Waiting
<1>11. NoEntry'
  BY <1>2 DEF NoEntry
<1>12. IsReady'
  BY <1>2, <1>3 DEF IsReady
<1>13. BoundToCurrent'
  BY DEF BoundToCurrent
<1>14. QuietAtRest'
  BY DEF QuietAtRest
<1>15. QuietHydrate'
  BY DEF QuietHydrate
<1>16. BadIsMeant'
  BY DEF BadIsMeant
<1>17. BoundOrGone'
  BY DEF BoundOrGone
<1>18. NewSession'
  BY <1>2, <1>3 DEF NewSession
<1>19. CancelIsOver'
  BY <1>2, <1>3 DEF CancelIsOver
<1>20. LiveTurn'
  BY <1>2, <1>3 DEF LiveTurn, Prompted, Retrying
<1>21. Undisturbed'
  BY <1>2, <1>3 DEF Undisturbed
<1>22. Asked'
  BY <1>2, <1>3 DEF Asked
<1>23. StopsAreAsked'
  BY <1>2, <1>5 DEF StopsAreAsked
<1>24. ~seen'.mixed
  OBVIOUS
<1> QED
  BY <1>6, <1>7, <1>8, <1>9, <1>10, <1>11, <1>12, <1>13, <1>14, <1>15, <1>16, <1>17,
     <1>18, <1>19, <1>20, <1>21, <1>22, <1>23, <1>24

\* A reload reads what the host has stored once its session is gone.
LEMMA ReloadKeeps ==
  ASSUME TypeOK, Inv, NEW c \in Calls, calls[c].at = "halted", calls[c].op = "reload",
         NEW at \in {"hydrate", "read"}, Go(c, at), bound' = 0,
         UNCHANGED <<home, entries, last, canceling, setup, host, seen>>
  PROVE  Inv'
<1> USE DEF Inv, CallsInv, BindingInv, EntryInv
<1>1. c = Len(calls) /\ Latest = calls[c] /\ Active
  BY LatestCalled DEF Waiting
<1>2. PICK x \in CallType : x = [calls[c] EXCEPT !.at = at] /\ Becomes(c, x)
  BY GoBecomes DEF Ats
<1>3. /\ x.at = at /\ x.entry = Latest.entry /\ x.op = "reload" /\ x.prompt = Latest.prompt
      /\ x.retried = Latest.retried /\ x.session = Latest.session
      /\ Len(calls') = Len(calls) /\ Calls' = Calls /\ calls'[c] = x
      /\ \A d \in Calls : d # c => calls'[d] = calls[d]
      /\ Latest' = x
  BY <1>1, <1>2, CallTyped DEF Becomes, CallType
<1>4. /\ Latest.at = "halted" /\ Latest.op = "reload" /\ ~Latest.prompt /\ ~Latest.retried
      /\ ~canceling /\ at \in {"hydrate", "read"}
  BY <1>1, CallTyped DEF CancelIsOver, Halting, RetriesOnce, Fits
<1>5. /\ bound' = 0 /\ UNCHANGED <<home, entries, last, canceling, setup, host, seen>>
      /\ Cur' = Cur /\ State' = State /\ Sessions' = Sessions
  BY DEF Cur, State, Sessions
<1>6. OneAtATime'
  BY <1>3 DEF OneAtATime, Waiting
<1>7. NoReloadSent'
  BY <1>3 DEF NoReloadSent
<1>8. LatestIsCurrent'
  BY <1>3, <1>4, <1>5 DEF LatestIsCurrent
<1>9. RetriesOnce'
  BY <1>3, <1>4 DEF RetriesOnce, Retrying
<1>10. NoAbortMeanwhile'
  BY <1>4, <1>5 DEF NoAbortMeanwhile, Active, Waiting
<1>11. NoEntry'
  BY <1>5 DEF NoEntry
<1>12. IsReady'
  BY <1>3 DEF IsReady
<1>13. BoundToCurrent'
  BY DEF BoundToCurrent
<1>14. QuietAtRest'
  BY DEF QuietAtRest
<1>15. QuietHydrate'
  BY DEF QuietHydrate
<1>16. BadIsMeant'
  BY DEF BadIsMeant
<1>17. BoundOrGone'
  BY DEF BoundOrGone
<1>18. NewSession'
  BY <1>3 DEF NewSession
<1>19. CancelIsOver'
  BY <1>4 DEF CancelIsOver
<1>20. LiveTurn'
  BY <1>3, <1>4 DEF LiveTurn, Prompted, Retrying
<1>21. Undisturbed'
  BY <1>3 DEF Undisturbed, Retrying
<1>22. Asked'
  BY <1>3, <1>5 DEF Asked
<1>23. StopsAreAsked'
  BY <1>3 DEF StopsAreAsked, Changing
<1>24. ~seen'.mixed
  OBVIOUS
<1> QED
  BY <1>6, <1>7, <1>8, <1>9, <1>10, <1>11, <1>12, <1>13, <1>14, <1>15, <1>16, <1>17,
     <1>18, <1>19, <1>20, <1>21, <1>22, <1>23, <1>24

\* A stop, an abort or a cancel ends, on the entry of the call.
LEMMA EndingSteps ==
  ASSUME TypeOK, NEW c \in Calls, calls[c].at = "halted",
         NEW state \in {"interrupted", "idle"}, NEW reason \in Reasons, NEW changed,
         calls[c].op \in IF state = "idle" THEN {"cancel"} ELSE {"stop", "abort"},
         changed = Patched(calls[c].entry, state, reason) \/ (changed = entries /\ state # "idle"),
         Ending(c, changed), UNCHANGED <<home, last, canceling, setup, seen>>
  PROVE  TypeOK' /\ (Inv => Inv')
<1>1. /\ calls[c] \in CallType /\ calls[c].entry \in Nat /\ entries \in Seq(EntryType)
      /\ Len(host) \in Nat /\ bound \in 0 .. Len(host) /\ host \in Seq(SessionType)
      /\ calls[c].session \in 0 .. Len(host) /\ Cur \in Nat
  BY CallTyped DEF CallType
<1>2. /\ entries' = changed /\ Go(c, "over") /\ bound' = Unbound(calls[c].session) /\ host' = host
  BY DEF Ending
<1>3. Becomes(c, Over) /\ Fits(Over) /\ Over.session \in 0 .. Len(host)
  BY <1>2, OverBecomes
<1> DEFINE e == calls[c].entry
<1>4. PICK now : /\ Shows(Cur, now)
                 /\ \/ now = State /\ state # "idle"
                    \/ now = IF e = Cur /\ Cur # 0 THEN state ELSE State
  <2>1. CASE changed = entries /\ state # "idle"
    BY <1>2, <2>1, CurrentTyped
  <2>2. CASE changed = Patched(e, state, reason)
    <3>1. state \in States /\ e \in Nat /\ entries' = Patched(e, state, reason)
      BY <1>1, <1>2, <2>2 DEF States
    <3> HIDE DEF e
    <3>2. Shows(Cur, IF e = Cur /\ Cur # 0 THEN state ELSE State)
      BY <1>1, <3>1, EntryPatched
    <3> QED
      BY <3>2
  <2> QED
    BY <2>1, <2>2
<1>5. TypeOK'
  <2>1. /\ last \in BOOLEAN /\ canceling \in BOOLEAN /\ seen \in SeenType
        /\ setup \in {"unknown", "ready", "broken"}
    BY DEF TypeOK
  <2>2. bound' \in 0 .. Len(host)
    BY <1>1, <1>2 DEF Unbound
  <2>3. Moves(c, Over, Cur, now)
    BY <1>1, <1>2, <1>3, <1>4, <2>1, <2>2 DEF Moves
  <2> QED
    BY <2>3, MovesTypes
<1>6. ASSUME Inv PROVE Inv'
  <2>1. c = Len(calls) /\ Latest = calls[c]
    BY <1>6, LatestCalled DEF Waiting
  <2>2. e = Cur /\ bound' = 0
    BY <1>2, <1>6, <2>1 DEF Inv, CallsInv, BindingInv, LatestIsCurrent, BoundOrGone, Halting, Unbound
  <2>3. calls[c].op \in {"stop", "abort", "cancel"}
    OBVIOUS
  <2>4. /\ now = "interrupted" => calls[c].op \in {"stop", "abort"} \/ State = "interrupted"
        /\ calls[c].op \in {"cancel", "clear"} => now # "interrupted"
    BY <1>4, <2>2, CurrentTyped
  <2>5. Sessions' = Sessions /\ \A t \in Sessions : host'[t].abort = host[t].abort
    BY <1>2 DEF Sessions
  <2> HIDE DEF e
  <2> QED
    BY <1>3, <1>4, <1>6, <2>2, <2>3, <2>4, <2>5, EndedKeeps
<1> QED
  BY <1>5, <1>6

\* All the sessions of a cleared task are deleted.
LEMMA ClearSteps ==
  ASSUME TypeOK, NEW c \in Calls, calls[c].at = "halted", calls[c].op = "clear", ClearEnds(c),
         UNCHANGED <<home, last, canceling, setup, seen>>
  PROVE  TypeOK' /\ (Inv => Inv')
<1>1. /\ Len(host) \in Nat /\ host \in Seq(SessionType) /\ Cur \in Nat /\ entries \in Seq(EntryType)
      /\ Sessions = 1 .. Len(host)
  BY CallTyped
<1>2. /\ Go(c, "over") /\ bound' = 0
      /\ entries' = IF calls[c].entry = 0 THEN entries ELSE Append(entries, Entry("idle", "none"))
      /\ host' = [s \in Sessions |-> [host[s] EXCEPT !.stored = FALSE]]
  BY DEF ClearEnds, Emptied
<1>3. Becomes(c, Over) /\ Fits(Over) /\ Over.session \in 0 .. Len(host)
  BY <1>2, OverBecomes
<1>4. /\ host' \in Seq(SessionType) /\ Len(host') = Len(host) /\ Sessions' = Sessions
      /\ \A t \in Sessions : host'[t].abort = host[t].abort
  <2> DEFINE new(t) == [host[t] EXCEPT !.stored = FALSE]
  <2>1. ASSUME NEW t \in Sessions
        PROVE  new(t) \in SessionType /\ new(t).abort = host[t].abort
    BY <1>1, SessionTyped DEF SessionType
  <2>2. host' = [t \in 1 .. Len(host) |-> new(t)]
    BY <1>1, <1>2
  <2> HIDE DEF new
  <2>3. host' \in Seq(SessionType) /\ Len(host') = Len(host) /\ DOMAIN host' = 1 .. Len(host)
        /\ \A t \in 1 .. Len(host) : host'[t] = new(t)
    BY <1>1, <2>1, <2>2
  <2> QED
    BY <1>1, <2>1, <2>3 DEF Sessions
<1>5. PICK n, now : /\ Shows(n, now)
                    /\ \/ calls[c].entry # 0 /\ n = Cur + 1 /\ now = "idle"
                       \/ calls[c].entry = 0 /\ n = Cur /\ now = State
  <2>1. CASE calls[c].entry = 0
    BY <1>2, <2>1, CurrentTyped
  <2>2. CASE calls[c].entry # 0
    BY <1>1, <1>2, <2>2, EntryAdded DEF States, Reasons
  <2> QED
    BY <2>1, <2>2
<1>6. TypeOK'
  <2>1. /\ last \in BOOLEAN /\ canceling \in BOOLEAN /\ seen \in SeenType
        /\ setup \in {"unknown", "ready", "broken"}
    BY DEF TypeOK
  <2>2. Moves(c, Over, n, now)
    BY <1>1, <1>2, <1>3, <1>4, <1>5, <2>1 DEF Moves
  <2> QED
    BY <2>2, MovesTypes
<1>7. ASSUME Inv PROVE Inv'
  <2>1. c = Len(calls) /\ Latest = calls[c]
    BY <1>7, LatestCalled DEF Waiting
  <2>2. calls[c].entry = Cur
    BY <1>7, <2>1 DEF Inv, CallsInv, LatestIsCurrent
  <2>3. now # "interrupted" /\ (n = 0 => Cur = 0)
    BY <1>1, <1>5, <2>2, CurrentTyped
  <2> QED
    BY <1>2, <1>3, <1>4, <1>5, <1>7, <2>3, EndedKeeps
<1> QED
  BY <1>6, <1>7

\* Where the sessions cannot be listed the entry is replaced, and what that can
\* lead to is noted.
LEMMA ClearFailsSteps ==
  ASSUME TypeOK, NEW c \in Calls, ClearFails(c)
  PROVE  TypeOK' /\ ~Clean'
<1>1. /\ Len(host) \in Nat /\ host \in Seq(SessionType) /\ Cur \in Nat /\ entries \in Seq(EntryType)
  BY CallTyped
<1>2. /\ Go(c, "over") /\ UNCHANGED <<home, bound, last, canceling, setup, host>>
      /\ entries' = IF calls[c].entry = 0 THEN entries ELSE Append(entries, Entry("idle", "none"))
      /\ seen' = [seen EXCEPT !.failed = TRUE]
  BY DEF ClearFails, Emptied
<1>3. Becomes(c, Over) /\ Fits(Over) /\ Over.session \in 0 .. Len(host)
  BY <1>2, OverBecomes
<1>4. PICK n, now : Shows(n, now)
  <2>1. CASE calls[c].entry = 0
    BY <1>2, <2>1, CurrentTyped
  <2>2. CASE calls[c].entry # 0
    BY <1>1, <1>2, <2>2, EntryAdded DEF States, Reasons
  <2> QED
    BY <2>1, <2>2
<1>5. seen' \in SeenType /\ seen'.failed
  BY <1>2 DEF TypeOK, SeenType
<1>6. /\ last \in BOOLEAN /\ canceling \in BOOLEAN /\ setup \in {"unknown", "ready", "broken"}
      /\ bound \in 0 .. Len(host)
  BY DEF TypeOK
<1>7. Moves(c, Over, n, now)
  BY <1>1, <1>2, <1>3, <1>4, <1>5, <1>6 DEF Moves
<1> QED
  BY <1>5, <1>7, MovesTypes DEF Clean

\* A reload goes on.
LEMMA ReloadSteps ==
  ASSUME TypeOK, NEW c \in Calls, calls[c].at = "halted", calls[c].op = "reload", ReloadGoesOn(c),
         UNCHANGED <<home, last, canceling, setup, seen>>
  PROVE  TypeOK' /\ (Inv => Inv')
<1>1. /\ Len(host) \in Nat /\ host \in Seq(SessionType) /\ bound \in 0 .. Len(host)
      /\ Sessions = 1 .. Len(host) /\ calls[c].session \in 0 .. Len(host)
      /\ calls[c] \in CallType /\ Fits(calls[c])
      /\ setup \in {"unknown", "ready", "broken"}
      /\ last \in BOOLEAN /\ canceling \in BOOLEAN /\ seen \in SeenType
  BY CallTyped DEF TypeOK
<1>2. bound' = Unbound(calls[c].session) /\ entries' = entries
  BY DEF ReloadGoesOn
<1>3. bound' \in {0, bound}
  BY <1>2 DEF Unbound
<1>4. CASE bound' # 0
  <2>1. PICK s : s = bound'
    OBVIOUS
  <2>2. s \in Sessions /\ HostSends(c, s)
    BY <1>1, <1>3, <1>4, <2>1 DEF ReloadGoesOn
  <2>3. TypeOK'
    BY <1>1, <1>2, <1>3, <2>2, SendsTypes
  <2>4. ASSUME Inv PROVE FALSE
    <3>1. Latest = calls[c]
      BY <2>4, LatestCalled DEF Waiting
    <3> QED
      BY <1>2, <1>4, <2>4, <3>1 DEF Inv, BindingInv, BoundOrGone, Halting, Unbound
  <2> QED
    BY <2>3, <2>4
<1>5. CASE bound' = 0
  <2>1. PICK at \in {"hydrate", "read"} : Go(c, at) /\ host' = host
    BY <1>5 DEF ReloadGoesOn
  <2>2. PICK x \in CallType : x = [calls[c] EXCEPT !.at = at] /\ Becomes(c, x)
    BY <2>1, GoBecomes DEF Ats
  <2>3. x.session = calls[c].session /\ Fits(x)
    BY <1>1, <2>2 DEF CallType, Fits, Halting
  <2>4. Moves(c, x, Cur, State)
    BY <1>1, <1>2, <1>3, <2>1, <2>2, <2>3, CurrentTyped DEF Moves
  <2>5. TypeOK'
    BY <2>4, MovesTypes
  <2>6. ASSUME Inv PROVE Inv'
    BY <1>2, <1>5, <2>1, <2>6, ReloadKeeps
  <2> QED
    BY <2>5, <2>6
<1> QED
  BY <1>4, <1>5

\* Each call that halts its session goes on.
LEMMA HaltedSteps ==
  ASSUME TypeOK, NEW c \in Calls, Halted(c)
  PROVE  TypeOK' /\ (Inv => Inv')
<1>1. /\ calls[c].at = "halted" /\ UNCHANGED <<home, last, canceling, setup, seen>>
      /\ calls[c].op \in {"stop", "abort", "cancel", "clear", "reload", "send"}
  BY CallTyped DEF Halted, Fits, Halting
<1>2. "interrupted" \in Reasons /\ "none" \in Reasons
  BY DEF Reasons
<1>3. CASE calls[c].op = "stop"
  <2>1. StopEnds(c)
    BY <1>1, <1>3 DEF Halted
  <2>2. PICK changed :
          /\ changed = Patched(calls[c].entry, "interrupted", "interrupted") \/ changed = entries
          /\ Ending(c, changed)
    BY <2>1 DEF StopEnds
  <2> QED
    BY <1>1, <1>2, <1>3, <2>2, EndingSteps
<1>4. CASE calls[c].op = "abort"
  <2>1. Ending(c, Patched(calls[c].entry, "interrupted", "interrupted"))
    BY <1>1, <1>4 DEF Halted, AbortEnds
  <2> QED
    BY <1>1, <1>2, <1>4, <2>1, EndingSteps
<1>5. CASE calls[c].op = "cancel"
  <2>1. Ending(c, Patched(calls[c].entry, "idle", "none"))
    BY <1>1, <1>5 DEF Halted, CancelEnds
  <2> QED
    BY <1>1, <1>2, <1>5, <2>1, EndingSteps
<1>6. CASE calls[c].op = "clear"
  <2>1. ClearEnds(c)
    BY <1>1, <1>6 DEF Halted
  <2> QED
    BY <1>1, <1>6, <2>1, ClearSteps
<1>7. CASE calls[c].op = "reload"
  <2>1. ReloadGoesOn(c)
    BY <1>1, <1>7 DEF Halted
  <2> QED
    BY <1>1, <1>7, <2>1, ReloadSteps
<1>8. CASE calls[c].op = "send"
  <2>1. Begins(c, calls[c].entry) /\ entries' = entries
    BY <1>1, <1>8 DEF Halted, RetryGoesOn
  <2>2. TypeOK'
    BY <1>1, <1>8, <2>1, BeginsTypes DEF TypeOK
  <2>3. ASSUME Inv PROVE Inv'
    <3>1. setup' = "ready"
      BY <1>1, <1>8, <2>3 DEF Inv, BindingInv, IsReady, Halting
    <3> QED
      BY <1>1, <1>8, <2>1, <2>3, <3>1, BeginsKeeps
  <2> QED
    BY <2>2, <2>3
<1> QED
  BY <1>1, <1>3, <1>4, <1>5, <1>6, <1>7, <1>8
------------------------------------------------------------------------------
(***************************************************************************)
(* The host starts a session; a send is rejected, or comes to nothing.     *)
(***************************************************************************)
\* The session of call c has started, with its prompt or without one.
Started(c) ==
  /\ bound' = calls[c].session /\ UNCHANGED <<home, last, canceling, setup, seen>>
  /\ \E y \in SessionType :
       /\ Turns(calls[c].session, y) /\ y.life = IF calls[c].prompt THEN "busy" ELSE "idle"
       /\ y.mail = host[calls[c].session].mail /\ y.owner = host[calls[c].session].owner
       /\ y.abort = host[calls[c].session].abort
  /\ \/ /\ calls[c].prompt /\ Shows(Cur, State)
        /\ \E x : GoesOn(c, x) /\ x.at = "sending" /\ x.session = calls[c].session /\ Fits(x)
     \/ /\ ~calls[c].prompt /\ Becomes(c, Over)
        /\ Shows(Cur, IF calls[c].op = "reload" /\ calls[c].entry = Cur /\ Cur # 0 THEN "idle" ELSE State)

\* A reloaded task is idle.
LEMMA ReloadedShows ==
  ASSUME TypeOK, NEW c \in Calls, entries' = Reloaded(c)
  PROVE  Shows(Cur, IF calls[c].op = "reload" /\ calls[c].entry = Cur /\ Cur # 0 THEN "idle" ELSE State)
<1>1. calls[c] \in CallType /\ entries \in Seq(EntryType)
  BY CallTyped
<1> DEFINE e == calls[c].entry
<1>2. CASE calls[c].op = "reload"
  <2>1. /\ "idle" \in States /\ "none" \in Reasons /\ e \in Nat
        /\ entries' = Patched(e, "idle", "none")
    BY <1>1, <1>2 DEF States, Reasons, CallType, Reloaded
  <2> HIDE DEF e
  <2>2. Shows(Cur, IF e = Cur /\ Cur # 0 THEN "idle" ELSE State)
    BY <1>1, <2>1, EntryPatched
  <2> QED
    BY <1>2, <2>2 DEF e
<1>3. CASE calls[c].op # "reload"
  BY <1>3, CurrentTyped DEF Reloaded
<1> QED
  BY <1>2, <1>3

\* The host starts the session, or fails to.
LEMMA HostStartsDoes ==
  ASSUME TypeOK, NEW c \in Calls, HostStarts(c)
  PROVE  \/ Started(c)
         \/ /\ Fails(c) /\ bound' \in {Unbound(calls[c].session), bound}
            /\ UNCHANGED <<home, last, canceling, setup, host, seen>>
<1>1. /\ calls[c] \in CallType /\ calls[c].session \in 0 .. Len(host) /\ Fits(calls[c])
      /\ host \in Seq(SessionType) /\ calls \in Seq(CallType) /\ Len(host) \in Nat
      /\ Sessions = 1 .. Len(host) /\ calls[c].at = "starting"
  BY CallTyped DEF HostStarts
<1>2. UNCHANGED <<home, last, canceling, setup, seen>>
  BY DEF HostStarts
<1> DEFINE s == calls[c].session
           prompt == calls[c].prompt
<1>3. CASE /\ host' = [host EXCEPT ![s].life = IF prompt THEN "busy" ELSE "idle", ![s].stored = TRUE]
           /\ bound' = s
           /\ Go(c, IF prompt THEN "sending" ELSE "over")
           /\ entries' = IF prompt THEN entries ELSE Reloaded(c)
  <2>1. s \in Sessions /\ host[s] \in SessionType
    BY <1>1, SessionTyped DEF Fits
  <2> DEFINE life == IF prompt THEN "busy" ELSE "idle"
             y == [host[s] EXCEPT !.life = life, !.stored = TRUE]
  <2>2. host' = [host EXCEPT ![s] = y] /\ life \in {"busy", "idle"}
    BY <1>3
  <2> HIDE DEF life
  <2>3. /\ y \in SessionType /\ y.life = life /\ y.mail = host[s].mail /\ y.owner = host[s].owner
        /\ y.abort = host[s].abort
    BY <2>1, <2>2 DEF SessionType
  <2> HIDE DEF y
  <2>4. Turns(s, y)
    BY <1>1, <2>1, <2>2, <2>3, SessionTurns
  <2>5. CASE prompt
    <3>1. PICK x \in CallType : x = [calls[c] EXCEPT !.at = "sending"] /\ Becomes(c, x)
      BY <1>3, <2>5, GoBecomes DEF Ats
    <3>2. /\ x.at = "sending" /\ x.session = s /\ x.entry = calls[c].entry /\ x.op = calls[c].op
          /\ x.prompt = calls[c].prompt /\ x.retried = calls[c].retried
      BY <1>1, <3>1 DEF CallType
    <3>3. Fits(x)
      BY <1>1, <3>2 DEF Fits, Halting
    <3>4. GoesOn(c, x)
      BY <3>1, <3>2 DEF GoesOn
    <3>5. Shows(Cur, State)
      BY <1>3, <2>5, CurrentTyped
    <3> QED
      BY <1>2, <1>3, <2>3, <2>4, <2>5, <3>2, <3>3, <3>4, <3>5 DEF Started, life
  <2>6. CASE ~prompt
    <3>1. Becomes(c, Over)
      BY <1>3, <2>6, OverBecomes
    <3>2. entries' = Reloaded(c)
      BY <1>3, <2>6
    <3> QED
      BY <1>2, <1>3, <2>3, <2>4, <2>6, <3>1, <3>2, ReloadedShows DEF Started, life
  <2> QED
    BY <2>5, <2>6
<1>4. CASE host' = host /\ bound' \in {Unbound(s), bound} /\ Fails(c)
  BY <1>2, <1>4
<1> QED
  BY <1>3, <1>4 DEF HostStarts

\* A started session keeps the types.
LEMMA StartedTypes ==
  ASSUME TypeOK, NEW c \in Calls, Started(c)
  PROVE  TypeOK'
<1>1. /\ host' \in Seq(SessionType) /\ Len(host') = Len(host) /\ Len(host) \in Nat
      /\ calls[c].session \in 0 .. Len(host)
  BY CallTyped DEF Started, Turns
<1>2. /\ UNCHANGED <<home, last, canceling, setup, seen>> /\ bound' = calls[c].session
      /\ last \in BOOLEAN /\ canceling \in BOOLEAN /\ seen \in SeenType
      /\ setup \in {"unknown", "ready", "broken"}
  BY DEF Started, TypeOK
<1>3. PICK x, state : Becomes(c, x) /\ Shows(Cur, state) /\ Fits(x) /\ x.session \in {0, calls[c].session}
  <2>1. Over.session = 0 /\ Fits(Over)
    BY DEF Over, Fits, Halting
  <2> QED
    BY <2>1 DEF Started, GoesOn
<1>4. Moves(c, x, Cur, state)
  BY <1>1, <1>2, <1>3 DEF Moves
<1> QED
  BY <1>4, MovesTypes

\* A started session has its prompt, or is at rest.
LEMMA StartedKeeps ==
  ASSUME TypeOK, Inv, NEW c \in Calls, calls[c].at = "starting", Started(c)
  PROVE  Inv'
<1> USE DEF Inv, CallsInv, BindingInv, EntryInv
<1>1. c = Len(calls) /\ Latest = calls[c] /\ Active
  BY LatestCalled DEF Waiting
<1>2. /\ bound # 0 /\ bound = Latest.session /\ Quiet(bound) /\ Latest.entry = Cur
      /\ Latest.at = "starting" /\ setup = "ready" /\ bound \in Sessions /\ Sessions = 1 .. Len(host)
      /\ bound' = bound
  BY <1>1, CallTyped DEF NewSession, LatestIsCurrent, IsReady, Started
<1>3. host[bound].mail = <<>> /\ host[bound].abort = "none" /\ host[bound].owner = Cur /\ ~BadIn(<<>>)
  BY <1>2 DEF Quiet, BoundToCurrent, Replacing, BadIn
<1>4. PICK y \in SessionType :
        /\ host'[bound] = y /\ y.life = (IF Latest.prompt THEN "busy" ELSE "idle")
        /\ y.mail = <<>> /\ y.owner = Cur /\ y.abort = "none"
        /\ Sessions' = Sessions /\ \A t \in Sessions : t # bound => host'[t] = host[t]
  BY <1>1, <1>2, <1>3 DEF Started, Turns
<1>5. PICK x, state :
        /\ Becomes(c, x) /\ Shows(Cur, state)
        /\ \/ /\ Latest.prompt /\ state = State /\ x.at = "sending" /\ x.session = bound
              /\ x.entry = Latest.entry /\ x.op = Latest.op /\ x.prompt = Latest.prompt
              /\ x.retried = Latest.retried /\ Fits(x)
           \/ /\ ~Latest.prompt /\ x = Over
              /\ state = IF Latest.op = "reload" /\ Cur # 0 THEN "idle" ELSE State
  BY <1>1, <1>2 DEF Started, GoesOn
<1>6. /\ Over.at = "over" /\ Over.session = 0 /\ ~Over.retried /\ Over.op = "none" /\ ~Over.prompt
      /\ Len(calls') = Len(calls) /\ Calls' = Calls /\ calls'[c] = x
      /\ \A d \in Calls : d # c => calls'[d] = calls[d]
      /\ Latest' = x /\ Cur' = Cur /\ State' = state
  BY <1>1, <1>5 DEF Becomes, Shows, Over
<1>7. /\ UNCHANGED <<home, last, canceling, setup, seen>> /\ ~canceling
      /\ Latest.prompt => State \in Live
      /\ Cur = 0 => State = "none"
      /\ x.op = "reload" => ~x.prompt
      /\ \A t \in Sessions : ~Latest.retried => host[t].abort = "none"
  BY <1>1, <1>2, <1>5, <1>6, CurrentTyped DEF Started, CancelIsOver, Halting, LiveTurn, Prompted, NoAbortMeanwhile, Fits
<1>8. OneAtATime'
  BY <1>6 DEF OneAtATime, Waiting
<1>9. NoReloadSent'
  BY <1>5, <1>6, <1>7 DEF NoReloadSent
<1>10. LatestIsCurrent'
  BY <1>2, <1>5, <1>6 DEF LatestIsCurrent
<1>11. RetriesOnce'
  BY <1>5, <1>6 DEF RetriesOnce, Retrying, Halting, Active, Waiting
<1>12. NoAbortMeanwhile'
  BY <1>5, <1>6 DEF NoAbortMeanwhile, Active, Waiting
<1>13. NoEntry'
  BY <1>2, <1>6 DEF NoEntry
<1>14. IsReady'
  BY <1>7 DEF IsReady
<1>15. BoundToCurrent'
  BY <1>2, <1>4, <1>6 DEF BoundToCurrent
<1>16. QuietAtRest'
  BY <1>2, <1>4, <1>5, <1>6, <1>7 DEF QuietAtRest, Quiet
<1>17. QuietHydrate'
  BY <1>5, <1>6 DEF QuietHydrate
<1>18. BadIsMeant'
  BY <1>2, <1>3, <1>4 DEF BadIsMeant
<1>19. BoundOrGone'
  BY <1>2, <1>5, <1>6 DEF BoundOrGone, Halting
<1>20. NewSession'
  BY <1>5, <1>6 DEF NewSession
<1>21. CancelIsOver'
  BY <1>7 DEF CancelIsOver
<1>22. LiveTurn'
  BY <1>5, <1>6, <1>7 DEF LiveTurn, Prompted, Retrying
<1>23. Undisturbed'
  BY <1>3, <1>4, <1>5, <1>6 DEF Undisturbed, Retrying, Halting
<1>24. Asked'
  BY <1>4, <1>5, <1>6, <1>7 DEF Asked
<1>25. StopsAreAsked'
  BY <1>2, <1>5, <1>6, <1>7 DEF StopsAreAsked, Changing, Halting
<1>26. ~seen'.mixed
  BY <1>7
<1> QED
  BY <1>8, <1>9, <1>10, <1>11, <1>12, <1>13, <1>14, <1>15, <1>16, <1>17, <1>18, <1>19,
     <1>20, <1>21, <1>22, <1>23, <1>24, <1>25, <1>26

\* The start of a session keeps the types and the invariant.
LEMMA HostStartsSteps ==
  ASSUME TypeOK, NEW c \in Calls, HostStarts(c)
  PROVE  TypeOK' /\ (Inv => Inv')
<1>1. calls[c].at = "starting"
  BY DEF HostStarts
<1>2. CASE Started(c)
  BY <1>1, <1>2, StartedTypes, StartedKeeps
<1>3. CASE /\ Fails(c) /\ bound' \in {Unbound(calls[c].session), bound}
           /\ UNCHANGED <<home, last, canceling, setup, host, seen>>
  <2>1. bound' \in {0, bound} /\ setup' \in {"unknown", "ready", "broken"}
    BY <1>3 DEF Unbound, TypeOK
  <2>2. TypeOK'
    BY <1>3, <2>1, FailsTypes
  <2>3. ASSUME Inv PROVE Inv'
    BY <1>1, <1>3, <2>3, FailsKeeps
  <2> QED
    BY <2>2, <2>3
<1> QED
  BY <1>2, <1>3, HostStartsDoes

\* A message that failed in its turn is tried once more.
Retries(c) ==
  /\ calls[c].at = "rejected" /\ calls[c].op = "send" /\ ~calls[c].retried
  /\ host[calls[c].session].mail = <<>>
  /\ bound' \in {bound, Unbound(calls[c].session)}
  /\ calls' = [calls EXCEPT ![c].at = "halt", ![c].retried = TRUE, ![c].session = bound']
  /\ seen' = [seen EXCEPT !.crossed = @ \/ \E d \in Calls \ {c} : d > c \/ calls[d].at # "over"]
  /\ UNCHANGED <<home, entries, last, canceling, setup, host>>

\* What a retry makes of its call.
LEMMA RetriesDoes ==
  ASSUME TypeOK, NEW c \in Calls, Retries(c)
  PROVE  \E x : /\ Moves(c, x, Cur, State) /\ x.at = "halt" /\ x.retried /\ x.session = bound'
                /\ x.op = "send" /\ x.prompt /\ x.entry = calls[c].entry
<1>1. /\ calls[c] \in CallType /\ Fits(calls[c]) /\ calls \in Seq(CallType) /\ Len(host) \in Nat
      /\ host \in Seq(SessionType) /\ bound \in 0 .. Len(host) /\ calls[c].session \in 0 .. Len(host)
  BY CallTyped
<1>2. bound' \in 0 .. Len(host) /\ bound' \in Nat
  BY <1>1 DEF Retries, Unbound
<1> DEFINE b == bound'
           x == [calls[c] EXCEPT !.at = "halt", !.retried = TRUE, !.session = b]
<1>3. calls' = [calls EXCEPT ![c] = x] /\ b \in Nat
  BY <1>2 DEF Retries
<1> HIDE DEF b
<1>4. /\ x \in CallType /\ x.at = "halt" /\ x.retried /\ x.session = b /\ x.op = calls[c].op
      /\ x.prompt = calls[c].prompt /\ x.entry = calls[c].entry
  BY <1>1, <1>3 DEF CallType, Ats
<1> HIDE DEF x
<1>5. Becomes(c, x)
  BY <1>1, <1>3, <1>4, CallBecomes
<1>6. x.op = "send" /\ x.prompt /\ Fits(x)
  BY <1>1, <1>4 DEF Retries, Fits, Halting
<1>7. /\ seen' \in SeenType /\ UNCHANGED <<home, last, canceling, setup, host>>
      /\ last \in BOOLEAN /\ canceling \in BOOLEAN /\ setup \in {"unknown", "ready", "broken"}
      /\ Shows(Cur, State)
  BY CurrentTyped DEF Retries, TypeOK, SeenType
<1>8. Moves(c, x, Cur, State)
  BY <1>1, <1>2, <1>4, <1>5, <1>6, <1>7 DEF Moves, b
<1> QED
  BY <1>4, <1>6, <1>8 DEF b

\* A retry halts a session nobody else has halted.
LEMMA RetriesKeeps ==
  ASSUME TypeOK, Inv, NEW c \in Calls, Retries(c), Clean'
  PROVE  Inv'
<1> USE DEF Inv, CallsInv, BindingInv, EntryInv
<1>1. PICK x : /\ Moves(c, x, Cur, State) /\ x.at = "halt" /\ x.retried /\ x.session = bound'
               /\ x.op = "send" /\ x.prompt /\ x.entry = calls[c].entry
  BY RetriesDoes
<1>2. /\ Len(calls) \in Nat /\ Calls = 1 .. Len(calls) /\ Sessions = 1 .. Len(host)
      /\ bound \in 0 .. Len(host)
  BY LatestTyped DEF TypeOK
<1>3. \A d \in Calls : d # c => ~(d > c) /\ calls[d].at = "over"
  BY DEF Retries, Clean, TypeOK, SeenType
<1>4. c = Len(calls) /\ Latest = calls[c]
  BY <1>2, <1>3, LatestTyped
<1>5. /\ Len(calls') = Len(calls) /\ Calls' = Calls /\ calls'[c] = x
      /\ \A d \in Calls : d # c => calls'[d] = calls[d]
      /\ Latest' = x /\ Cur' = Cur /\ State' = State
  BY <1>1, <1>4 DEF Moves, Becomes, Shows
<1>6. /\ Latest.at = "rejected" /\ Latest.op = "send" /\ ~Latest.retried
      /\ bound \in {0, Latest.session} /\ bound' \in {0, bound}
      /\ host[Latest.session].mail = <<>> /\ ~BadIn(<<>>)
      /\ setup = "ready" /\ ~canceling /\ State \in Live /\ Latest.entry = Cur
  BY <1>4 DEF Retries, Unbound, BoundOrGone, BadIn, IsReady, CancelIsOver, Halting, LiveTurn, Prompted, LatestIsCurrent
<1>7. /\ Latest.session # 0 => host[Latest.session].life # "busy"
      /\ bound # 0 => host[bound].owner = Cur
  BY <1>6 DEF Undisturbed, BoundToCurrent, Replacing
<1>8. UNCHANGED <<home, entries, last, canceling, setup, host>> /\ Sessions' = Sessions
      /\ seen'.mixed = seen.mixed /\ seen'.asked = seen.asked
  BY DEF Retries, Sessions, TypeOK, SeenType
<1>9. OneAtATime'
  BY <1>4, <1>5 DEF OneAtATime
<1>10. NoReloadSent'
  BY <1>1, <1>5 DEF NoReloadSent
<1>11. LatestIsCurrent'
  BY <1>1, <1>4, <1>5, <1>6 DEF LatestIsCurrent
<1>12. RetriesOnce'
  BY <1>1, <1>5 DEF RetriesOnce
<1>13. NoAbortMeanwhile'
  BY <1>1, <1>5 DEF NoAbortMeanwhile
<1>14. NoEntry'
  BY <1>5, <1>6, <1>8 DEF NoEntry
<1>15. IsReady'
  BY <1>6, <1>8 DEF IsReady
<1>16. BoundToCurrent'
  BY <1>5, <1>6, <1>8 DEF BoundToCurrent, Replacing
<1>17. QuietAtRest'
  BY <1>6, <1>7, <1>8 DEF QuietAtRest, Quiet
<1>18. QuietHydrate'
  BY <1>1, <1>5 DEF QuietHydrate
<1>19. BadIsMeant'
  BY <1>6, <1>8 DEF BadIsMeant
<1>20. BoundOrGone'
  BY <1>1, <1>5 DEF BoundOrGone
<1>21. NewSession'
  BY <1>1, <1>5 DEF NewSession
<1>22. CancelIsOver'
  BY <1>6, <1>8 DEF CancelIsOver
<1>23. LiveTurn'
  BY <1>5, <1>6 DEF LiveTurn
<1>24. Undisturbed'
  BY <1>1, <1>5, <1>6, <1>8 DEF Undisturbed
<1>25. Asked'
  BY <1>1, <1>5, <1>8 DEF Asked
<1>26. StopsAreAsked'
  BY <1>5, <1>6 DEF StopsAreAsked, Live
<1>27. ~seen'.mixed
  BY <1>8
<1> QED
  BY <1>9, <1>10, <1>11, <1>12, <1>13, <1>14, <1>15, <1>16, <1>17, <1>18, <1>19, <1>20,
     <1>21, <1>22, <1>23, <1>24, <1>25, <1>26, <1>27

\* A rejected send fails, or is tried once more.
LEMMA RejectedSteps ==
  ASSUME TypeOK, NEW c \in Calls, Rejected(c)
  PROVE  TypeOK' /\ (Inv /\ Clean' => Inv')
<1>1. /\ calls[c].at \in {"rejected", "refused"} /\ host[calls[c].session].mail = <<>>
      /\ bound' \in {bound, Unbound(calls[c].session)}
      /\ UNCHANGED <<home, last, canceling, setup, host>>
  BY DEF Rejected
<1>2. CASE Fails(c) /\ seen' = seen
  <2>1. bound' \in {0, bound} /\ setup' \in {"unknown", "ready", "broken"}
    BY <1>1 DEF Unbound, TypeOK
  <2>2. TypeOK'
    BY <1>1, <1>2, <2>1, FailsTypes
  <2>3. ASSUME Inv PROVE Inv'
    BY <1>1, <1>2, <2>3, FailsKeeps
  <2> QED
    BY <2>2, <2>3
<1>3. CASE ~(Fails(c) /\ seen' = seen)
  <2>1. Retries(c)
    BY <1>1, <1>3 DEF Rejected, Retries
  <2>2. TypeOK'
    BY <2>1, RetriesDoes, MovesTypes
  <2> QED
    BY <2>1, <2>2, RetriesKeeps
<1> QED
  BY <1>2, <1>3

\* Only a reload that crossed another call sends an empty prompt.
LEMMA ResolvedSteps ==
  ASSUME TypeOK, NEW c \in Calls, Resolved(c)
  PROVE  TypeOK' /\ ~Inv
<1>1. /\ calls[c].at = "resolved" /\ Go(c, "over") /\ entries' = Reloaded(c)
      /\ UNCHANGED <<home, bound, last, canceling, setup, host, seen>>
  BY DEF Resolved
<1>2. ~Inv
  BY <1>1 DEF Inv, CallsInv, NoReloadSent
<1>3. PICK state : Shows(Cur, state)
  BY <1>1, ReloadedShows
<1>4. Becomes(c, Over) /\ Fits(Over) /\ Over.session \in 0 .. Len(host)
  BY <1>1, OverBecomes
<1>5. Moves(c, Over, Cur, state)
  BY <1>1, <1>3, <1>4, CallTyped DEF Moves, TypeOK
<1> QED
  BY <1>2, <1>5, MovesTypes
------------------------------------------------------------------------------
(***************************************************************************)
(* The theorems.                                                           *)
(***************************************************************************)
\* The invariant holds at first.
LEMMA InitInv ==
  ASSUME Init
  PROVE  IInv
<1>1. /\ home \in BOOLEAN /\ entries = <<>> /\ bound = 0 /\ last = FALSE /\ canceling = FALSE
      /\ setup = "unknown" /\ calls = <<>> /\ host = <<>>
      /\ seen = [crossed |-> FALSE, failed |-> FALSE, asked |-> FALSE, mixed |-> FALSE]
  BY DEF Init
<1>2. /\ Calls = {} /\ Sessions = {} /\ Cur = 0 /\ State = "none" /\ Latest = Over
  BY <1>1 DEF Calls, Sessions, Cur, State, Latest
<1>3. /\ Over.at = "over" /\ Over.op = "none" /\ Over.session = 0 /\ ~Over.retried /\ ~Over.prompt
  BY DEF Over
<1>4. TypeOK
  <2>1. entries \in Seq(EntryType) /\ calls \in Seq(CallType) /\ host \in Seq(SessionType) /\ Len(host) = 0
    BY <1>1
  <2>2. seen \in SeenType
    BY <1>1 DEF SeenType
  <2>3. last \in BOOLEAN /\ canceling \in BOOLEAN
    BY <1>1, Zenon
  <2> QED
    BY <1>1, <1>2, <2>1, <2>2, <2>3 DEF TypeOK
<1>5. CallsInv
  BY <1>2, <1>3 DEF CallsInv, OneAtATime, NoReloadSent, LatestIsCurrent, RetriesOnce, Retrying,
     Halting, Active, Waiting, NoAbortMeanwhile
<1>6. BindingInv
  BY <1>1, <1>2, <1>3 DEF BindingInv, NoEntry, IsReady, BoundToCurrent, QuietAtRest, QuietHydrate,
     BadIsMeant, BoundOrGone, NewSession, Halting
<1>7. EntryInv
  BY <1>1, <1>2, <1>3 DEF EntryInv, CancelIsOver, LiveTurn, Prompted, Retrying, Halting, Undisturbed,
     Asked, StopsAreAsked
<1>8. ~seen.mixed
  BY <1>1
<1> QED
  BY <1>4, <1>5, <1>6, <1>7, <1>8 DEF IInv, Inv

\* What has crossed or was refused is forgotten by a restart only.
LEMMA CleanStays ==
  ASSUME TypeOK, Next, ~RuntimeRestart, Clean'
  PROVE  Clean
<1>1. seen \in SeenType
  BY DEF TypeOK
<1>2. CASE UserCalls
  <2>1. PICK x, n, state : Made(x, n, state)
    BY <1>2, UserCallIsProper
  <2> QED
    BY <2>1 DEF Made, Clean
<1>3. CASE seen' = seen
  BY <1>3 DEF Clean
<1>4. ASSUME NEW c \in Calls, Halt(c)
      PROVE  Clean
  BY <1>1, <1>4 DEF Halt, Clean, SeenType
<1>5. ASSUME NEW c \in Calls, Rejected(c)
      PROVE  Clean
  BY <1>1, <1>5 DEF Rejected, Clean, SeenType
<1>9. ASSUME NEW c \in Calls, ClearFails(c)
      PROVE  Clean
  BY <1>9, ClearFailsSteps
<1>6. ASSUME NEW c \in Calls, CallStep(c)
      PROVE  Clean
  BY <1>3, <1>4, <1>5, <1>6, <1>9 DEF CallStep, Hydrate, Rebind, Halted, Setup, Restart, HostStarts, Resolved
<1>7. ASSUME NEW s \in Sessions, HandleEvent(s)
      PROVE  Clean
  BY <1>1, <1>7 DEF HandleEvent, Clean, SeenType
<1>8. ASSUME NEW s \in Sessions, HostWorks(s) \/ HostEndsTurn(s) \/ HandleEvent(s) \/ CreditAbort(s)
      PROVE  Clean
  BY <1>3, <1>7, <1>8 DEF HostWorks, HostEndsTurn, CreditAbort
<1> QED
  BY <1>2, <1>6, <1>8 DEF Next

\* Each step of a call keeps the types and, where nothing crosses, the
\* invariant.
LEMMA CallStepKeeps ==
  ASSUME TypeOK, NEW c \in Calls, CallStep(c)
  PROVE  TypeOK' /\ (Inv /\ Clean' => Inv')
<1>1. CASE Hydrate(c)
  BY <1>1, HydrateDoes, MovesTypes, HydrateKeeps
<1>2. CASE Rebind(c)
  BY <1>2, RebindDoes, MovesTypes, RebindKeeps
<1>3. CASE Halt(c)
  BY <1>3, HaltTypes, HaltKeeps
<1>4. CASE Halted(c)
  BY <1>4, HaltedSteps
<1>5. CASE Setup(c)
  BY <1>5, SetupSteps
<1>6. CASE Restart(c)
  BY <1>6, RestartSteps
<1>7. CASE HostStarts(c)
  BY <1>7, HostStartsSteps
<1>8. CASE Rejected(c)
  BY <1>8, RejectedSteps
<1>9. CASE Resolved(c)
  BY <1>9, ResolvedSteps
<1>10. CASE ClearFails(c)
  BY <1>10, ClearFailsSteps
<1> QED
  BY <1>1, <1>2, <1>3, <1>4, <1>5, <1>6, <1>7, <1>8, <1>9, <1>10 DEF CallStep

\* Each step keeps the inductive invariant.
LEMMA StepInv ==
  ASSUME IInv, [Next]_vars
  PROVE  IInv'
<1>1. TypeOK /\ (Clean => Inv)
  BY DEF IInv
<1>2. CASE UserCalls
  <2>1. ASSUME Clean' PROVE Inv'
    <3>1. PICK x, n, state : Made(x, n, state)
      BY <1>1, <1>2, UserCallIsProper
    <3>2. Clean
      BY <2>1, <3>1 DEF Made, Clean
    <3> QED
      BY <1>1, <1>2, <2>1, <3>2, UserCallsKeep
  <2> QED
    BY <1>1, <1>2, <2>1, UserCallsTypes DEF IInv
<1>3. CASE RuntimeRestart
  BY <1>1, <1>3, RuntimeRestartKeeps DEF IInv
<1>4. ASSUME NEW c \in Calls, CallStep(c), Next, ~RuntimeRestart
      PROVE  IInv'
  BY <1>1, <1>4, CallStepKeeps, CleanStays DEF IInv
<1>5. ASSUME NEW s \in Sessions, HostWorks(s) \/ HostEndsTurn(s) \/ HandleEvent(s) \/ CreditAbort(s),
             Next, ~RuntimeRestart
      PROVE  IInv'
  <2>1. Clean' => Clean
    BY <1>1, <1>5, CleanStays
  <2>2. CASE HostWorks(s) \/ HostEndsTurn(s)
    <3>1. Reports(s)
      BY <1>1, <2>2, HostWorksReports, HostEndsTurnReports
    <3> QED
      BY <1>1, <2>1, <3>1, ReportsTypes, ReportsKeep DEF IInv
  <2>3. CASE HandleEvent(s)
    BY <1>1, <2>1, <2>3, HandleEventTypes, HandleEventKeeps DEF IInv
  <2>4. CASE CreditAbort(s)
    BY <1>1, <2>1, <2>4, CreditAbortTypes, CreditAbortKeeps DEF IInv
  <2> QED
    BY <1>5, <2>2, <2>3, <2>4
<1>6. CASE UNCHANGED vars
  <2>1. /\ calls' = calls /\ host' = host /\ entries' = entries
        /\ UNCHANGED <<home, bound, last, canceling, setup, seen>>
    BY <1>6 DEF vars
  <2>2. Calls' = Calls /\ Sessions' = Sessions /\ Cur' = Cur /\ State' = State /\ Latest' = Latest
    BY <2>1 DEF Calls, Sessions, Cur, State, Latest
  <2>3. TypeOK'
    BY <1>1, <2>1, <2>2 DEF TypeOK
  <2>4. ASSUME Clean' PROVE Inv'
    <3>1. Inv
      BY <1>1, <2>1, <2>4 DEF Clean
    <3>2. CallsInv'
      BY <2>1, <2>2, <3>1 DEF Inv, CallsInv, OneAtATime, NoReloadSent, LatestIsCurrent,
         RetriesOnce, Retrying, Active, NoAbortMeanwhile
    <3>3. BindingInv'
      BY <2>1, <2>2, <3>1 DEF Inv, BindingInv, NoEntry, IsReady, BoundToCurrent, Replacing, Quiet,
         QuietAtRest, Active, QuietHydrate, BadIsMeant, BoundOrGone, NewSession
    <3>4. EntryInv'
      BY <2>1, <2>2, <3>1 DEF Inv, EntryInv, CancelIsOver, LiveTurn, Prompted, Retrying,
         Undisturbed, Asked, StopsAreAsked, Changing
    <3> QED
      BY <2>1, <3>1, <3>2, <3>3, <3>4 DEF Inv
  <2> QED
    BY <2>3, <2>4 DEF IInv
<1> QED
  BY <1>2, <1>3, <1>4, <1>5, <1>6 DEF Next

\* Every state of the service, the runtime and the host satisfies the inductive
\* invariant, whatever the bounds.
THEOREM Invariance == Spec => []IInv
<1>1. Init => IInv
  BY InitInv
<1>2. IInv /\ [Next]_vars => IInv'
  BY StepInv
<1> QED
  BY <1>1, <1>2, PTL DEF Spec

\* Calls, sessions and entries keep their types; a call only refers to sessions
\* the host has made, and is at a stage its kind goes through.
THEOREM TypeCorrect == Spec => []TypeOK
<1>1. IInv => TypeOK
  BY DEF IInv
<1> QED
  BY <1>1, Invariance, PTL

\* Unless two calls crossed or a session that was to be stopped was not, what a
\* session stopped, aborted, cleared or replaced still reports never moves the
\* entry of another conversation.
THEOREM EventsStay == Spec => []EventsStayWithTheirEntry
<1>1. IInv => EventsStayWithTheirEntry
  BY DEF IInv, Inv, Clean, EventsStayWithTheirEntry
<1> QED
  BY <1>1, Invariance, PTL

\* With the same exceptions, a task at rest is interrupted
\* only if it was stopped or aborted since its last prompt: a canceled turn is
\* not mistaken for an abort.
THEOREM InterruptedAsked == Spec => []InterruptedOnRequest
<1>1. IInv => InterruptedOnRequest
  <2> SUFFICES ASSUME IInv, ~InProgress, State = "interrupted", Clean
               PROVE  seen.asked
    BY DEF InterruptedOnRequest, Clean
  <2>1. TypeOK /\ StopsAreAsked
    BY DEF IInv, Inv, EntryInv
  <2>2. ASSUME Changing PROVE FALSE
    <3>1. Latest.at \notin Waiting
      BY <2>2 DEF Changing, Waiting, Halting
    <3>2. Len(calls) \in Calls /\ Latest = calls[Len(calls)]
      BY <2>1, <3>1, LatestTyped DEF Waiting
    <3> QED
      BY <3>1, <3>2 DEF InProgress
  <2> QED
    BY <2>1, <2>2 DEF StopsAreAsked
<1> QED
  BY <1>1, Invariance, PTL
==============================================================================
