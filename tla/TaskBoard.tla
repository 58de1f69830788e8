------------------------------ MODULE TaskBoard ------------------------------
(***************************************************************************)
(* The board page at work: cards that follow their sessions, the flows     *)
(* that start, finish and restore a task, links between tasks, and the     *)
(* automation that commits a task under review and then moves it to done.  *)
(*                                                                         *)
(* A flow is an async function of the page: between its steps the user,    *)
(* other flows and the sessions go on.  A card the page moves by itself is *)
(* dragged across the screen, one card at a time: others wait.             *)
(***************************************************************************)
EXTENDS Integers, Sequences, FiniteSets, SequencesExt
INSTANCE BagsExt

CONSTANTS
    Tasks,
    None,
    Layouts,        \* where the tasks of a new page may be,
    Links,          \* how they are linked
    Autos,          \* and which the automation may take
    Terminals,      \* tasks whose agent runs in a terminal, and not in the SDK
    MaxEvents,      \* bounds: what the user and the agents do and what fails,
    MaxFlows        \* and flows under way when another is begun

ASSUME BoardAssumption ==
    /\ IsFiniteSet(Tasks) /\ None \notin Tasks
    /\ Layouts \subseteq [Tasks -> {"backlog", "review"}]
    /\ Links \subseteq SUBSET (Tasks \X Tasks) /\ Autos \subseteq SUBSET Tasks
    /\ Terminals \subseteq Tasks
    /\ {MaxEvents, MaxFlows} \subseteq Nat

VARIABLES
    board,          \* columns: cards from the top; links: <<waits, for>>
    auto,           \* tasks whose autoReviewEnabled is set
    session,        \* task -> its session on the server
    tree,           \* task -> its worktree: "none", "clean" or "changed"
    shown,          \* task -> the state of its session the page was told
    changes,        \* task -> its worktree's changes as the page was told
    noticed,        \* previousSessionsRef: tasks seen as interrupted
    due,            \* the effect that follows the sessions is to run
    drag,           \* the card that is being dragged, by the user or the page
    flows,          \* bag of the async functions under way
    armed,          \* awaitingCleanActionByTaskIdRef
    timer,          \* task -> scheduledActionByTaskIdRef
    moving,         \* moveToTrashInFlightTaskIdsRef
    count,          \* bounded events so far
    owed,           \* history: tasks to be started, as one they waited for is done
    crossed,        \* history: tasks with a start under way beside another flow,
                    \* or as they were moved to done
    mixed,          \* history: cards of a drop that took one in another's place
    failed          \* history: tasks whose agent was not stopped as it was to be,
                    \* or whose start was answered to nobody

page == <<noticed, due, drag>>
automation == <<armed, timer, moving>>
told == <<shown, changes>>
server == <<session, tree>>
history == <<owed, crossed, mixed, failed>>
flowVars == <<board, auto, server, told, page, flows, automation, count, history>>

Columns == {"backlog", "in_progress", "review", "trash"}
Live == {"running", "awaiting_review"}

\* The session of an agent that is stopped or has ended: a process that exits
\* leaves its task "awaiting_review", here "exited".
Ended(t) == IF t \in Terminals THEN "exited" ELSE "interrupted"

(***************************************************************************)
(* The board and its links.                                                *)
(***************************************************************************)
ColumnOf(b, t) ==
    IF \E c \in Columns : Contains(b.columns[c], t)
    THEN CHOOSE c \in Columns : Contains(b.columns[c], t) ELSE "none"

\* resolveDependencyEndpoints: a link joins a task of the backlog, which waits,
\* with one that is not done.
Joins(b, link) ==
    /\ {ColumnOf(b, link[1]), ColumnOf(b, link[2])} \cap {"trash", "none"} = {}
    /\ \E i \in {1, 2} : ColumnOf(b, link[i]) = "backlog"
Oriented(b, link) == IF ColumnOf(b, link[1]) = "backlog" THEN link ELSE <<link[2], link[1]>>

Relinked(b) == [b EXCEPT !.links = {Oriented(b, l) : l \in {k \in @ : Joins(b, k)}}]

Index(b, t) == SelectInSeq(b.columns[ColumnOf(b, t)], LAMBDA u : u = t)

Insert(cards, t, top) == IF top THEN <<t>> \o cards ELSE Append(cards, t)

MoveTo(b, t, c, top) ==
    IF ColumnOf(b, t) \in {c, "none"} THEN b
    ELSE Relinked([b EXCEPT !.columns[ColumnOf(b, t)] = RemoveAt(@, Index(b, t)),
                            !.columns[c] = Insert(@, t, top \/ c = "trash")])

\* Cards that move one after another, each to a column of its own.
MoveAll(b, cards, to) == FoldLeft(LAMBDA x, t : MoveTo(x, t, to[t], TRUE), b, cards)

\* Tasks that only waited for one under review, when it is moved to done.
Ready(b, t) ==
    IF ColumnOf(b, t) = "review"
    THEN {u \in Tasks : <<u, t>> \in b.links /\ ColumnOf(b, u) = "backlog"} ELSE {}

\* Mutant: the board after the drop.
UnblockedAfter(t) == Ready(board', t)

\* The board of boardRef, which a drop has not reached yet.
Unblocked(t) == Ready(board, t)

(***************************************************************************)
(* Flows.                                                                  *)
(***************************************************************************)
Flow(kind, t, at) ==
    [kind |-> kind, task |-> t, at |-> at,
     route |-> "plain",     \* how a started card gets to "in progress"
     ready |-> {},          \* tasks a done flow has yet to start
     by |-> None,           \* the done task a start belongs to and holds up
     auto |-> FALSE]        \* begun by the automation

Underway == {"ensuring", "starting", "answering"}
Starting(fs, t) == \E f \in BagToSet(fs) : /\ f.kind \in {"start", "restore"}
                                            /\ f.task = t /\ f.at \in Underway
Committing(fs, t) == \E f \in BagToSet(fs) : f.kind = "commit" /\ f.task = t

InFlight == drag # None /\ drag.auto
Room == BagCardinality(flows) < MaxFlows

Begins(f) == flows' = BagAdd(flows, f)
Ends(f) == flows' = BagRemove(flows, f)
Goes(f, g) == flows' = BagAdd(BagRemove(flows, f), g)
Steps(f, at) == Goes(f, [f EXCEPT !.at = at])
At(f, kind, at) == f.kind = kind /\ f.at = at

\* What the properties remember of a step.
RememberAll(new, lost, strays, fails) ==
    /\ owed' = {u \in (owed \cup new) \ lost :
                  ColumnOf(board', u) = "backlog" /\ ~Starting(flows', u)}
    /\ mixed' = mixed \cup strays
    /\ failed' = failed \cup fails
    /\ crossed' = crossed \cup
         {t \in Tasks : /\ Starting(flows', t)
                        /\ \/ ColumnOf(board', t) \in {"trash", "none"}
                           \/ drag' # None /\ drag'.task = t /\ drag'.to = "trash"
                           \/ Cardinality({f \in BagToSet(flows') : f.task = t}) > 1}
Remember(new, lost, strays) == RememberAll(new, lost, strays, {})
Remembered == Remember({}, {}, {})

(***************************************************************************)
(* evaluateAutoReview, after every change of the board, of the changes a   *)
(* worktree has, or of a commit under way.                                 *)
(***************************************************************************)
Evaluate(arms, moves) ==
    LET In(t) == ColumnOf(board', t)
    IN  /\ armed' = {t \in arms : /\ In(t) \notin {"none", "trash"}
                                  /\ In(t) = "review" => t \in auto'}
        /\ moving' = {t \in moves : In(t) = "review"}
        /\ timer' = [t \in Tasks |->
             IF In(t) # "review" \/ t \notin auto' \/ Committing(flows', t) THEN "none"
             ELSE IF t \in armed'
                  THEN IF changes'[t] = "clean" /\ t \notin moving' THEN "finish" ELSE "none"
                  ELSE IF changes'[t] = "changed" THEN "commit" ELSE "none"]

Evaluated ==
    IF <<board', auto', changes'>> = <<board, auto, changes>> THEN UNCHANGED automation
    ELSE Evaluate(armed, moving)

Event == count < MaxEvents /\ count' = count + 1

FlowsInit ==
    /\ \E start \in Layouts, links \in Links :
         /\ board = [columns |-> [c \in Columns |-> SetToSeq({t \in Tasks : start[t] = c})],
                     links |-> links]
         /\ session = [t \in Tasks |-> IF start[t] = "review" THEN "awaiting_review" ELSE "none"]
         /\ tree \in {f \in [Tasks -> {"none", "clean", "changed"}] :
                       \A t \in Tasks : f[t] = "none" <=> start[t] = "backlog"}
    /\ Relinked(board) = board
    /\ auto \in Autos
    /\ shown = session /\ changes = [t \in Tasks |-> "unknown"]
    /\ noticed = {} /\ due = FALSE /\ drag = None /\ flows = EmptyBag
    /\ armed = {} /\ timer = [t \in Tasks |-> "none"] /\ moving = {}
    /\ count = 0
    /\ owed = {} /\ crossed = {} /\ mixed = {} /\ failed = {}

(***************************************************************************)
(* Drags.  The page's own begin at once or not at all: the library's lock  *)
(* is the user's, or the card is not on the screen.                        *)
(***************************************************************************)
Lifted(t, to, own, quiet) ==
    [task |-> t, from |-> ColumnOf(board, t), index |-> Index(board, t),
     to |-> to, auto |-> own, quiet |-> quiet]

Lift(t, from, to, quiet) ==
    /\ drag = None /\ ColumnOf(board, t) = from
    /\ drag' = Lifted(t, to, TRUE, quiet)

\* The page asks for a drag that is not to be had: no board is on the screen, or
\* the board refuses, and the slot is freed again at once.
Unavailable == ~InFlight /\ drag' = drag /\ due' \in {due, TRUE}

\* applyDragResult takes the card that is now where the dragged one was.
Dropped == drag.index <= Len(board.columns[drag.from])
Card == board.columns[drag.from][drag.index]

Reordered(to, n) ==
    Relinked([board EXCEPT !.columns[drag.from] = RemoveAt(@, drag.index),
                           !.columns[to] = InsertAt(@, n, Card)])

\* Mutant: the cycle is not counted.
FreesSilently == drag' = None /\ due' = due

\* consumeProgrammaticCardMove frees the slot, and the effect runs for the cards
\* that were refused it.
Frees == drag' = None /\ due' = (due \/ drag.auto)

\* The flow whose animation this was goes on, or a new one begins.
Animating == {f \in BagToSet(flows) : f.at = "animating" /\ f.task = drag.task}
Continues(g) ==
    LET own == {f \in Animating : f.kind = g.kind}
    IN  IF own = {} THEN Begins(g)
        ELSE LET f == CHOOSE f \in own : TRUE
             IN  IF g.task = drag.task THEN Goes(f, [g EXCEPT !.by = f.by, !.auto = f.auto])
                 ELSE flows' = BagAdd(BagAdd(BagRemove(flows, f), [f EXCEPT !.at = "lapsing"]), g)

\* handleDragEnd in another column.
Drop(to, n) ==
    LET t == Card
        done == [Flow("done", t, "linking") EXCEPT !.ready = Unblocked(t)]
        strays == IF t = drag.task THEN {} ELSE {t, drag.task}
        loud == to = "trash" /\ ~drag.quiet
    IN  /\ drag # None /\ Dropped
        /\ n \in 1 .. Len(board.columns[to]) + 1 /\ to # drag.from
        /\ board' = Reordered(to, n)
        /\ Frees
        /\ CASE loud -> Continues(done)
             [] to = "review" /\ drag.from = "trash" -> Continues(Flow("restore", t, "ensuring"))
             [] to = "in_progress" /\ drag.from = "backlog" ->
                  Continues([Flow("start", t, "ensuring") EXCEPT !.route = "animated"])
             [] OTHER -> flows' = flows
        /\ Remember(IF loud THEN Ready(board, t) ELSE {}, strays, strays)
        /\ UNCHANGED <<auto, server, told, noticed, count>>
        /\ Evaluated

\* A drag that moves no card to another column: a start is given up, a move to
\* done waits for its timer.
NoMove ==
    /\ Frees
    /\ IF Animating = {} THEN flows' = flows
       ELSE LET f == CHOOSE f \in Animating : TRUE
            IN  IF f.kind = "start" THEN Ends(f) ELSE Steps(f, "lapsing")
    /\ UNCHANGED <<auto, server, told, noticed>>

Glide == InFlight /\ Dropped /\ Drop(drag.to, 1)

Miss ==
    /\ InFlight /\ ~Dropped
    /\ NoMove
    /\ UNCHANGED <<board, count>>
    /\ Evaluated /\ Remember({}, {drag.task}, {})

CancelDrag ==
    /\ drag # None
    /\ IF drag.auto THEN Event ELSE UNCHANGED count
    /\ NoMove
    /\ UNCHANGED <<board, automation>>
    /\ Remember({}, {drag.task}, {})

\* Where isCardDropDisabled and isAllowedCrossColumnCardMove let the user drop.
Targets(from) == CASE from = "backlog" -> {"in_progress", "trash"}
                   [] from = "trash" -> {"review"}
                   [] OTHER -> {"trash"}

UserLift(t) ==
    /\ Event /\ drag = None /\ ColumnOf(board, t) # "none"
    /\ Room
    /\ drag' = Lifted(t, None, FALSE, FALSE)
    /\ UNCHANGED <<board, auto, server, told, noticed, due, flows, automation, history>>

UserDrop ==
    /\ drag # None /\ ~drag.auto
    /\ \E to \in Targets(drag.from) : \E n \in {1, Len(board.columns[to]) + 1} : Drop(to, n)

UserReorder ==
    /\ drag # None /\ ~drag.auto /\ Dropped
    /\ \E n \in DOMAIN board.columns[drag.from] :
         /\ n # drag.index
         /\ board' = [board EXCEPT !.columns[drag.from] = InsertAt(RemoveAt(@, drag.index), n, Card)]
    /\ NoMove /\ Evaluated /\ Remembered
    /\ UNCHANGED count

(***************************************************************************)
(* startBacklogTaskWithAnimation and kickoffTaskInProgress.                *)
(***************************************************************************)
OrderStart(t) ==
    /\ Event /\ Room
    /\ ColumnOf(board, t) = "backlog"
    /\ Begins(Flow("start", t, "asking"))
    /\ UNCHANGED <<board, auto, server, told, page, automation>>
    /\ Remembered

\* The board is on the screen, and the card glides to "in progress" ...
AskStart(f) ==
    /\ At(f, "start", "asking")
    /\ Lift(f.task, "backlog", "in_progress", FALSE)
    /\ Steps(f, "animating")
    /\ UNCHANGED <<board, auto, server, told, noticed, due, automation, count, history>>

\* ... or the drag is not to be had: the card moves when the session has begun ...
AskStartUnseen(f) ==
    /\ At(f, "start", "asking") /\ Unavailable
    /\ Steps(f, "ensuring")
    /\ UNCHANGED <<board, auto, server, told, noticed, automation, count>>
    /\ Remembered

\* ... or another card's details cover it: it moves at once.
AskStartCovered(f) ==
    LET t == f.task
    IN  /\ At(f, "start", "asking")
        /\ IF ColumnOf(board, t) = "backlog"
           THEN /\ board' = MoveTo(board, t, "in_progress", TRUE)
                /\ Goes(f, [f EXCEPT !.at = "ensuring", !.route = "covered"])
           ELSE Ends(f) /\ UNCHANGED board
        /\ UNCHANGED <<auto, server, told, page, count>>
        /\ Evaluated /\ Remembered

OrderStartAll ==
    LET cards == board.columns["backlog"]
    IN  /\ Event /\ cards # <<>> /\ Room
        /\ board' = MoveAll(board, cards, [t \in Tasks |-> "in_progress"])
        /\ flows' = flows (+) SetToBag({[Flow("start", t, "ensuring") EXCEPT !.route = "covered"] :
                                          t \in Range(cards)})
        /\ UNCHANGED <<auto, server, told, page>>
        /\ Evaluated /\ Remembered

\* ensureTaskWorkspace, of a start or of a restore.
EnsureTree(f) ==
    LET t == f.task
    IN  /\ f.at = "ensuring"
        /\ Steps(f, "starting")
        /\ \E made \in IF f.kind = "restore" THEN {"clean", "changed"} ELSE {"clean"} :
             tree' = [tree EXCEPT ![t] = IF @ = "none" THEN made ELSE @]
        /\ UNCHANGED <<board, auto, session, told, page, automation, count, history>>

\* startTaskSession on the server: a live session answers as it is.
StartSession(f) ==
    LET t == f.task
        state == IF f.kind = "restore" THEN "awaiting_review" ELSE "running"
    IN  /\ f.at = "starting"
        /\ Steps(f, "answering")
        /\ session' = [session EXCEPT ![t] = IF @ \in Live THEN @ ELSE state]
        /\ tree' = [tree EXCEPT ![t] = IF @ = "none" THEN "clean" ELSE @]
        /\ UNCHANGED <<board, auto, told, page, automation, count, history>>

\* A card moved ahead of its session goes back, if it is still there.  The call
\* may also fail with its answer, when the session has begun already.
FailStart(f) ==
    LET t == f.task
        restores == f.kind = "restore"
        ahead == IF restores THEN "review" ELSE "in_progress"
        back == IF restores THEN "trash" ELSE "backlog"
    IN  /\ f.at \in Underway
        /\ Event
        /\ board' = IF (restores \/ f.route # "plain") /\ ColumnOf(board, t) = ahead
                    THEN MoveTo(board, t, back, restores) ELSE board
        /\ Ends(f)
        /\ UNCHANGED <<auto, server, told, page>>
        /\ Evaluated
        /\ RememberAll({}, {}, {}, IF f.at = "answering" THEN {t} ELSE {})

StartAnswered(f) ==
    LET t == f.task
    IN  /\ f.at = "answering"
        /\ board' = IF f.kind = "start" /\ f.route = "plain" /\ ColumnOf(board, t) = "backlog"
                    THEN MoveTo(board, t, "in_progress", TRUE) ELSE board
        /\ auto' = IF f.kind = "restore" THEN auto \ {t} ELSE auto
        /\ shown' = [shown EXCEPT ![t] = session[t]]
        /\ due' = TRUE
        /\ Ends(f)
        /\ UNCHANGED <<server, changes, noticed, drag, count>>
        /\ Evaluated /\ Remembered

(***************************************************************************)
(* requestMoveTaskToTrashWithAnimation and performMoveTaskToTrash.         *)
(***************************************************************************)
Finishing(t) == \E f \in BagToSet(flows) : f.kind = "done" /\ f.task = t

\* The flow starts what only waited for the card, and then stops its session.
Trashes(others, f) ==
    /\ board' = MoveTo(board, f.task, "trash", TRUE)
    /\ flows' = BagAdd(others, [f EXCEPT !.at = "linking", !.ready = Unblocked(f.task)])
    /\ Evaluated /\ Remember(Ready(board, f.task), {}, {})

OrderDone(t) ==
    /\ Event /\ Room
    /\ ColumnOf(board, t) \notin {"trash", "none"} /\ ~Finishing(t)
    /\ UNCHANGED <<auto, server, told, page>>
    /\ IF ColumnOf(board, t) = "review"
       THEN /\ Begins(Flow("done", t, "asking"))
            /\ UNCHANGED <<board, automation, history>>
       ELSE Trashes(flows, Flow("done", t, "linking"))

AskDone(f) ==
    /\ At(f, "done", "asking")
    /\ Lift(f.task, "review", "trash", FALSE)
    /\ Steps(f, "animating")
    /\ UNCHANGED <<board, auto, server, told, noticed, due, automation, count, history>>

AskDoneUnseen(f) ==
    /\ At(f, "done", "asking") /\ Unavailable
    /\ ColumnOf(board, f.task) # "none"
    /\ UNCHANGED <<auto, server, told, noticed, count>>
    /\ Trashes(BagRemove(flows, f), f)

\* The request was for a task that was deleted meanwhile.
AskDoneGone(f) ==
    /\ At(f, "done", "asking") /\ Unavailable
    /\ ColumnOf(board, f.task) = "none"
    /\ Ends(f)
    /\ UNCHANGED <<board, auto, server, told, noticed, automation, count, history>>

StartLinked(f) ==
    /\ At(f, "done", "linking")
    /\ \E u \in f.ready :
         flows' = BagAdd(BagAdd(BagRemove(flows, f), [f EXCEPT !.ready = @ \ {u}]),
                         [Flow("start", u, "asking") EXCEPT !.by = f.task])
    /\ UNCHANGED <<board, auto, server, told, page, automation, count, history>>

\* Mutant: only a working agent is stopped.
StopsWorking(t) == IF session[t] = "running" THEN Ended(t) ELSE session[t]
Stops(t) == IF session[t] \in Live THEN Ended(t) ELSE session[t]

\* The linked starts are waited for, an animated one five seconds at most.
ToStop(f) ==
    /\ At(f, "done", "linking") /\ f.ready = {}
    /\ \A g \in BagToSet(flows) : g.by = f.task => g.route = "animated" \/ g.at = "animating"
    /\ Steps(f, "cleaning")

StopDone(f) ==
    /\ ToStop(f)
    /\ session' = [session EXCEPT ![f.task] = Stops(f.task)]
    /\ UNCHANGED <<board, auto, tree, told, page, automation, count, history>>

\* A stop that is refused or lost is taken for done.
StopFails(f) ==
    /\ ToStop(f)
    /\ Event /\ session[f.task] \in Live
    /\ failed' = failed \cup {f.task}
    /\ UNCHANGED <<board, auto, server, told, page, automation, owed, crossed, mixed>>

\* The worktree is deleted, if that does not fail, and whoever waited for the
\* flow is answered.
CleanDone(f) ==
    LET t == f.task
    IN  /\ At(f, "done", "cleaning")
        /\ \/ tree' = [tree EXCEPT ![t] = "none"] /\ UNCHANGED count
           \/ Event /\ tree' = tree
        /\ Ends(f)
        /\ armed' = IF f.auto THEN armed \ {t} ELSE armed
        /\ moving' = IF f.auto THEN moving \ {t} ELSE moving
        /\ UNCHANGED <<board, auto, session, told, page, timer, history>>

\* The five seconds after which a request is given up whose drag brought no drop.
Lapse(f) ==
    LET t == f.task
    IN  /\ f.at = "lapsing"
        /\ Ends(f)
        /\ armed' = IF f.auto THEN armed \ {t} ELSE armed
        /\ moving' = IF f.auto THEN moving \ {t} ELSE moving
        /\ UNCHANGED <<board, auto, server, told, page, timer, count, history>>

(***************************************************************************)
(* Restores, links and the emptying of the trash.                          *)
(***************************************************************************)
OrderRestore(t) ==
    /\ Event /\ Room
    /\ ColumnOf(board, t) = "trash"
    /\ UNCHANGED <<auto, server, told, noticed>>
    /\ \/ /\ Lift(t, "trash", "review", FALSE)
          /\ UNCHANGED <<board, flows, automation, history, due>>
       \/ /\ Unavailable
          /\ board' = MoveTo(board, t, "review", TRUE)
          /\ Begins(Flow("restore", t, "ensuring"))
          /\ Evaluated /\ Remembered

\* addTaskDependency, which refuses a pair that is linked.
OrderLink(t, u) ==
    LET link == Oriented(board, <<t, u>>)
    IN  /\ Event /\ t # u /\ Joins(board, link) /\ link \notin board.links
        /\ board' = [board EXCEPT !.links = @ \cup {link}]
        /\ UNCHANGED <<auto, server, told, page, flows, history>>
        /\ Evaluated

OrderUnlink(link) ==
    /\ Event /\ link \in board.links
    /\ board' = [board EXCEPT !.links = @ \ {link}]
    /\ UNCHANGED <<auto, server, told, page, flows, history>>
    /\ Evaluated

OrderClear ==
    LET cards == board.columns["trash"]
    IN  /\ Event /\ cards # <<>> /\ Room
        /\ board' = Relinked([board EXCEPT !.columns["trash"] = <<>>])
        /\ shown' = [t \in Tasks |-> IF Contains(cards, t) THEN "none" ELSE shown[t]]
        /\ due' = TRUE
        /\ flows' = flows (+) SetToBag({Flow("done", t, "linking") : t \in Range(cards)})
        /\ UNCHANGED <<auto, server, changes, noticed, drag>>
        /\ Evaluated /\ Remembered

OrderNoAuto(t) ==
    /\ Event /\ t \in auto
    /\ auto' = auto \ {t}
    /\ UNCHANGED <<board, server, told, page, flows, history>>
    /\ Evaluated

(***************************************************************************)
(* The effect that follows the sessions, run when the page was told of one *)
(* or a card's own drag has ended.                                         *)
(***************************************************************************)
Wanted(t) ==
    LET c == ColumnOf(board, t)
    IN  CASE shown[t] \in {"awaiting_review", "exited"} /\ c = "in_progress" -> "review"
          [] shown[t] = "running" /\ c = "review" -> "in_progress"
          [] shown[t] = "interrupted" /\ t \notin noticed /\ c \notin {"none", "trash"} -> "trash"
          [] OTHER -> "none"

Behind == {t \in Tasks : Wanted(t) # "none"}

\* Cards move at once until one gets the drag, which blocks the others; a drag
\* that was refused has the effect run again.
Follow ==
    /\ due
    /\ \E direct \in SUBSET Behind :
         LET blocked == {t \in Behind \ direct : drag' = drag \/ t # drag'.task}
         IN  /\ \/ InFlight /\ direct = {} /\ drag' = drag
                \/ ~InFlight /\ direct = Behind /\ drag' = drag
                \/ /\ drag = None
                   /\ \E t \in Behind \ direct :
                        drag' = Lifted(t, Wanted(t), TRUE, Wanted(t) = "trash")
             /\ board' = MoveAll(board, SetToSeq(direct), [t \in Tasks |-> Wanted(t)])
             /\ noticed' = {t \in Tasks : shown[t] = "interrupted"} \ blocked
             /\ due' \in {FALSE, direct # {}}
    /\ UNCHANGED <<auto, server, told, flows, count>>
    /\ Evaluated /\ Remembered

(***************************************************************************)
(* The automation's timers.                                                *)
(***************************************************************************)
\* The task is armed, and its agent is asked to commit.
CommitDue(t) ==
    /\ timer[t] = "commit" /\ Room
    /\ timer' = [timer EXCEPT ![t] = "none"]
    /\ armed' = armed \cup {t}
    /\ Begins(Flow("commit", t, "asking"))
    /\ UNCHANGED <<board, auto, server, told, page, moving, count, history>>

CommitAsked(f) ==
    /\ f.kind = "commit"
    /\ Ends(f)
    /\ UNCHANGED <<board, auto, server, told, page, history>>
    /\ \/ /\ session[f.task] \in Live
          /\ Evaluate(armed, moving)
          /\ UNCHANGED count
       \/ /\ IF session[f.task] \in Live THEN Event ELSE UNCHANGED count
          /\ Evaluate(armed \ {f.task}, moving)

FinishDue(t) ==
    /\ timer[t] = "finish" /\ Room
    /\ timer' = [timer EXCEPT ![t] = "none"]
    /\ moving' = moving \cup {t}
    /\ Begins([Flow("done", t, "asking") EXCEPT !.auto = TRUE])
    /\ UNCHANGED <<board, auto, server, told, page, armed, count, history>>

(***************************************************************************)
(* The agents, and what the page is told of them.                          *)
(***************************************************************************)
AgentTurn(t) ==
    /\ Event /\ session[t] \in Live
    /\ \E next \in {"running", "awaiting_review", Ended(t)} \ {session[t]} :
         session' = [session EXCEPT ![t] = next]
    /\ UNCHANGED <<board, auto, tree, told, page, flows, automation, history>>

\* The agent edits its worktree, or commits.
AgentWorks(t) ==
    /\ Event /\ session[t] = "running" /\ tree[t] # "none"
    /\ tree' = [tree EXCEPT ![t] = IF @ = "clean" THEN "changed" ELSE "clean"]
    /\ UNCHANGED <<board, auto, session, told, page, flows, automation, history>>

\* upsertSession: the newest summary, told by the stream or as an answer.
Deliver(t) ==
    /\ session[t] # shown[t]
    /\ shown' = [shown EXCEPT ![t] = session[t]]
    /\ due' = TRUE
    /\ UNCHANGED <<board, auto, server, changes, noticed, drag, flows, automation, count, history>>

Refresh(t) ==
    /\ changes[t] # tree[t] /\ ColumnOf(board, t) = "review" /\ t \in auto
    /\ changes' = [changes EXCEPT ![t] = tree[t]]
    /\ UNCHANGED <<board, auto, server, shown, page, flows, count, history>>
    /\ Evaluated

(***************************************************************************)
(* The specification.                                                      *)
(***************************************************************************)
User ==
    \/ \E t \in Tasks : \/ UserLift(t) \/ OrderStart(t) \/ OrderDone(t)
                        \/ OrderRestore(t) \/ OrderNoAuto(t)
    \/ \E t, u \in Tasks : OrderLink(t, u)
    \/ \E link \in board.links : OrderUnlink(link)
    \/ OrderStartAll \/ OrderClear

UserLetsGo == drag # None /\ ~drag.auto /\ (UserDrop \/ UserReorder \/ CancelDrag)

FlowStep(f) ==
    \/ AskStart(f) \/ AskStartUnseen(f) \/ AskStartCovered(f)
    \/ EnsureTree(f) \/ StartSession(f) \/ FailStart(f) \/ StartAnswered(f)
    \/ AskDone(f) \/ AskDoneUnseen(f) \/ AskDoneGone(f)
    \/ StartLinked(f) \/ StopDone(f) \/ StopFails(f) \/ CleanDone(f) \/ Lapse(f)
    \/ CommitAsked(f)

Glides == InFlight /\ (Glide \/ Miss \/ CancelDrag)

Server == \E t \in Tasks : AgentTurn(t) \/ AgentWorks(t) \/ Refresh(t)

FlowsNext ==
    \/ User \/ UserLetsGo \/ Follow \/ Glides \/ Server
    \/ \E f \in BagToSet(flows) : FlowStep(f)
    \/ \E t \in Tasks : CommitDue(t) \/ FinishDue(t) \/ Deliver(t)

FlowsSpec == FlowsInit /\ [][FlowsNext]_flowVars

\* The effect runs, drags end and flows go on.
Fairness ==
    /\ WF_due(due /\ due' = FALSE) /\ WF_drag(drag # None /\ drag' = None)
    /\ WF_flows(\E f \in BagToSet(flows) : FlowStep(f))

FairFlowsSpec == FlowsSpec /\ Fairness

(***************************************************************************)
(* Properties.                                                             *)
(***************************************************************************)
\* A card that is behind its session when the effect is to run, or is held up
\* by another card's drag, gets to its column: no card is forgotten for having
\* been refused the drag.
ColumnsFollowSessions ==
    \A t \in Tasks : (t \in Behind /\ (due \/ InFlight)) ~> t \notin Behind \/ t \in mixed

\* A task that waited for one that is now done is started, unless its own drag
\* is cancelled: the tasks to start are those of the board before the drop.
LinkedTasksStart == \A u \in Tasks : u \in owed ~> u \notin owed

\* Once the flow that finished a task is over, no agent works on it, unless the
\* task was being started as it was moved to done, its card was mixed up with
\* another in a drop, its stop failed, or a start or restore of it failed after
\* its session had begun: the page takes a failed stop for done, and a failed
\* restore sends the card back to done.
NoAgentForDoneTask ==
    \A t \in Tasks :
        (/\ ColumnOf(board, t) \in {"trash", "none"}
         /\ \A f \in BagToSet(flows) : f.task # t
         /\ t \notin crossed \cup mixed \cup failed)
        => session[t] \notin Live

=============================================================================
