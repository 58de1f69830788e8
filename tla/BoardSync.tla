------------------------------ MODULE BoardSync ------------------------------
(***************************************************************************)
(* The board of one workspace: its files, the writers that take turns at   *)
(* them (the runtime server for a browser, a kanban command for the shell),*)
(* the hub that streams the board to the browsers, and the browser's own   *)
(* copy with its debounced, revision-checked saves.                        *)
(*                                                                         *)
(* A board is the set of the edits it contains: an edit stands for any     *)
(* change a person or a command makes.  Sessions, git information and the  *)
(* project list ride along with the board in the code and are left out.    *)
(***************************************************************************)
EXTENDS Integers, Sequences, FiniteSets

CONSTANTS
    Browsers,      \* pages open on the workspace
    Cli,           \* the kanban command run from a shell
    Nobody,
    MaxEdits,      \* edits made by anybody
    MaxMishaps     \* pages hidden, streams broken, saves lost, commands killed, reads
                   \* that fail

ASSUME BrowsersAssumption ==
    /\ IsFiniteSet(Browsers)
    /\ Cli \notin Browsers
    /\ Nobody \notin Browsers \cup {Cli}
ASSUME BoundsAssumption ==
    MaxEdits \in Nat /\ MaxMishaps \in Nat

VARIABLES
    boardFile,     \* board.json
    metaFile,      \* the revision of meta.json
    lock,          \* who holds the lock of the workspace directory
    work,          \* per writer, the save or mutation under way
    hub,           \* per browser, its registration for workspace updates
    loads,         \* reads of the workspace state under way in the server
    stream,        \* per browser, stream messages sent and not yet received
    reply,         \* per browser, the answer to its save
    ui,            \* per browser, the state of the page
    spent,         \* how much of each bound is used
    saved,         \* history: saved[r + 1] is the board saved as revision r
    answers        \* history: the revisions given to writers, with the board saved

files == <<boardFile, metaFile, lock, work, saved, answers>>
vars  == <<boardFile, metaFile, lock, work, hub, loads, stream, reply, ui, spent, saved, answers>>

Writers   == Browsers \cup {Cli}
Edits     == 1 .. MaxEdits
Revisions == Nat

Registered == {b \in Browsers : hub[b] = "on"}

NewEdit == spent.edits + 1

SpendEdit == spent.edits < MaxEdits /\ spent' = [spent EXCEPT !.edits = @ + 1]
Mishap    == spent.mishaps < MaxMishaps /\ spent' = [spent EXCEPT !.mishaps = @ + 1]

-----------------------------------------------------------------------------
(* The files.  saveWorkspaceState and mutateWorkspaceState hold the lock    *)
(* of the workspace directory from the read of the revision to the last     *)
(* write; board.json is written first and meta.json last.                   *)

IdleWork == [stage |-> "idle", board |-> {}, expected |-> 0, next |-> 0, misled |-> FALSE]

\* Mutant: the section is entered without the lock.
LockIgnored == TRUE

LockFree == lock = Nobody

\* Mutant: the check of the expected revision accepts an older one.
AnyRevision(expected) == expected <= metaFile

IsCurrent(expected) == expected = metaFile

\* The server gets the save of a browser: accepted, it enters the section;
\* refused, it is answered with the revision of the files.
SaveArrives(b) ==
    /\ work[b].stage = "asked"
    /\ LockFree
    /\ \/ /\ IsCurrent(work[b].expected)
          /\ lock' = b
          /\ work' = [work EXCEPT ![b].stage = "board", ![b].next = metaFile + 1]
          /\ UNCHANGED reply
       \/ /\ ~IsCurrent(work[b].expected)
          /\ work' = [work EXCEPT ![b] = IdleWork]
          /\ reply' = [reply EXCEPT ![b] = [type |-> "conflict", rev |-> metaFile]]
          /\ UNCHANGED lock
    /\ UNCHANGED <<boardFile, metaFile, hub, loads, stream, ui, spent, saved, answers>>

\* A command changes the board it reads under the lock.
CliMutate ==
    /\ work[Cli].stage = "idle"
    /\ LockFree
    /\ SpendEdit
    /\ lock' = Cli
    /\ work' = [work EXCEPT ![Cli] = [IdleWork EXCEPT !.stage = "board",
                                                      !.board = boardFile \cup {NewEdit},
                                                      !.next  = metaFile + 1]]
    /\ UNCHANGED <<boardFile, metaFile, hub, loads, stream, reply, ui, saved, answers>>

WriteBoard(w) ==
    /\ work[w].stage = "board"
    /\ boardFile' = work[w].board
    /\ work' = [work EXCEPT ![w].stage = "meta"]
    /\ UNCHANGED <<metaFile, lock, hub, loads, stream, reply, ui, spent, saved, answers>>

\* A broadcast reads the state only when a page is registered for it.
Broadcast(rev) ==
    IF Registered = {} THEN {}
    ELSE {[kind |-> "broadcast", to |-> Nobody, id |-> rev, stage |-> "asked", board |-> {}, rev |-> 0]}

\* The last write ends the section: a browser is answered and the pages are
\* told; a command has still to ask the server to tell them.
WriteMeta(w) ==
    /\ work[w].stage = "meta"
    /\ metaFile' = work[w].next
    /\ lock' = Nobody
    /\ saved' = Append(saved, work[w].board)
    /\ answers' = answers \cup {<<work[w].next, work[w].board>>}
    /\ \/ /\ w = Cli
          /\ work' = [work EXCEPT ![w].stage = "notify"]
          /\ UNCHANGED <<loads, reply>>
       \/ /\ w # Cli
          /\ work' = [work EXCEPT ![w] = IdleWork]
          /\ reply' = [reply EXCEPT ![w] = [type |-> "saved", rev |-> work[w].next]]
          /\ loads' = loads \cup Broadcast(work[w].next)
    /\ UNCHANGED <<boardFile, hub, stream, ui, spent>>

CliNotify ==
    /\ work[Cli].stage = "notify"
    /\ loads' = loads \cup Broadcast(work[Cli].next)
    /\ work' = [work EXCEPT ![Cli] = IdleWork]
    /\ UNCHANGED <<boardFile, metaFile, lock, hub, stream, reply, ui, spent, saved, answers>>

\* A command is killed: its lock goes stale and is taken over, what it wrote
\* stays, and nobody is told.
CliKilled ==
    /\ work[Cli].stage # "idle"
    /\ spent.mishaps < MaxMishaps
    /\ spent' = [spent EXCEPT !.mishaps = @ + 1, !.untold = @ \/ work[Cli].stage = "notify"]
    /\ work' = [work EXCEPT ![Cli] = IdleWork]
    /\ lock' = IF lock = Cli THEN Nobody ELSE lock
    /\ UNCHANGED <<boardFile, metaFile, hub, loads, stream, reply, ui, saved, answers>>

-----------------------------------------------------------------------------
(* Reads.  loadWorkspaceState takes no lock: the board is read first, the   *)
(* revision later, and a writer may be anywhere in between.                 *)

LoadBoard(l) ==
    /\ l.stage = "asked"
    /\ loads' = (loads \ {l}) \cup {[l EXCEPT !.stage = "board", !.board = boardFile]}
    /\ UNCHANGED <<files, hub, stream, reply, ui, spent>>

LoadMeta(l) ==
    /\ l.stage = "board"
    /\ loads' = (loads \ {l}) \cup {[l EXCEPT !.stage = "ready", !.rev = metaFile]}
    /\ UNCHANGED <<files, hub, stream, reply, ui, spent>>

\* What was read has every edit of the revision it was read with.
Whole(l) == saved[l.rev + 1] \subseteq l.board

-----------------------------------------------------------------------------
(* The hub.  A page is registered for updates only after its snapshot has   *)
(* been read and sent.                                                      *)

Connect(b) ==
    /\ hub[b] = "off"
    /\ hub' = [hub EXCEPT ![b] = "loading"]
    /\ loads' = loads \cup {[kind |-> "snapshot", to |-> b, id |-> 0, stage |-> "board",
                             board |-> boardFile, rev |-> 0]}
    /\ UNCHANGED <<files, stream, reply, ui, spent>>

SendSnapshot(l) ==
    /\ l.kind = "snapshot" /\ l.stage = "ready"
    /\ loads' = loads \ {l}
    /\ hub' = [hub EXCEPT ![l.to] = "on"]
    /\ stream' = [stream EXCEPT ![l.to] = Append(@, [type |-> "snapshot", board |-> l.board, rev |-> l.rev])]
    /\ UNCHANGED <<files, reply, ui, spent>>

SendUpdate(l) ==
    /\ l.kind = "broadcast" /\ l.stage = "ready"
    /\ loads' = loads \ {l}
    /\ stream' = [b \in Browsers |->
                     IF b \in Registered
                     THEN Append(stream[b], [type |-> "update", board |-> l.board, rev |-> l.rev])
                     ELSE stream[b]]
    /\ UNCHANGED <<files, hub, reply, ui, spent>>

\* The state cannot be read for a broadcast: the error is swallowed and no
\* page is sent the update.
UpdateFails(l) ==
    /\ l.kind = "broadcast"
    /\ Mishap
    /\ loads' = loads \ {l}
    /\ ui' = [b \in Browsers |-> [ui[b] EXCEPT !.missed = @ \/ b \in Registered]]
    /\ UNCHANGED <<files, hub, stream, reply>>

\* A snapshot cannot be put together: the page is told of an error, and its
\* socket stays open without ever being registered for updates.
SnapshotFails(l) ==
    /\ l.kind = "snapshot"
    /\ Mishap
    /\ loads' = loads \ {l}
    /\ ui' = [ui EXCEPT ![l.to].missed = TRUE]
    /\ UNCHANGED <<files, hub, stream, reply>>

\* A connection breaks: what was on its way to the page is lost, a snapshot
\* being put together is dropped, and with the last page the set of clients
\* the running broadcasts hold is empty.
Break(b) ==
    /\ hub[b] # "off"
    /\ Mishap
    /\ hub' = [hub EXCEPT ![b] = "off"]
    /\ stream' = [stream EXCEPT ![b] = <<>>]
    /\ loads' = {l \in loads : /\ ~(l.kind = "snapshot" /\ l.to = b)
                               /\ l.kind = "broadcast" => Registered \ {b} # {}}
    /\ ui' = [ui EXCEPT ![b].unbroken = FALSE]
    /\ UNCHANGED <<files, reply>>

-----------------------------------------------------------------------------
(* The page.  "board" and "rev" are what it shows and what it believes to   *)
(* be its revision; "dirty" says that the board is not the one last          *)
(* persisted; "skip" is skipNextPersistRef, "queued" persistQueuedRef;       *)
(* "flight" is the save in flight, and while a conflict is being repaired    *)
(* the refetch it waits for.  History: "misled" and "unbroken", and "missed", *)
(* that a read of the state meant for the page failed and it has not fetched  *)
(* the state since.                                                           *)

NoFlight == [on |-> FALSE, same |-> FALSE, refetch |-> 0]

NewPage ==
    [board |-> {}, rev |-> 0, applied |-> FALSE, snapshot |-> FALSE, visible |-> TRUE,
     refreshing |-> FALSE, query |-> 0, flight |-> NoFlight, queued |-> FALSE,
     skip |-> FALSE, dirty |-> FALSE, timer |-> FALSE, misled |-> FALSE, unbroken |-> TRUE,
     missed |-> FALSE]

\* Mutant: the effect does not look for a save in flight.
FlightIgnored(x) ==
    IF x.applied /\ x.visible /\ ~x.refreshing
    THEN [x EXCEPT !.timer = x.dirty /\ ~x.skip, !.skip = FALSE]
    ELSE [x EXCEPT !.timer = FALSE]

\* The persistence effect, run whenever something it depends on has changed.
Effect(x) ==
    LET ready == x.applied /\ x.visible /\ ~x.refreshing IN
    CASE ~ready                                  -> [x EXCEPT !.timer = FALSE]
      [] ready /\ x.flight.on                    -> [x EXCEPT !.timer = FALSE, !.queued = TRUE]
      [] ready /\ ~x.flight.on /\ x.skip         -> [x EXCEPT !.timer = FALSE, !.skip = FALSE]
      [] ready /\ ~x.flight.on /\ ~x.skip        -> [x EXCEPT !.timer = x.dirty]

\* applyWorkspaceState: an older state is ignored, one of the same revision
\* changes nothing of the board, any other replaces the page's board.  The
\* page is misled when the board does not have all the edits of its revision.
Apply(x, m) ==
    IF x.applied /\ m.rev <= x.rev THEN x
    ELSE [x EXCEPT !.board = m.board, !.rev = m.rev, !.applied = TRUE, !.skip = TRUE,
                   !.dirty = FALSE, !.flight.same = FALSE, !.misled = ~Whole(m)]

\* The effect runs when the state received has changed what it depends on.
Applied(x, m) ==
    IF Apply(x, m) = x THEN x ELSE Effect(Apply(x, m))

\* refreshWorkspaceState: a newer refresh makes the answers to older ones void.
StartRefresh(x) == [x EXCEPT !.refreshing = TRUE, !.query = @ + 1, !.missed = FALSE]

Query(b, x) == {[kind |-> "query", to |-> b, id |-> x.query, stage |-> "asked", board |-> {}, rev |-> 0]}

\* Mutant: the page does not refresh when its first snapshot arrives.
NeverRefreshes(x, m) == FALSE

RefreshesOn(x, m) == m.type = "snapshot" /\ ~x.snapshot /\ x.visible

Receive(b) ==
    /\ stream[b] # <<>>
    /\ LET m == Head(stream[b])
           x == [Applied(ui[b], m) EXCEPT !.snapshot = @ \/ m.type = "snapshot"]
           y == Effect(StartRefresh(x))
       IN IF RefreshesOn(ui[b], m)
          THEN /\ ui' = [ui EXCEPT ![b] = y]
               /\ loads' = loads \cup Query(b, y)
          ELSE /\ ui' = [ui EXCEPT ![b] = x]
               /\ UNCHANGED loads
    /\ stream' = [stream EXCEPT ![b] = Tail(@)]
    /\ UNCHANGED <<files, hub, reply, spent>>

\* Somebody works on the board in the page.
Edit(b) ==
    /\ ui[b].applied /\ ui[b].visible
    /\ SpendEdit
    /\ LET x == [ui[b] EXCEPT !.board = @ \cup {NewEdit}, !.dirty = TRUE, !.flight.same = FALSE]
       IN ui' = [ui EXCEPT ![b] = Effect(x)]
    /\ UNCHANGED <<files, hub, loads, stream, reply>>

\* The debounce ends: the board and the revision of the page go to the server.
Persist(b) ==
    /\ ui[b].timer
    /\ ui' = [ui EXCEPT ![b].timer = FALSE, ![b].flight = [on |-> TRUE, same |-> TRUE, refetch |-> 0]]
    /\ work' = [work EXCEPT ![b] = [IdleWork EXCEPT !.stage = "asked", !.board = ui[b].board,
                                                    !.expected = ui[b].rev, !.misled = ui[b].misled]]
    /\ UNCHANGED <<boardFile, metaFile, lock, hub, loads, stream, reply, spent, saved, answers>>

\* The end of a save: the queued run of the effect, or the one a changed
\* dependency asks for.
Settle(x, changed) ==
    LET y == [x EXCEPT !.flight = NoFlight, !.queued = FALSE] IN
    IF changed \/ x.queued THEN Effect(y) ELSE y

Saved(b) ==
    /\ reply[b].type = "saved"
    /\ LET x == ui[b]
       IN ui' = [ui EXCEPT ![b] = Settle([x EXCEPT !.dirty = ~x.flight.same, !.rev = reply[b].rev],
                                         x.rev # reply[b].rev)]
    /\ reply' = [reply EXCEPT ![b] = [type |-> "none", rev |-> 0]]
    /\ UNCHANGED <<files, hub, loads, stream, spent>>

\* A conflict: the page takes over the revision of the answer, then fetches
\* the state, and its save stays in flight until that is done.
Refused(b) ==
    /\ reply[b].type = "conflict"
    /\ LET x == StartRefresh([ui[b] EXCEPT !.rev = reply[b].rev, !.misled = TRUE])
       IN /\ ui' = [ui EXCEPT ![b] = Effect([x EXCEPT !.flight.refetch = x.query])]
          /\ loads' = loads \cup Query(b, x)
    /\ reply' = [reply EXCEPT ![b] = [type |-> "none", rev |-> 0]]
    /\ UNCHANGED <<files, hub, stream, spent>>

\* The request or the answer of a save is lost: the page gives up on it.
SaveLost(b) ==
    /\ \/ work[b].stage = "asked"
       \/ reply[b].type # "none"
    /\ Mishap
    /\ work' = [work EXCEPT ![b] = IdleWork]
    /\ reply' = [reply EXCEPT ![b] = [type |-> "none", rev |-> 0]]
    /\ ui' = [ui EXCEPT ![b] = Settle(@, FALSE)]
    /\ UNCHANGED <<boardFile, metaFile, lock, hub, loads, stream, saved, answers>>

\* A refresh is answered: only the newest counts, and the save that waited
\* for it ends.
Refreshed(l) ==
    /\ l.kind = "query" /\ l.stage = "ready"
    /\ LET b == l.to
           x == IF l.id = ui[b].query THEN [Apply(ui[b], l) EXCEPT !.refreshing = FALSE] ELSE ui[b]
       IN ui' = [ui EXCEPT ![b] = IF x.flight.on /\ x.flight.refetch = l.id
                                  THEN Settle(x, x # ui[b])
                                  ELSE IF x # ui[b] THEN Effect(x) ELSE x]
    /\ loads' = loads \ {l}
    /\ UNCHANGED <<files, hub, stream, reply, spent>>

\* A refresh fails: the newest ends with an error message and no state, none
\* is asked for in its place, and the save that waited for it ends all the same.
RefreshFails(l) ==
    /\ l.kind = "query"
    /\ Mishap
    /\ LET b == l.to
           newest == l.id = ui[b].query
           x == IF newest THEN [ui[b] EXCEPT !.refreshing = FALSE, !.missed = TRUE] ELSE ui[b]
       IN ui' = [ui EXCEPT ![b] = IF x.flight.on /\ x.flight.refetch = l.id
                                  THEN Settle(x, newest)
                                  ELSE IF newest THEN Effect(x) ELSE x]
    /\ loads' = loads \ {l}
    /\ UNCHANGED <<files, hub, stream, reply>>

Hide(b) ==
    /\ ui[b].visible
    /\ Mishap
    /\ ui' = [ui EXCEPT ![b] = Effect([@ EXCEPT !.visible = FALSE])]
    /\ UNCHANGED <<files, hub, loads, stream, reply>>

Show(b) ==
    /\ ~ui[b].visible
    /\ LET x == Effect([ui[b] EXCEPT !.visible = TRUE])
           y == Effect(StartRefresh(x))
       IN IF x.snapshot
          THEN ui' = [ui EXCEPT ![b] = y] /\ loads' = loads \cup Query(b, y)
          ELSE ui' = [ui EXCEPT ![b] = x] /\ UNCHANGED loads
    /\ UNCHANGED <<files, hub, stream, reply, spent>>

-----------------------------------------------------------------------------
Init ==
    /\ boardFile = {} /\ metaFile = 0 /\ lock = Nobody
    /\ work = [w \in Writers |-> IdleWork]
    /\ hub = [b \in Browsers |-> "off"]
    /\ loads = {}
    /\ stream = [b \in Browsers |-> <<>>]
    /\ reply = [b \in Browsers |-> [type |-> "none", rev |-> 0]]
    /\ ui = [b \in Browsers |-> NewPage]
    /\ spent = [edits |-> 0, mishaps |-> 0, untold |-> FALSE]
    /\ saved = <<{}>>
    /\ answers = {}

\* What the programs do by themselves.
Proceeds ==
    \/ CliNotify
    \/ \E w \in Writers : WriteBoard(w) \/ WriteMeta(w)
    \/ \E l \in loads : LoadBoard(l) \/ LoadMeta(l) \/ SendSnapshot(l) \/ SendUpdate(l) \/ Refreshed(l)
    \/ \E b \in Browsers : Connect(b) \/ Receive(b) \/ Persist(b) \/ SaveArrives(b) \/ Saved(b) \/ Refused(b)

\* What people and failures do.
Happens ==
    \/ CliMutate \/ CliKilled
    \/ \E b \in Browsers : Edit(b) \/ Hide(b) \/ Show(b) \/ Break(b) \/ SaveLost(b)
    \/ \E l \in loads : UpdateFails(l) \/ SnapshotFails(l) \/ RefreshFails(l)

Next == Proceeds \/ Happens

\* Every edit, break, loss, hide, kill and failure is bounded, so weak fairness of
\* the whole of Proceeds lets each of its steps that stays possible be taken.
Spec     == Init /\ [][Next]_vars
FairSpec == Spec /\ WF_vars(Proceeds)

-----------------------------------------------------------------------------
(* Properties.                                                              *)

Load == [kind: {"snapshot", "query", "broadcast"}, to: Browsers \cup {Nobody}, id: Nat,
         stage: {"asked", "board", "ready"}, board: SUBSET Edits, rev: Revisions]

\* The values of the variables; a page that has a save in flight has no
\* debounce running, so there is never a second one.
TypeOK ==
    /\ boardFile \subseteq Edits /\ metaFile \in Revisions /\ lock \in Writers \cup {Nobody}
    /\ metaFile + 1 = Len(saved)
    /\ \A w \in Writers : /\ work[w].stage \in {"idle", "asked", "board", "meta", "notify"}
                          /\ work[w].board \subseteq Edits
                          /\ work[w].stage \in {"board", "meta"} => lock = w
    /\ hub \in [Browsers -> {"off", "loading", "on"}]
    /\ loads \subseteq Load
    /\ \A b \in Browsers : /\ ui[b].board \subseteq Edits /\ ui[b].rev \in Revisions
                           /\ ui[b].flight.on => ~ui[b].timer
                           /\ work[b].stage # "idle" => ui[b].flight.on

\* Two saves or mutations are never answered with the same revision for
\* different boards, whoever made them and whatever was killed half-way.
OneBoardPerRevision ==
    \A p, q \in answers : p[1] = q[1] => p[2] = q[2]

\* A save that the server accepts keeps every edit of the revision it
\* replaces, whatever order answers, updates and refreshes reached the page
\* in, unless the page was misled before it: by a conflict answer whose
\* revision it took without the board, or by a read that was torn.
StaleSavesAreRefused ==
    [][\A b \in Browsers :
          (work[b].stage = "meta" /\ saved' # saved /\ work'[b].stage = "idle" /\ ~work[b].misled)
             => saved[Len(saved)] \subseteq saved'[Len(saved')]]_vars

\* The toast of a conflict says "Synced latest state": when the refetch of a
\* page whose save was refused has been applied, its board has every edit of
\* the revision the page now holds.
ConflictSyncsThePage ==
    [][\A b \in Browsers :
          (/\ ui[b].flight.refetch # 0 /\ ~ui'[b].flight.on
           /\ ~ui'[b].refreshing /\ ~ui'[b].missed)
             => saved[ui'[b].rev + 1] \subseteq ui'[b].board]_vars

\* Once the edits stop, every page that is visible and whose stream has not
\* broken shows the newest revision, also when that was saved between the
\* read of the page's snapshot and its registration for updates; unless the
\* command that saved it was killed before it could tell the server, the page
\* was misled, or a read of the state meant for it failed - its refetch, the
\* one of a broadcast, or the one for its snapshot, none of which the code
\* repeats - and it has not fetched the state since.
ShowsTheNewest(b) == saved[Len(saved)] \subseteq ui[b].board

VisiblePagesCatchUp ==
    \A b \in Browsers :
        []<>(\/ ShowsTheNewest(b)
             \/ ~ui[b].visible \/ ~ui[b].unbroken
             \/ ui[b].misled \/ ui[b].missed \/ spent.untold)

=============================================================================
