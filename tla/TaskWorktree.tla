---------------------------- MODULE TaskWorktree ----------------------------
(* The git worktree of one task of the Kanban board, and the patch that    *)
(* stands for its uncommitted work while the task is in the trash          *)
(* (src/workspace/task-worktree.ts).  An ensure looks for a worktree       *)
(* without a lock and, if there is none, makes one under the setup lock of *)
(* the repository, at the commit of the stored patch, and applies the      *)
(* patch.  A delete takes no lock: it captures the patch and removes the   *)
(* worktree, and where there is no worktree it deletes the patch.  Every   *)
(* await between two looks at the disk is a step of its own.               *)
EXTENDS Naturals, FiniteSets

CONSTANTS
  Requests,      \* calls of ensureWorktree and deleteWorktree in flight at once
  NoOne,         \* the lock is free
  Dead,          \* the lock is held by a process that no longer lives
  NoPatch,       \* no patch is stored
  MaxRequests,   \* bound: calls in all
  MaxWork,       \* bound: pieces of work of the agent
  MaxBase,       \* bound: commits on the base branch
  MaxFaults,     \* bound: git commands and writes that fail
  MaxCrashes     \* bound: deaths of the runtime server

ASSUME WorktreeAssumption ==
  /\ {NoOne, Dead} \cap Requests = {}
  /\ \A n \in {MaxRequests, MaxWork, MaxBase, MaxFaults, MaxCrashes} : n \in Nat

\* A commit by what it holds: one of the base branch, and the work committed on
\* top of it.  A patch file has a commit in its name, and uncommitted work.
Commit == [base : Nat, work : SUBSET Nat]
Patch == [commit : Commit, work : SUBSET Nat]

ASSUME NoPatchAssumption == NoPatch \notin Patch

VARIABLES
  tree,          \* what is at the path of the worktree
  entry,         \* the path in git's list of worktrees, locked while it is added
  patches,       \* the patch files of the task
  base,          \* the commit of the base branch
  lock,          \* the setup lock of the repository
  pc,            \* where each call is
  stored,        \* the patch an ensure found or a delete captured
  agent,         \* an agent that was started in the worktree still runs
  made,          \* pieces of work the agent has made
  committed,     \* those it has committed
  discarded,     \* those deleted with a task that was in the trash
  overlapped,    \* a delete was in flight beside another call or a working
                 \* agent, or an agent worked where git still checked files out
  requests, faults, crashes   \* what the bounds count

vars == <<tree, entry, patches, base, lock, pc, stored, agent, made, committed,
          discarded, overlapped, requests, faults, crashes>>
disk == <<tree, entry, patches>>
work == <<agent, made, committed, discarded>>
counts == <<requests, faults, crashes>>

NoTree == [kind |-> "absent", head |-> [base |-> 0, work |-> {}], work |-> {}]

\* rev-parse HEAD answers: a worktree, or one with files missing, which a removal
\* has left or an addition has not written yet.
HasHead(t) == t.kind \in {"worktree", "torn"}

Saved == UNION {p.work : p \in patches}
Kept == tree.work \cup Saved

DeleteSteps == {"exists", "purge", "capture", "clearPatches", "clearOnly", "writePatch", "remove",
                "removing"}
Active == {q \in Requests : pc[q] # "idle"}
Deleting == \E q \in Active : pc[q] \in DeleteSteps
BeingAdded == \E q \in Requests : pc[q] = "adding"

Init ==
  /\ tree = NoTree /\ entry = "none" /\ patches = {} /\ base = 0
  /\ lock = NoOne
  /\ pc = [q \in Requests |-> "idle"]
  /\ stored = [q \in Requests |-> NoPatch]
  /\ agent = FALSE /\ made = 0 /\ committed = {} /\ discarded = {}
  /\ overlapped = FALSE
  /\ requests = 0 /\ faults = 0 /\ crashes = 0

Go(q, step) == pc' = [pc EXCEPT ![q] = step]
Fine == UNCHANGED faults
Fault == faults < MaxFaults /\ faults' = faults + 1

\* An ensure leaves the locked section; where it answers ok, the agent of the
\* task is started in the path.
Answer(q, ok) ==
  /\ Go(q, "idle")
  /\ stored' = [stored EXCEPT ![q] = NoPatch]
  /\ agent' = (agent \/ ok)
  /\ UNCHANGED <<made, committed, discarded>>

Release(q) == lock' = (IF lock = q THEN NoOne ELSE lock)

Quiet == UNCHANGED work
Aside == UNCHANGED <<base, overlapped, requests, crashes>>

-----------------------------------------------------------------------------
\* The callers: the board's start, restore, trash and delete, the command
\* line, the removal of the project and the shutdown of the server.
Request(q, step) ==
  /\ pc[q] = "idle" /\ requests < MaxRequests
  /\ requests' = requests + 1
  /\ overlapped' = (overlapped \/ Deleting \/ (step = "exists" /\ Active # {}))
  /\ Go(q, step)
  /\ UNCHANGED <<disk, base, lock, stored, work, faults, crashes>>

RequestEnsure(q) == Request(q, "look")

\* The session is stopped first, but its process is not waited for.
RequestDelete(q) == Request(q, "exists")

-----------------------------------------------------------------------------
\* The ignored paths of the repository are linked into the path; the parents
\* of a link are made, the path itself too if it is gone.
Linked(t) == IF t.kind = "absent" THEN {t, [t EXCEPT !.kind = "plain"]} ELSE {t}

Look(q) ==
  /\ pc[q] = "look"
  /\ Go(q, IF HasHead(tree) THEN "sync" ELSE "lock")
  /\ UNCHANGED <<disk, lock, stored>> /\ Fine /\ Quiet /\ Aside

Sync(q) ==
  /\ pc[q] \in {"sync", "lockedSync"}
  /\ tree' \in Linked(tree)
  /\ \/ Fine /\ Answer(q, TRUE)
     \/ Fault /\ Answer(q, FALSE)
  /\ Release(q)
  /\ UNCHANGED <<entry, patches>> /\ Aside

Lock(q) ==
  /\ pc[q] = "lock" /\ lock = NoOne
  /\ lock' = q
  /\ Go(q, "relook")
  /\ UNCHANGED <<disk, stored>> /\ Fine /\ Quiet /\ Aside

\* Mutant: the locked section does not look again.
NoRelook == "resolve"

\* The lock is asked for two hundred times in five seconds; an older holder, and
\* the lock of a dead process, which counts as stale after ten, outlast that.
LockTimesOut(q) ==
  /\ pc[q] = "lock" /\ lock # NoOne
  /\ Answer(q, FALSE)
  /\ UNCHANGED <<disk, lock>> /\ Fine /\ Aside

AfterRelook == IF HasHead(tree) THEN "lockedSync" ELSE "resolve"

Relook(q) ==
  /\ pc[q] = "relook"
  /\ Go(q, AfterRelook)
  /\ UNCHANGED <<disk, lock, stored>> /\ Fine /\ Quiet /\ Aside

\* The base ref is resolved and the last of the task's patches is found.
Resolve(q) ==
  /\ pc[q] = "resolve"
  /\ \/ /\ IF patches = {} THEN stored' = [stored EXCEPT ![q] = NoPatch]
           ELSE \E p \in patches : stored' = [stored EXCEPT ![q] = p]
        /\ Go(q, "clear") /\ Fine
        /\ UNCHANGED lock /\ Quiet
     \/ Fault /\ Answer(q, FALSE) /\ Release(q)
  /\ UNCHANGED disk /\ Aside

\* git worktree remove --force takes the files away one after the other, and
\* the path from git's list after the last.
Remains ==
  {NoTree} \cup {[tree EXCEPT !.kind = kind, !.work = {}] :
                  kind \in IF HasHead(tree) THEN {"torn", "plain"} ELSE {"plain"}}
RemovalBegins ==
  /\ tree' \in Remains
  /\ UNCHANGED <<entry, patches>>

\* Where the command fails, a prune takes the path from the list and rm deletes
\* what is left.  Both leave a locked entry in the list.
RemovalEnds ==
  /\ tree' = NoTree
  /\ entry' = (IF entry = "locked" THEN "locked" ELSE "none")
  /\ UNCHANGED patches

Clear(q) ==
  /\ pc[q] = "clear"
  /\ IF tree.kind = "absent" THEN Go(q, "add") /\ UNCHANGED disk
     ELSE Go(q, "clearing") /\ RemovalBegins
  /\ UNCHANGED <<lock, stored>> /\ Fine /\ Quiet /\ Aside

Clearing(q) ==
  /\ pc[q] = "clearing"
  /\ RemovalEnds /\ Go(q, "add")
  /\ UNCHANGED <<lock, stored>> /\ Fine /\ Quiet /\ Aside

\* Mutant: no prune before the worktree is added.
NotPruned == entry

\* git worktree prune forgets a path that is not a worktree any more, unless its
\* entry is locked.
Pruned == IF entry = "listed" /\ ~HasHead(tree) THEN "none" ELSE entry

\* git worktree add wants the path free and not in its list.
CanAdd == tree.kind = "absent" /\ Pruned = "none"

BaseCommit == [base |-> base, work |-> {}]

Origin(p) == IF p = NoPatch THEN BaseCommit ELSE p.commit

\* The entry is locked first, then the path is made, HEAD is set and the files
\* are checked out.
HalfMade(commit) ==
  {[kind |-> kind, head |-> commit, work |-> {}] : kind \in {"absent", "plain", "torn"}}

Add(q) ==
  /\ pc[q] = "add"
  /\ \/ /\ CanAdd
        /\ tree' \in HalfMade(Origin(stored[q])) /\ entry' = "locked"
        /\ Go(q, "adding")
        /\ UNCHANGED <<lock, stored>> /\ Quiet
     \/ /\ ~CanAdd
        /\ entry' = Pruned /\ UNCHANGED tree
        /\ Answer(q, FALSE) /\ Release(q)
  /\ UNCHANGED patches /\ Fine /\ Aside

\* The checkout may write over what an agent has written meanwhile.  A delete
\* beside it may take away what it has made.
CheckedOut ==
  {[tree EXCEPT !.kind = "worktree", !.work = kept] : kept \in SUBSET tree.work}
    \cup (IF Deleting THEN Remains ELSE {})

\* git takes back what it has made of a worktree it cannot add.  One that cannot
\* be made at the commit of the patch is made at the base, and the patch is left
\* where it is.
Adding(q) ==
  /\ pc[q] = "adding"
  /\ \/ /\ Fine
        /\ tree' \in CheckedOut /\ entry' = "listed"
        /\ Go(q, "prepare")
        /\ UNCHANGED <<lock, stored>> /\ Quiet
     \/ /\ Fault
        /\ tree' = NoTree /\ entry' = "none"
        /\ IF stored[q] = NoPatch THEN Answer(q, FALSE) /\ Release(q)
           ELSE /\ stored' = [stored EXCEPT ![q] = NoPatch]
                /\ Go(q, "add") /\ UNCHANGED lock /\ Quiet
  /\ UNCHANGED patches /\ Aside

\* Submodules and links to the ignored paths.
Prepare(q) ==
  /\ pc[q] = "prepare"
  /\ \/ /\ tree' \in Linked(tree) /\ Fine
        /\ UNCHANGED <<entry, patches>>
        /\ IF stored[q] = NoPatch THEN Answer(q, TRUE) /\ Release(q)
           ELSE Go(q, "apply") /\ UNCHANGED <<lock, stored>> /\ Quiet
     \/ /\ Fault /\ Go(q, "unprepare")
        /\ IF tree.kind = "absent" THEN UNCHANGED disk ELSE RemovalBegins
        /\ UNCHANGED <<lock, stored>> /\ Quiet
  /\ Aside

Unprepare(q) ==
  /\ pc[q] = "unprepare"
  /\ RemovalEnds
  /\ Answer(q, FALSE) /\ Release(q)
  /\ Fine /\ Aside

\* git apply takes the whole patch or nothing; the file is read as it is now.
Contents(commit) == UNION {p.work : p \in {o \in patches : o.commit = commit}}
Applies(q) ==
  /\ tree.kind = "worktree"
  /\ \E p \in patches : p.commit = stored[q].commit

\* What is not applied stays in the patch, with a warning.
NotApplied(q) == UNCHANGED disk /\ Answer(q, TRUE) /\ Release(q)

Apply(q) ==
  /\ pc[q] = "apply"
  /\ \/ /\ Applies(q) /\ Fine
        /\ tree' = [tree EXCEPT !.work = @ \cup Contents(stored[q].commit)]
        /\ Go(q, "dropPatch")
        /\ UNCHANGED <<entry, patches, lock, stored>> /\ Quiet
     \/ ~Applies(q) /\ Fine /\ NotApplied(q)
     \/ Applies(q) /\ Fault /\ NotApplied(q)
  /\ Aside

\* The file is deleted by its name, which is the task and the commit.
DropPatch(q) ==
  /\ pc[q] = "dropPatch"
  /\ patches' = {p \in patches : p.commit # stored[q].commit}
  /\ Answer(q, TRUE) /\ Release(q)
  /\ UNCHANGED <<tree, entry>> /\ Fine /\ Aside

-----------------------------------------------------------------------------
Exists(q) ==
  /\ pc[q] = "exists"
  /\ Go(q, IF tree.kind = "absent" THEN "purge" ELSE "capture")
  /\ UNCHANGED <<disk, lock, stored>> /\ Fine /\ Quiet /\ Aside

\* The task is deleted from the trash, or so the code takes it.
Purge(q) ==
  /\ pc[q] = "purge"
  /\ patches' = {}
  /\ discarded' = discarded \cup (IF tree.kind = "absent" THEN Saved ELSE {})
  /\ Go(q, "idle")
  /\ UNCHANGED <<tree, entry, lock, stored, agent, made, committed>>
  /\ Fine /\ Aside

\* Mutant: only what is committed already is captured.
CapturedHead == [commit |-> tree.head, work |-> {}]

\* HEAD and the differences to it, untracked files included.  A failure is
\* swallowed: the path is removed without a patch.
Captured == [commit |-> tree.head, work |-> tree.work]
Differs(p) == p.work # {} \/ tree.kind = "torn"

Capture(q) ==
  /\ pc[q] = "capture"
  /\ \/ /\ HasHead(tree) /\ Fine
        /\ stored' = [stored EXCEPT ![q] = Captured]
        /\ Go(q, IF Differs(Captured) THEN "clearPatches" ELSE "clearOnly")
     \/ ~HasHead(tree) /\ Fine /\ Go(q, "remove") /\ UNCHANGED stored
     \/ HasHead(tree) /\ Fault /\ Go(q, "remove") /\ UNCHANGED stored
  /\ UNCHANGED <<disk, lock>> /\ Quiet /\ Aside

\* The patch files of the task go before the new one is written.
ClearPatches(q) ==
  /\ pc[q] \in {"clearPatches", "clearOnly"}
  /\ patches' = {}
  /\ Go(q, IF pc[q] = "clearPatches" THEN "writePatch" ELSE "remove")
  /\ UNCHANGED <<tree, entry, lock, stored>> /\ Fine /\ Quiet /\ Aside

WritePatch(q) ==
  /\ pc[q] = "writePatch"
  /\ \/ /\ Fine
        /\ patches' = {p \in patches : p.commit # stored[q].commit} \cup {stored[q]}
     \/ Fault /\ UNCHANGED patches
  /\ Go(q, "remove")
  /\ UNCHANGED <<tree, entry, lock, stored>> /\ Quiet /\ Aside

Remove(q) ==
  /\ pc[q] = "remove"
  /\ IF tree.kind = "absent" THEN UNCHANGED disk ELSE RemovalBegins
  /\ Go(q, "removing")
  /\ UNCHANGED <<lock, stored>> /\ Fine /\ Quiet /\ Aside

Removing(q) ==
  /\ pc[q] = "removing"
  /\ RemovalEnds
  /\ Go(q, "idle")
  /\ stored' = [stored EXCEPT ![q] = NoPatch]
  /\ UNCHANGED lock /\ Fine /\ Quiet /\ Aside

-----------------------------------------------------------------------------
\* The agent writes, commits and ends; nothing makes it wait for a call, a
\* checkout under way included.
AgentWorks ==
  /\ agent /\ HasHead(tree) /\ made < MaxWork
  /\ made' = made + 1
  /\ tree' = [tree EXCEPT !.work = @ \cup {made + 1}]
  /\ overlapped' = (overlapped \/ Deleting \/ BeingAdded)
  /\ UNCHANGED <<entry, patches, base, lock, pc, stored, agent, committed, discarded, counts>>

AgentCommits ==
  /\ agent /\ HasHead(tree) /\ tree.work # {}
  /\ committed' = committed \cup tree.work
  /\ tree' = [tree EXCEPT !.head.work = @ \cup tree.work, !.work = {}]
  /\ overlapped' = (overlapped \/ Deleting \/ BeingAdded)
  /\ UNCHANGED <<entry, patches, base, lock, pc, stored, agent, made, discarded, counts>>

AgentEnds ==
  /\ agent
  /\ agent' = FALSE
  /\ UNCHANGED <<disk, base, lock, pc, stored, made, committed, discarded, overlapped, counts>>

BaseAdvances ==
  /\ base < MaxBase
  /\ base' = base + 1
  /\ UNCHANGED <<disk, lock, pc, stored, work, overlapped, counts>>

\* The server dies with its calls and agents; the lock stays behind.
Crash ==
  /\ crashes < MaxCrashes
  /\ crashes' = crashes + 1
  /\ pc' = [q \in Requests |-> "idle"]
  /\ stored' = [q \in Requests |-> NoPatch]
  /\ lock' = (IF lock \in Requests THEN Dead ELSE lock)
  /\ agent' = FALSE
  /\ UNCHANGED <<disk, base, made, committed, discarded, overlapped, requests, faults>>

\* Nobody refreshes the lock of a dead process: the next to ask takes it over.
Expire ==
  /\ lock = Dead
  /\ lock' = NoOne
  /\ UNCHANGED <<disk, base, pc, stored, work, overlapped, counts>>

EnsureStep(q) ==
  \/ Look(q) \/ Sync(q) \/ Lock(q) \/ LockTimesOut(q) \/ Relook(q) \/ Resolve(q)
  \/ Clear(q) \/ Clearing(q) \/ Add(q) \/ Adding(q) \/ Prepare(q) \/ Unprepare(q) \/ Apply(q) \/ DropPatch(q)
DeleteStep(q) ==
  \/ Exists(q) \/ Purge(q) \/ Capture(q) \/ ClearPatches(q) \/ WritePatch(q)
  \/ Remove(q) \/ Removing(q)

Next ==
  \/ \E q \in Requests : RequestEnsure(q) \/ RequestDelete(q) \/ EnsureStep(q) \/ DeleteStep(q)
  \/ AgentWorks \/ AgentCommits \/ AgentEnds \/ BaseAdvances \/ Crash \/ Expire

Spec == Init /\ [][Next]_vars

-----------------------------------------------------------------------------
Uncommitted == (1..made) \ (committed \cup discarded)

\* Trashing and restoring a task lose nothing: as long as a delete runs alone, no
\* agent works in a checkout under way and nothing fails, all work that is neither
\* committed nor deleted from the trash is in the worktree or in a patch, whatever
\* the base branch, the agent's own commits, the number of rounds and the ensures
\* that overlap.
WorkIsKept == (~overlapped /\ faults = 0 /\ crashes = 0) => Uncommitted \subseteq Kept

\* No ensure loses work, even where two overlap, where git fails it at any step
\* or where a server died in the middle of an earlier call: what is in the
\* worktree or in a patch before a step is there or committed after it.  The exceptions
\* are the work of an agent that another ensure has let in too early: into a
\* checkout under way, or into a worktree whose preparation then fails.
EnsureLosesNothing ==
  [][\A q \in Requests :
       EnsureStep(q) /\ ~overlapped /\ "unprepare" \notin {pc[q], pc'[q]}
         => Kept \subseteq Kept' \cup committed']_vars

\* What a dead server leaves is no obstacle, with two exceptions: an ensure that
\* has the lock or needs none, and whose git commands succeed, ends with a whole
\* worktree at the path, whatever directory without HEAD and whatever entry of
\* git's list it finds.  The exceptions are the two things the code does not
\* recover from.  A path that has HEAD and lacks files, half removed or half
\* checked out by a death, or just being checked out by another ensure, is
\* handed out as it is; and an addition that died has left its entry locked,
\* which neither prune nor remove clears, and every later addition is refused.
EnsureRecovers ==
  [][\A q \in Requests :
       EnsureStep(q) /\ ~LockTimesOut(q) /\ pc'[q] = "idle" /\ ~overlapped /\ faults' = 0
         => \/ tree'.kind = "worktree"
            \/ tree'.kind = "torn" /\ (crashes > 0 \/ BeingAdded)
            \/ pc[q] = "add" /\ entry = "locked" /\ crashes > 0]_vars

=============================================================================
