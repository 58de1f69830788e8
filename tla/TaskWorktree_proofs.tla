-------------------------- MODULE TaskWorktree_proofs --------------------------
(***************************************************************************)
(* Proofs about TaskWorktree, for any number of calls in flight, pieces of *)
(* work, commits on the base branch, faults and crashes.                   *)
(*                                                                         *)
(* What a step may lose hangs on where the calls stand: an ensure that     *)
(* makes a worktree found none and keeps every other maker out by its      *)
(* lock, and a delete, which takes no lock, has the path to itself only as *)
(* long as nothing overlaps it.                                            *)
(***************************************************************************)
EXTENDS TaskWorktree, TLAPS

Kinds == {"absent", "plain", "worktree", "torn"}
Entries == {"none", "listed", "locked"}

\* An ensure inside its locked section.
Locked == {"relook", "lockedSync", "resolve", "clear", "clearing", "add",
           "adding", "prepare", "unprepare", "apply", "dropPatch"}
Steps == Locked \cup DeleteSteps \cup {"idle", "look", "sync", "lock"}

TypeOK ==
  /\ tree \in [kind : Kinds, head : Commit, work : SUBSET Nat]
  /\ entry \in Entries
  /\ patches \in SUBSET Patch
  /\ base \in Nat
  /\ lock \in Requests \cup {NoOne, Dead}
  /\ pc \in [Requests -> Steps]
  /\ stored \in [Requests -> Patch \cup {NoPatch}]
  /\ agent \in BOOLEAN
  /\ made \in Nat
  /\ committed \in SUBSET Nat
  /\ discarded \in SUBSET Nat
  /\ overlapped \in BOOLEAN
  /\ requests \in Nat /\ faults \in Nat /\ crashes \in Nat

\* The locked section has the lock, ...
Holds(q) == pc[q] \in Locked => lock = q

\* ... a delete that nothing overlaps is the only call, ...
Solitary(q) ==
  ~overlapped /\ pc[q] \in DeleteSteps => \A r \in Requests \ {q} : pc[r] = "idle"

\* ... there is no work where there is no worktree, not even a torn one, ...
NoTreeNoWork == ~HasHead(tree) => tree.work = {}

\* ... what is applied, dropped or written is a patch, ...
HasPatch(q) ==
  pc[q] \in {"apply", "dropPatch", "clearPatches", "clearOnly", "writePatch"} =>
    stored[q] \in Patch

\* ... and an ensure only makes a worktree where there is none.
MakesNew(q) == pc[q] \in {"resolve", "clear", "clearing", "add"} => ~HasHead(tree)

\* What a patch that is about to be dropped holds is in the worktree.
IsApplied(q) ==
  ~overlapped /\ pc[q] = "dropPatch" =>
    Contents(stored[q].commit) \subseteq tree.work \cup committed

\* Without a fault no ensure undoes its worktree, and the one it reports is there.
Smooth(q) ==
  ~overlapped /\ faults = 0 =>
    /\ pc[q] # "unprepare"
    /\ pc[q] \in {"sync", "lockedSync", "prepare", "apply", "dropPatch"} =>
         HasHead(tree)
    /\ pc[q] = "add" => tree.kind = "absent"

\* Nobody has worked in a checkout under way, ...
Bare(q) == ~overlapped /\ pc[q] = "adding" => tree.work = {}

\* ... the files of a worktree are missing while it is made or unmade, or where a
\* call died in that, ...
Whole ==
  tree.kind = "torn" /\ ~overlapped /\ faults = 0 /\ crashes = 0 =>
    \E r \in Requests : pc[r] \in {"adding", "removing"}

\* ... and so is its entry locked.
Unlocked == entry = "locked" /\ crashes = 0 => \E r \in Requests : pc[r] = "adding"

Own(q) == /\ Holds(q) /\ Solitary(q) /\ HasPatch(q)
          /\ MakesNew(q) /\ IsApplied(q) /\ Smooth(q) /\ Bare(q)

EnsureInv ==
  /\ TypeOK
  /\ NoTreeNoWork /\ Whole /\ Unlocked
  /\ \A q \in Requests : Own(q)

------------------------------------------------------------------------------
(* The rounds of trash and restore, where nothing overlaps and nothing fails. *)

Calm == ~overlapped /\ faults = 0 /\ crashes = 0

\* A task has one patch at most.
OnePatch == \A p, o \in patches : p = o

\* The patch that an ensure found is the task's patch until the ensure drops it.
FoundPatch(q) ==
  pc[q] \in {"clear", "clearing", "add", "adding", "prepare", "apply", "dropPatch"} =>
    patches = (IF stored[q] = NoPatch THEN {} ELSE {stored[q]})

\* A worktree that is set up is the one that was made for it.
SetUp(q) ==
  pc[q] \in {"prepare", "apply", "dropPatch"} => tree.kind = "worktree"

\* What a delete has captured is the worktree's work; it removes none that is
\* not in the patch, and no patch whose task it has not found in the trash.
Captures(q) ==
  /\ pc[q] = "purge" => tree.kind = "absent"
  /\ pc[q] \in {"clearPatches", "writePatch"} =>
       stored[q].work = tree.work
  /\ pc[q] \in {"clearPatches", "clearOnly", "writePatch"} => HasHead(tree)
  /\ pc[q] = "clearOnly" => tree.work = {}
  /\ pc[q] = "writePatch" => patches = {}
  /\ pc[q] = "remove" => tree.work \subseteq Saved
  /\ pc[q] = "removing" => tree.work = {}

\* Elsewhere, what a patch holds beside a worktree is in it or done with.
PatchIsSpent ==
  HasHead(tree) /\ (\A q \in Requests :
                      pc[q] \notin {"adding", "prepare", "apply", "dropPatch", "removing"})
    => Saved \subseteq tree.work \cup committed \cup discarded

Rounds(q) == FoundPatch(q) /\ SetUp(q) /\ Captures(q)

CalmState ==
  /\ OnePatch /\ PatchIsSpent
  /\ Uncommitted \subseteq Kept
  /\ \A q \in Requests : Rounds(q)

CalmInv == Calm => CalmState

IInv == EnsureInv /\ CalmInv
------------------------------------------------------------------------------
(* Types, and what every step of a call has in common.                        *)

\* The constants: no call is the free lock or the dead process.
LEMMA LockOwners == NoOne \notin Requests /\ Dead \notin Requests
  BY WorktreeAssumption

LEMMA NoTreeType ==
  /\ NoTree \in [kind : Kinds, head : Commit, work : SUBSET Nat]
  /\ NoTree.work = {} /\ NoTree.kind = "absent" /\ ~HasHead(NoTree)
  BY DEF NoTree, Kinds, Commit, HasHead

\* Links are made beside what is in the path.
LEMMA LinkedTree ==
  ASSUME TypeOK, NEW t \in Linked(tree)
  PROVE  /\ t \in [kind : Kinds, head : Commit, work : SUBSET Nat]
         /\ t.work = tree.work
         /\ HasHead(t) <=> HasHead(tree)
         /\ tree.kind # "absent" => t = tree
  BY DEF TypeOK, Linked, HasHead, Kinds

\* A removal leaves no work and makes no worktree.
LEMMA RemainsTree ==
  ASSUME TypeOK, NEW t \in Remains
  PROVE  /\ t \in [kind : Kinds, head : Commit, work : SUBSET Nat]
         /\ t.work = {}
         /\ HasHead(t) => HasHead(tree)
<1>1. CASE t = NoTree
  BY <1>1, NoTreeType
<1>2. CASE \E kind \in (IF HasHead(tree) THEN {"torn", "plain"} ELSE {"plain"}) :
             t = [tree EXCEPT !.kind = kind, !.work = {}]
  BY <1>2 DEF TypeOK, HasHead, Kinds
<1> QED
  BY <1>1, <1>2 DEF Remains

Typed == tree \in [kind : Kinds, head : Commit, work : SUBSET Nat]

\* The steps, by what they do to one call.
Call(q) == RequestEnsure(q) \/ RequestDelete(q) \/ EnsureStep(q) \/ DeleteStep(q)

LEMMA StepNames ==
  /\ {"look", "sync", "lockedSync", "lock", "relook", "resolve", "clear", "clearing",
      "add", "adding", "prepare", "unprepare", "apply", "dropPatch", "exists", "purge", "capture",
      "clearPatches", "clearOnly", "writePatch", "remove", "removing", "idle"} = Steps
  /\ Locked \cap DeleteSteps = {}
  BY DEF Steps, Locked, DeleteSteps

\* A call moves itself alone, releases or takes the lock for itself alone, and
\* does not touch what the agent has made and committed.
Moves(q) ==
  /\ pc' \in [Requests -> Steps]
  /\ stored' \in [Requests -> Patch \cup {NoPatch}]
  /\ \A r \in Requests \ {q} : pc'[r] = pc[r] /\ stored'[r] = stored[r]
  /\ \/ lock' = lock
     \/ lock' = NoOne /\ lock = q
     \/ lock = NoOne /\ lock' = q
  /\ agent' \in BOOLEAN
  /\ UNCHANGED <<made, committed, base, crashes>>
  /\ faults' \in {faults, faults + 1}

LEMMA MoveFacts ==
  ASSUME TypeOK, NEW q \in Requests
  PROVE  /\ \A step \in Steps : Go(q, step) =>
              /\ pc' \in [Requests -> Steps]
              /\ pc'[q] = step
              /\ \A r \in Requests \ {q} : pc'[r] = pc[r]
         /\ \A ok \in BOOLEAN : Answer(q, ok) =>
              /\ pc' \in [Requests -> Steps]
              /\ pc'[q] = "idle"
              /\ \A r \in Requests \ {q} : pc'[r] = pc[r] /\ stored'[r] = stored[r]
              /\ stored' \in [Requests -> Patch \cup {NoPatch}]
              /\ agent' \in BOOLEAN
              /\ UNCHANGED <<made, committed, discarded>>
         /\ Release(q) => lock' = lock \/ (lock' = NoOne /\ lock = q)
         /\ Fine \/ Fault => faults' \in {faults, faults + 1}
<1>1. \A step \in Steps : Go(q, step) =>
        /\ pc' \in [Requests -> Steps]
        /\ pc'[q] = step
        /\ \A r \in Requests \ {q} : pc'[r] = pc[r]
  BY DEF Go, TypeOK
<1>2. "idle" \in Steps
  BY DEF Steps
<1> QED
  BY <1>1, <1>2 DEF Answer, Release, Fine, Fault, TypeOK

LEMMA RequestMoves ==
  ASSUME TypeOK, NEW q \in Requests, NEW step \in {"look", "exists"}, Request(q, step)
  PROVE  /\ Moves(q) /\ pc[q] = "idle" /\ pc'[q] = step
         /\ UNCHANGED <<disk, lock, stored, work, faults>>
         /\ overlapped' \in BOOLEAN /\ requests' \in Nat
         /\ ~overlapped' => /\ ~overlapped /\ ~Deleting
                            /\ step = "exists" => Active = {}
<1>1. step \in Steps
  BY StepNames
<1>2. Go(q, step)
  BY DEF Request
<1>3. pc' \in [Requests -> Steps] /\ pc'[q] = step /\ \A r \in Requests \ {q} : pc'[r] = pc[r]
  BY <1>1, <1>2, MoveFacts
<1>4. pc[q] = "idle" /\ UNCHANGED <<disk, base, lock, stored, work, faults, crashes>>
  BY DEF Request
<1>5. Moves(q)
  BY <1>3, <1>4 DEF Moves, TypeOK, work
<1>6. requests' \in Nat
  BY DEF Request, TypeOK
<1>7. /\ overlapped' \in BOOLEAN
      /\ ~overlapped' => /\ ~overlapped /\ ~Deleting
                         /\ step = "exists" => Active = {}
  BY DEF Request, TypeOK
<1> QED
  BY <1>3, <1>4, <1>5, <1>6, <1>7

LEMMA EnsureMoves ==
  ASSUME TypeOK, NEW q \in Requests, EnsureStep(q)
  PROVE  Moves(q) /\ UNCHANGED <<discarded, overlapped, requests>>
<1> USE MoveFacts, StepNames DEF Moves, Aside, Quiet, work, TypeOK
<1>1. CASE Look(q) \/ LockTimesOut(q)
  BY <1>1 DEF Look, LockTimesOut
<1>2. CASE Sync(q)
  BY <1>2 DEF Sync
<1>3. CASE Lock(q) \/ Relook(q)
  BY <1>3 DEF Lock, Relook, AfterRelook
<1>4. CASE Resolve(q)
  <2>1. CASE Fault /\ Answer(q, FALSE) /\ Release(q)
    BY <1>4, <2>1 DEF Resolve
  <2>2. CASE Go(q, "clear") /\ Fine /\ UNCHANGED lock /\ Quiet
    <3>1. \E p \in patches \cup {NoPatch} : stored' = [stored EXCEPT ![q] = p]
      BY <1>4, <2>2 DEF Resolve, Go, Answer
    <3>2. /\ stored' \in [Requests -> Patch \cup {NoPatch}]
          /\ \A r \in Requests \ {q} : stored'[r] = stored[r]
      BY <3>1
    <3> QED
      BY <1>4, <2>2, <3>2 DEF Resolve
  <2> QED
    BY <1>4, <2>1, <2>2 DEF Resolve
<1>5. CASE Clear(q) \/ Clearing(q)
  BY <1>5 DEF Clear, Clearing
<1>6. CASE Add(q)
  BY <1>6 DEF Add
<1>11. CASE Adding(q)
  <2>1. NoPatch \in Patch \cup {NoPatch}
    OBVIOUS
  <2> QED
    BY <1>11, <2>1 DEF Adding
<1>7. CASE Prepare(q)
  BY <1>7 DEF Prepare
<1>8. CASE Unprepare(q)
  BY <1>8 DEF Unprepare
<1>9. CASE Apply(q)
  BY <1>9 DEF Apply, NotApplied
<1>10. CASE DropPatch(q)
  BY <1>10 DEF DropPatch
<1> QED
  BY <1>1, <1>2, <1>3, <1>4, <1>5, <1>6, <1>7, <1>8, <1>9, <1>10, <1>11 DEF EnsureStep

LEMMA DeleteMoves ==
  ASSUME TypeOK, NEW q \in Requests, DeleteStep(q)
  PROVE  Moves(q) /\ UNCHANGED <<overlapped, requests>> /\ lock' = lock
<1> USE MoveFacts, StepNames DEF Moves, Aside, Quiet, work, TypeOK
<1>1. CASE Exists(q)
  BY <1>1 DEF Exists
<1>2. CASE Purge(q)
  BY <1>2 DEF Purge
<1>3. CASE Capture(q)
  <2>1. CASE stored' = [stored EXCEPT ![q] = Captured] /\ HasHead(tree) /\ Fine
             /\ Go(q, IF Differs(Captured) THEN "clearPatches" ELSE "clearOnly")
    <3>1. Captured \in Patch
      BY DEF Captured, Patch
    <3> QED
      BY <1>3, <2>1, <3>1 DEF Capture
  <2>2. CASE Go(q, "remove") /\ UNCHANGED stored /\ (Fine \/ Fault)
    BY <1>3, <2>2 DEF Capture
  <2> QED
    BY <1>3, <2>1, <2>2 DEF Capture
<1>4. CASE ClearPatches(q)
  BY <1>4 DEF ClearPatches
<1>5. CASE WritePatch(q)
  BY <1>5 DEF WritePatch
<1>6. CASE Remove(q)
  BY <1>6 DEF Remove
<1>7. CASE Removing(q)
  BY <1>7 DEF Removing
<1> QED
  BY <1>1, <1>2, <1>3, <1>4, <1>5, <1>6, <1>7 DEF DeleteStep
------------------------------------------------------------------------------
(* What a step does to the disk.                                              *)

Disk == Typed /\ entry \in Entries /\ patches \in SUBSET Patch

\* An ensure's step as the disk sees it: outside the lock it only makes links;
\* only an addition makes a worktree; only a failed one or a failed preparation
\* unmakes one; and what the worktree and the patches hold is in one of them
\* afterwards.
EnsureEffect(q) ==
  /\ Disk' /\ NoTreeNoWork'
  /\ HasHead(tree') => HasHead(tree) \/ pc[q] \in {"add", "adding"}
  /\ pc[q] \notin Locked =>
       /\ tree' \in Linked(tree)
       /\ patches' = patches
       /\ tree' = tree \/ pc[q] = "sync"
  /\ "unprepare" \notin {pc[q], pc'[q]} =>
       /\ ~overlapped /\ faults' = 0 /\ HasHead(tree) => HasHead(tree')
       /\ ~overlapped => Kept \subseteq Kept' \cup committed

LEMMA SameDisk ==
  ASSUME TypeOK, NoTreeNoWork, UNCHANGED disk
  PROVE  /\ Disk' /\ NoTreeNoWork' /\ Saved' = Saved /\ Kept' = Kept
         /\ HasHead(tree') <=> HasHead(tree)
         /\ tree' \in Linked(tree) /\ patches' = patches
  BY DEF disk, TypeOK, Disk, Typed, NoTreeNoWork, Saved, Kept, Linked, HasHead

LEMMA LinkedDisk ==
  ASSUME TypeOK, NoTreeNoWork, tree' \in Linked(tree), UNCHANGED <<entry, patches>>
  PROVE  /\ Disk' /\ NoTreeNoWork' /\ Saved' = Saved /\ Kept' = Kept
         /\ HasHead(tree') <=> HasHead(tree)
<1>1. PICK t \in Linked(tree) : t = tree'
  OBVIOUS
<1>2. Typed' /\ tree'.work = tree.work /\ (HasHead(tree') <=> HasHead(tree))
  BY <1>1, LinkedTree DEF Typed
<1>3. Saved' = Saved
  BY DEF Saved
<1> QED
  BY <1>2, <1>3 DEF TypeOK, Disk, NoTreeNoWork, Kept

LEMMA RemovedDisk ==
  ASSUME TypeOK, RemovalBegins \/ RemovalEnds
  PROVE  /\ Disk' /\ NoTreeNoWork' /\ Saved' = Saved /\ patches' = patches
         /\ tree'.work = {} /\ Kept' = Saved
         /\ HasHead(tree') => HasHead(tree)
<1>1. Typed' /\ tree'.work = {} /\ (HasHead(tree') => HasHead(tree))
  <2>1. CASE RemovalBegins
    <3>1. PICK t \in Remains : t = tree'
      BY <2>1 DEF RemovalBegins
    <3> QED
      BY <3>1, RemainsTree DEF Typed
  <2>2. CASE RemovalEnds
    BY <2>2, NoTreeType DEF RemovalEnds, Typed
  <2> QED
    BY <2>1, <2>2
<1>2. patches' = patches /\ entry' \in Entries
  BY DEF RemovalBegins, RemovalEnds, TypeOK, Entries
<1>3. Saved' = Saved
  BY <1>2 DEF Saved
<1> QED
  BY <1>1, <1>2, <1>3 DEF Disk, NoTreeNoWork, Kept, TypeOK

\* What is in the worktree and in the patches, and what is not.
LEMMA KeptParts == Kept = tree.work \cup Saved
  BY DEF Kept

LEMMA AddEffect ==
  ASSUME TypeOK, NoTreeNoWork, NEW q \in Requests, Add(q), MakesNew(q)
  PROVE  EnsureEffect(q)
<1>1. pc[q] = "add" /\ tree.work = {} /\ ~HasHead(tree) /\ pc[q] \in Locked /\ patches' = patches
  BY DEF Add, MakesNew, NoTreeNoWork, Locked
<1>2. Saved' = Saved
  BY <1>1 DEF Saved
<1>3. CASE \E commit \in Commit : tree' \in HalfMade(commit) /\ entry' = "locked"
  <2>1. PICK commit \in Commit : tree' \in HalfMade(commit) /\ entry' = "locked"
    BY <1>3
  <2>2. PICK kind \in {"absent", "plain", "torn"} :
               tree' = [kind |-> kind, head |-> commit, work |-> {}]
    BY <2>1 DEF HalfMade
  <2>3. Disk' /\ tree'.work = {}
    BY <1>1, <2>1, <2>2 DEF Disk, Typed, TypeOK, Kinds, Entries
  <2> QED
    BY <1>1, <1>2, <2>3, KeptParts DEF EnsureEffect, NoTreeNoWork, Kept
<1>4. CASE entry' = Pruned /\ UNCHANGED tree
  <2>1. Disk' /\ NoTreeNoWork'
    BY <1>1, <1>4 DEF Disk, Typed, TypeOK, NoTreeNoWork, Pruned, HasHead, Entries
  <2>2. Kept' = Kept
    BY <1>2, <1>4 DEF Kept
  <2> QED
    BY <1>1, <1>4, <2>1, <2>2 DEF EnsureEffect
<1>5. BaseCommit \in Commit /\ (stored[q] # NoPatch => stored[q].commit \in Commit)
  BY DEF BaseCommit, Commit, TypeOK, Patch
<1>6. Origin(stored[q]) \in Commit
  BY <1>5 DEF Origin
<1> QED
  BY <1>3, <1>4, <1>6 DEF Add

\* Only a delete takes files out of a checkout.
LEMMA Undisturbed ==
  ASSUME NEW q \in Requests, pc[q] \in Locked, ~overlapped, \A r \in Requests : Own(r)
  PROVE  ~Deleting
<1> SUFFICES ASSUME NEW r \in Requests, pc[r] \in DeleteSteps PROVE FALSE
  BY DEF Deleting, Active
<1>1. q # r /\ pc[q] # "idle"
  BY StepNames DEF Locked, DeleteSteps
<1> QED
  BY <1>1 DEF Own, Solitary

\* A checkout that only agents disturb ends with a worktree.
LEMMA CheckedOutTree ==
  ASSUME TypeOK, NEW t \in CheckedOut
  PROVE  /\ t \in [kind : Kinds, head : Commit, work : SUBSET Nat]
         /\ t.work # {} => HasHead(t)
         /\ ~Deleting => t.kind = "worktree"
<1>1. CASE \E kept \in SUBSET tree.work : t = [tree EXCEPT !.kind = "worktree", !.work = kept]
  BY <1>1 DEF TypeOK, HasHead, Kinds
<1>2. CASE Deleting /\ t \in Remains
  BY <1>2, RemainsTree
<1> QED
  BY <1>1, <1>2 DEF CheckedOut

LEMMA AddingEffect ==
  ASSUME TypeOK, NoTreeNoWork, NEW q \in Requests, Adding(q), \A r \in Requests : Own(r)
  PROVE  EnsureEffect(q)
<1>1. pc[q] = "adding" /\ pc[q] \in Locked /\ patches' = patches
  BY DEF Adding, Locked
<1>2. Saved' = Saved
  BY <1>1 DEF Saved
<1>3. ~overlapped => ~Deleting /\ tree.work = {}
  BY <1>1, Undisturbed DEF Own, Bare
<1>4. CASE Fine /\ tree' \in CheckedOut /\ entry' = "listed"
  <2>1. PICK t \in CheckedOut : t = tree'
    BY <1>4
  <2>2. Typed' /\ (tree'.work # {} => HasHead(tree')) /\ (~Deleting => tree'.kind = "worktree")
    BY <2>1, CheckedOutTree DEF Typed
  <2>3. Disk'
    BY <1>1, <1>4, <2>2 DEF Disk, TypeOK, Entries
  <2>4. ~overlapped => HasHead(tree')
    BY <1>3, <2>2 DEF HasHead
  <2>5. NoTreeNoWork'
    BY <2>2 DEF NoTreeNoWork
  <2> QED
    BY <1>1, <1>2, <1>3, <2>3, <2>4, <2>5, KeptParts DEF EnsureEffect, Kept
<1>5. CASE Fault /\ tree' = NoTree /\ entry' = "none"
  <2>1. Disk' /\ NoTreeNoWork' /\ ~HasHead(tree') /\ faults' # 0
    BY <1>1, <1>5, NoTreeType DEF Disk, Typed, TypeOK, NoTreeNoWork, Entries, Fault
  <2> QED
    BY <1>1, <1>2, <1>3, <2>1, KeptParts DEF EnsureEffect, Kept
<1> QED
  BY <1>4, <1>5 DEF Adding

LEMMA ApplyEffect ==
  ASSUME TypeOK, NoTreeNoWork, NEW q \in Requests, Apply(q)
  PROVE  EnsureEffect(q)
<1>1. pc[q] = "apply" /\ pc[q] \in Locked
  BY DEF Apply, Locked
<1>2. CASE UNCHANGED disk
  BY <1>1, <1>2, SameDisk DEF EnsureEffect
<1>3. CASE /\ Applies(q)
           /\ tree' = [tree EXCEPT !.work = @ \cup Contents(stored[q].commit)]
           /\ UNCHANGED <<entry, patches>>
  <2>1. Contents(stored[q].commit) \in SUBSET Nat
    BY DEF Contents, TypeOK, Patch
  <2>2. PICK new \in SUBSET Nat : new = Contents(stored[q].commit)
    BY <2>1
  <2>3. tree' = [tree EXCEPT !.work = @ \cup new]
    BY <1>3, <2>2
  <2>4. Typed' /\ tree'.work = tree.work \cup new /\ tree'.kind = tree.kind
    BY <2>3 DEF Typed, TypeOK
  <2>5. HasHead(tree') /\ HasHead(tree)
    BY <1>3, <2>4 DEF HasHead, Applies
  <2>6. Saved' = Saved
    BY <1>3 DEF Saved
  <2> QED
    BY <1>1, <1>3, <2>4, <2>5, <2>6 DEF EnsureEffect, NoTreeNoWork, Disk, TypeOK, Kept
<1> QED
  BY <1>2, <1>3 DEF Apply, NotApplied

LEMMA DropEffect ==
  ASSUME TypeOK, NoTreeNoWork, NEW q \in Requests, DropPatch(q), IsApplied(q)
  PROVE  EnsureEffect(q)
<1>1. /\ pc[q] = "dropPatch" /\ pc[q] \in Locked
      /\ tree' = tree /\ entry' = entry
      /\ patches' = {p \in patches : p.commit # stored[q].commit}
  BY DEF DropPatch, Locked
<1>2. Disk' /\ NoTreeNoWork' /\ (HasHead(tree') <=> HasHead(tree))
  BY <1>1 DEF Disk, Typed, TypeOK, NoTreeNoWork, HasHead
<1>3. ASSUME ~overlapped PROVE Kept \subseteq Kept' \cup committed
  <2> SUFFICES ASSUME NEW p \in patches, NEW w \in p.work
               PROVE  w \in Kept' \cup committed
    BY <1>1 DEF Kept, Saved
  <2>1. CASE p.commit = stored[q].commit
    <3>1. w \in Contents(stored[q].commit)
      BY <2>1 DEF Contents
    <3> QED
      BY <1>1, <1>3, <3>1 DEF IsApplied, Kept
  <2>2. CASE p.commit # stored[q].commit
    BY <1>1, <2>2 DEF Kept, Saved
  <2> QED
    BY <2>1, <2>2
<1> QED
  BY <1>1, <1>2, <1>3 DEF EnsureEffect

LEMMA EnsureDisk ==
  ASSUME TypeOK, NoTreeNoWork, NEW q \in Requests, EnsureStep(q), \A r \in Requests : Own(r)
  PROVE  EnsureEffect(q)
<1>0. MakesNew(q) /\ IsApplied(q)
  BY DEF Own
<1>1. CASE Look(q) \/ Lock(q) \/ LockTimesOut(q) \/ Relook(q) \/ Resolve(q)
  <2>1. UNCHANGED disk /\ pc[q] # "unprepare"
    BY <1>1 DEF Look, Lock, LockTimesOut, Relook, Resolve
  <2> QED
    BY <2>1, SameDisk DEF EnsureEffect, disk
<1>2. CASE Sync(q)
  <2>1. pc[q] \in {"sync", "lockedSync"} /\ tree' \in Linked(tree) /\ UNCHANGED <<entry, patches>>
    BY <1>2 DEF Sync
  <2> QED
    BY <2>1, LinkedDisk DEF EnsureEffect, Locked
<1>3. CASE Clear(q) \/ Clearing(q)
  <2>1. pc[q] \in Locked /\ ~HasHead(tree) /\ tree.work = {}
    BY <1>0, <1>3 DEF Clear, Clearing, MakesNew, NoTreeNoWork, Locked
  <2>2. UNCHANGED disk \/ RemovalBegins \/ RemovalEnds
    BY <1>3 DEF Clear, Clearing
  <2>3. CASE UNCHANGED disk
    BY <2>1, <2>3, SameDisk DEF EnsureEffect
  <2>4. CASE RemovalBegins \/ RemovalEnds
    BY <2>1, <2>4, RemovedDisk, KeptParts DEF EnsureEffect
  <2> QED
    BY <2>2, <2>3, <2>4
<1>4. CASE Add(q)
  BY <1>0, <1>4, AddEffect
<1>9. CASE Adding(q)
  BY <1>9, AddingEffect
<1>5. CASE Prepare(q)
  <2>1. pc[q] = "prepare" /\ pc[q] \in Locked
    BY <1>5 DEF Prepare, Locked
  <2>2. CASE tree' \in Linked(tree) /\ UNCHANGED <<entry, patches>>
    BY <2>1, <2>2, LinkedDisk DEF EnsureEffect
  <2>3. CASE Go(q, "unprepare") /\ UNCHANGED disk
    BY <2>1, <2>3, SameDisk DEF EnsureEffect
  <2>4. CASE Go(q, "unprepare") /\ RemovalBegins
    <3>1. pc'[q] = "unprepare"
      BY <2>4, MoveFacts DEF Steps, Locked
    <3> QED
      BY <2>1, <2>4, <3>1, RemovedDisk DEF EnsureEffect
  <2> QED
    BY <1>5, <2>2, <2>3, <2>4 DEF Prepare
<1>6. CASE Unprepare(q)
  <2>1. pc[q] = "unprepare" /\ pc[q] \in Locked /\ RemovalEnds
    BY <1>6 DEF Unprepare, Locked
  <2> QED
    BY <2>1, RemovedDisk DEF EnsureEffect
<1>7. CASE Apply(q)
  BY <1>7, ApplyEffect
<1>8. CASE DropPatch(q)
  BY <1>0, <1>8, DropEffect
<1> QED
  BY <1>1, <1>2, <1>3, <1>4, <1>5, <1>6, <1>7, <1>8, <1>9 DEF EnsureStep

\* Only an addition leaves files missing and an entry locked, until it ends.
LEMMA EnsureMarks ==
  ASSUME TypeOK, NoTreeNoWork, NEW q \in Requests, EnsureStep(q), \A r \in Requests : Own(r)
  PROVE  /\ entry' = "locked" =>
              pc'[q] = "adding" \/ (entry = "locked" /\ pc[q] # "adding")
         /\ tree'.kind = "torn" /\ ~overlapped /\ faults' = 0 =>
              pc'[q] = "adding" \/ (tree.kind = "torn" /\ pc[q] # "adding")
<1>g. \A step \in Steps : Go(q, step) => pc'[q] = step
  BY MoveFacts
<1>h. MakesNew(q)
  BY DEF Own
<1>1. CASE Look(q) \/ Lock(q) \/ LockTimesOut(q) \/ Relook(q) \/ Resolve(q) \/ DropPatch(q)
  BY <1>1 DEF Look, Lock, LockTimesOut, Relook, Resolve, DropPatch, disk
<1>k. ASSUME tree' \in Linked(tree) PROVE tree'.kind = "torn" => tree.kind = "torn"
  <2>1. PICK t \in Linked(tree) : t = tree'
    BY <1>k
  <2> QED
    BY <2>1 DEF Linked, TypeOK
<1>2. CASE Sync(q)
  BY <1>2, <1>k DEF Sync
<1>3. CASE Clear(q) \/ Clearing(q)
  <2>1. ~HasHead(tree) /\ pc[q] # "adding"
    BY <1>3, <1>h DEF Clear, Clearing, MakesNew
  <2>2. /\ entry' = "locked" => entry = "locked"
        /\ tree' = tree \/ tree' \in Remains \/ tree' = NoTree
    BY <1>3 DEF Clear, Clearing, RemovalBegins, RemovalEnds, disk
  <2>3. ASSUME tree' \in Remains PROVE ~HasHead(tree')
    <3>1. PICK t \in Remains : t = tree'
      BY <2>3
    <3> QED
      BY <2>1, <3>1, RemainsTree
  <2>4. tree'.kind # "torn"
    BY <2>1, <2>2, <2>3, NoTreeType DEF HasHead
  <2> QED
    BY <2>1, <2>2, <2>4
<1>4. CASE Add(q)
  <2>1. CASE Go(q, "adding")
    BY <2>1, <1>g, StepNames
  <2>2. CASE entry' = Pruned /\ UNCHANGED tree
    BY <1>4, <2>2 DEF Add, Pruned
  <2> QED
    BY <1>4, <2>1, <2>2 DEF Add
<1>5. CASE Adding(q)
  <2>1. CASE Fault /\ tree' = NoTree /\ entry' = "none"
    <3>1. faults' # 0
      BY <2>1 DEF Fault, TypeOK
    <3> QED
      BY <2>1, <3>1, NoTreeType
  <2>2. CASE Fine /\ tree' \in CheckedOut /\ entry' = "listed"
    <3>1. ASSUME ~overlapped PROVE tree'.kind = "worktree"
      <4>1. ~Deleting
        BY <1>5, <3>1, Undisturbed DEF Adding, Locked
      <4>2. PICK t \in CheckedOut : t = tree'
        BY <2>2
      <4> QED
        BY <4>1, <4>2, CheckedOutTree
    <3> QED
      BY <2>2, <3>1
  <2> QED
    BY <1>5, <2>1, <2>2 DEF Adding
<1>6. CASE Prepare(q)
  <2>1. CASE tree' \in Linked(tree) /\ UNCHANGED entry
    BY <1>6, <1>k, <2>1 DEF Prepare
  <2>2. CASE Fault /\ (UNCHANGED disk \/ RemovalBegins)
    BY <1>6, <2>2 DEF Prepare, Fault, TypeOK, disk, RemovalBegins
  <2> QED
    BY <1>6, <2>1, <2>2 DEF Prepare
<1>7. CASE Unprepare(q)
  BY <1>7, NoTreeType DEF Unprepare, RemovalEnds
<1>8. CASE Apply(q)
  BY <1>8 DEF Apply, NotApplied, disk, TypeOK
<1> QED
  BY <1>1, <1>2, <1>3, <1>4, <1>5, <1>6, <1>7, <1>8 DEF EnsureStep

\* A delete leaves work only in a worktree, and makes none.
LEMMA DeleteDisk ==
  ASSUME TypeOK, NoTreeNoWork, NEW q \in Requests, DeleteStep(q), HasPatch(q)
  PROVE  /\ Disk' /\ NoTreeNoWork' /\ (HasHead(tree') => HasHead(tree))
         /\ discarded' \in SUBSET Nat
         /\ pc[q] \in DeleteSteps /\ pc'[q] \in DeleteSteps \cup {"idle"}
<1>1. CASE Exists(q) \/ Capture(q)
  <2>1. UNCHANGED <<disk, work>> /\ pc[q] \in {"exists", "capture"}
          /\ \E step \in {"purge", "capture", "clearPatches", "clearOnly", "remove"} :
               Go(q, step)
    BY <1>1 DEF Exists, Capture, Quiet
  <2>2. pc'[q] \in DeleteSteps
    BY <2>1, MoveFacts, StepNames DEF DeleteSteps
  <2> QED
    BY <2>1, <2>2, SameDisk DEF DeleteSteps, work, TypeOK
<1>2. CASE Purge(q) \/ ClearPatches(q)
  <2>1. UNCHANGED <<tree, entry>> /\ patches' = {}
    BY <1>2 DEF Purge, ClearPatches
  <2>2. Saved \in SUBSET Nat
    BY DEF Saved, TypeOK, Patch
  <2>3. discarded' \in SUBSET Nat
    BY <1>2, <2>2 DEF Purge, ClearPatches, Quiet, work, TypeOK
  <2>4. /\ pc[q] \in {"purge", "clearPatches", "clearOnly"}
        /\ Go(q, "idle") \/ Go(q, "writePatch") \/ Go(q, "remove")
    BY <1>2 DEF Purge, ClearPatches
  <2>5. pc[q] \in DeleteSteps /\ pc'[q] \in DeleteSteps \cup {"idle"}
    BY <2>4, MoveFacts, StepNames DEF DeleteSteps
  <2> QED
    BY <2>1, <2>3, <2>5 DEF Disk, Typed, TypeOK, NoTreeNoWork, HasHead
<1>3. CASE WritePatch(q)
  <2>1. /\ UNCHANGED <<tree, entry, work>> /\ pc[q] = "writePatch" /\ Go(q, "remove")
        /\ patches' \subseteq patches \cup {stored[q]}
    BY <1>3 DEF WritePatch, Quiet
  <2>2. stored[q] \in Patch
    BY <2>1 DEF HasPatch
  <2>3. Disk' /\ NoTreeNoWork' /\ (HasHead(tree') => HasHead(tree))
    BY <2>1, <2>2 DEF Disk, Typed, TypeOK, NoTreeNoWork, HasHead
  <2>4. pc[q] \in DeleteSteps /\ pc'[q] \in DeleteSteps
    BY <2>1, MoveFacts, StepNames DEF DeleteSteps
  <2> QED
    BY <2>1, <2>3, <2>4 DEF work, TypeOK
<1>4. CASE Remove(q) \/ Removing(q)
  <2>1. UNCHANGED disk \/ RemovalBegins \/ RemovalEnds
    BY <1>4 DEF Remove, Removing
  <2>2. Disk' /\ NoTreeNoWork' /\ (HasHead(tree') => HasHead(tree))
    BY <2>1, SameDisk, RemovedDisk
  <2>3. /\ pc[q] \in {"remove", "removing"}
        /\ Go(q, "removing") \/ Go(q, "idle")
        /\ UNCHANGED work
    BY <1>4 DEF Remove, Removing, Quiet
  <2>4. pc[q] \in DeleteSteps /\ pc'[q] \in DeleteSteps \cup {"idle"}
    BY <2>3, MoveFacts, StepNames DEF DeleteSteps
  <2> QED
    BY <2>2, <2>3, <2>4 DEF work, TypeOK
<1> QED
  BY <1>1, <1>2, <1>3, <1>4 DEF DeleteStep
------------------------------------------------------------------------------
(* EnsureInv is inductive.                                                    *)

\* A call that is over has nothing left to keep.
LEMMA IdleOwn ==
  ASSUME NEW q \in Requests, pc'[q] \in {"idle", "look", "lock"}
  PROVE  Own(q)'
  BY DEF Own, Holds, Solitary, HasPatch, MakesNew, IsApplied, Smooth, Bare, Locked, DeleteSteps

LEMMA EnsureOwn ==
  ASSUME EnsureInv, NEW q \in Requests, EnsureStep(q)
  PROVE  Own(q)'
<1>0. TypeOK /\ NoTreeNoWork /\ Own(q) /\ \A r \in Requests : Own(r)
  BY DEF EnsureInv
<1>a. \A ok \in BOOLEAN : Answer(q, ok) => pc'[q] = "idle"
  BY <1>0, MoveFacts
<1>g. \A step \in Steps : Go(q, step) => pc'[q] = step
  BY <1>0, MoveFacts
<1>e. EnsureEffect(q)
  BY <1>0, EnsureDisk
<1>l. pc[q] \in Locked => lock = q
  BY <1>0 DEF Own, Holds
<1> USE DEF Own, Holds, Solitary, HasPatch, MakesNew, IsApplied, Smooth, Bare
<1>1. CASE Look(q)
  <2>1. UNCHANGED disk /\ Go(q, IF HasHead(tree) THEN "sync" ELSE "lock")
    BY <1>1 DEF Look
  <2>2. CASE HasHead(tree)
    <3>1. pc'[q] = "sync" /\ HasHead(tree')
      BY <2>1, <2>2, <1>g, StepNames DEF disk, HasHead
    <3> QED
      BY <3>1 DEF Locked, DeleteSteps
  <2>3. CASE ~HasHead(tree)
    BY <2>1, <2>3, <1>g, IdleOwn, StepNames
  <2> QED
    BY <2>2, <2>3
<1>2. CASE Sync(q) \/ LockTimesOut(q) \/ Unprepare(q) \/ DropPatch(q)
  BY <1>2, <1>a, IdleOwn DEF Sync, LockTimesOut, Unprepare, DropPatch
<1>3. CASE Lock(q)
  <2>1. pc'[q] = "relook" /\ lock' = q
    BY <1>3, <1>g, StepNames DEF Lock
  <2> QED
    BY <2>1 DEF DeleteSteps
<1>4. CASE Relook(q)
  <2>1. /\ lock' = q /\ UNCHANGED disk
        /\ Go(q, IF HasHead(tree) THEN "lockedSync" ELSE "resolve")
    BY <1>4, <1>l DEF Relook, Locked, AfterRelook
  <2>2. HasHead(tree') <=> HasHead(tree)
    BY <2>1 DEF disk, HasHead
  <2>3. pc'[q] = (IF HasHead(tree) THEN "lockedSync" ELSE "resolve")
    BY <2>1, <1>g, StepNames
  <2> QED
    BY <2>1, <2>2, <2>3 DEF DeleteSteps
<1>5. CASE Resolve(q)
  <2>1. CASE Answer(q, FALSE)
    BY <2>1, <1>a, IdleOwn
  <2>2. CASE Go(q, "clear") /\ UNCHANGED lock
    <3>1. pc'[q] = "clear" /\ pc[q] = "resolve" /\ lock' = q /\ UNCHANGED disk
      BY <2>2, <1>5, <1>g, <1>l, StepNames DEF Resolve, Locked
    <3>2. ~HasHead(tree')
      BY <1>0, <3>1 DEF disk, HasHead
    <3> QED
      BY <3>1, <3>2 DEF DeleteSteps
  <2> QED
    BY <1>5, <2>1, <2>2 DEF Resolve
<1>6. CASE Clear(q)
  <2>1. pc[q] = "clear" /\ lock' = q /\ ~HasHead(tree')
    BY <1>0, <1>6, <1>e, <1>l DEF Clear, Locked, EnsureEffect
  <2>2. CASE tree.kind = "absent"
    <3>1. pc'[q] = "add" /\ tree'.kind = "absent"
      BY <1>6, <2>2, <1>g, StepNames DEF Clear, disk
    <3> QED
      BY <2>1, <3>1 DEF DeleteSteps
  <2>3. CASE tree.kind # "absent"
    <3>1. pc'[q] = "clearing"
      BY <1>6, <2>3, <1>g, StepNames DEF Clear
    <3> QED
      BY <2>1, <3>1 DEF DeleteSteps
  <2> QED
    BY <2>2, <2>3
<1>7. CASE Clearing(q)
  <2>1. pc'[q] = "add" /\ lock' = q /\ tree' = NoTree
    BY <1>7, <1>g, <1>l, StepNames DEF Clearing, Locked, RemovalEnds
  <2> QED
    BY <2>1, NoTreeType DEF DeleteSteps
<1>8. CASE Add(q)
  <2>1. CASE Answer(q, FALSE)
    BY <2>1, <1>a, IdleOwn
  <2>2. CASE tree' \in HalfMade(Origin(stored[q])) /\ Go(q, "adding") /\ UNCHANGED lock
    <3>1. pc'[q] = "adding" /\ lock' = q
      BY <1>8, <2>2, <1>g, <1>l, StepNames DEF Add, Locked
    <3>2. tree'.work = {}
      BY <2>2 DEF HalfMade
    <3> QED
      BY <3>1, <3>2 DEF DeleteSteps
  <2> QED
    BY <1>8, <2>1, <2>2 DEF Add
<1>11. CASE Adding(q)
  <2>0. pc[q] = "adding" /\ lock = q /\ overlapped' = overlapped
    BY <1>11, <1>l DEF Adding, Locked, Aside
  <2>1. CASE Answer(q, FALSE)
    BY <2>1, <1>a, IdleOwn
  <2>2. CASE Fine /\ tree' \in CheckedOut /\ Go(q, "prepare") /\ UNCHANGED lock
    <3>1. pc'[q] = "prepare" /\ lock' = q
      BY <2>0, <2>2, <1>g, StepNames
    <3>2. ASSUME ~overlapped PROVE HasHead(tree')
      <4>1. ~Deleting
        BY <1>0, <2>0, <3>2, Undisturbed DEF Locked
      <4>2. PICK t \in CheckedOut : t = tree'
        BY <2>2
      <4> QED
        BY <1>0, <4>1, <4>2, CheckedOutTree DEF HasHead
    <3> QED
      BY <2>0, <3>1, <3>2 DEF DeleteSteps
  <2>3. CASE Fault /\ tree' = NoTree /\ Go(q, "add") /\ UNCHANGED lock
    <3>1. pc'[q] = "add" /\ lock' = q
      BY <2>0, <2>3, <1>g, StepNames
    <3> QED
      BY <2>3, <3>1, NoTreeType DEF DeleteSteps
  <2> QED
    BY <1>11, <2>1, <2>2, <2>3 DEF Adding
<1>9. CASE Prepare(q)
  <2>1. pc[q] = "prepare"
    BY <1>9 DEF Prepare
  <2>2. CASE Answer(q, TRUE)
    BY <2>2, <1>a, IdleOwn
  <2>3. CASE Go(q, "apply") /\ UNCHANGED <<lock, stored>> /\ stored[q] # NoPatch /\ Fine
    <3>1. pc'[q] = "apply" /\ lock' = q /\ stored'[q] \in Patch /\ faults' = faults
      BY <1>0, <2>1, <2>3, <1>g, <1>l, StepNames DEF TypeOK, Locked, Fine
    <3>2. overlapped' = overlapped
      BY <1>9 DEF Prepare, Aside
    <3>3. ~overlapped /\ faults = 0 /\ HasHead(tree) => HasHead(tree')
      BY <1>e, <2>1, <3>1 DEF EnsureEffect
    <3> QED
      BY <1>0, <2>1, <3>1, <3>2, <3>3 DEF DeleteSteps
  <2>4. CASE Go(q, "unprepare") /\ UNCHANGED lock /\ Fault
    <3>1. pc'[q] = "unprepare" /\ lock' = q /\ faults' # 0
      BY <1>0, <2>1, <2>4, <1>g, <1>l, StepNames DEF TypeOK, Locked, Fault
    <3> QED
      BY <3>1 DEF DeleteSteps
  <2> QED
    BY <1>9, <2>2, <2>3, <2>4 DEF Prepare
<1>10. CASE Apply(q)
  <2>1. CASE Answer(q, TRUE)
    BY <2>1, <1>a, IdleOwn
  <2>2. CASE /\ tree' = [tree EXCEPT !.work = @ \cup Contents(stored[q].commit)]
             /\ Go(q, "dropPatch") /\ Applies(q)
             /\ UNCHANGED <<patches, lock, stored>>
    <3>1. pc'[q] = "dropPatch" /\ pc[q] = "apply" /\ lock' = q /\ stored'[q] \in Patch
      BY <1>0, <1>10, <2>2, <1>g, <1>l, StepNames DEF Apply, Locked
    <3>2. PICK new : new = Contents(stored[q].commit)
      OBVIOUS
    <3>3. Contents(stored[q].commit)' = new
      BY <2>2, <3>2 DEF Contents
    <3>4. tree'.work = tree.work \cup new /\ tree'.kind = tree.kind
      BY <1>0, <2>2, <3>2 DEF TypeOK
    <3>5. HasHead(tree')
      BY <2>2, <3>4 DEF Applies, HasHead
    <3> QED
      BY <3>1, <3>3, <3>4, <3>5 DEF DeleteSteps
  <2> QED
    BY <1>10, <2>1, <2>2 DEF Apply, NotApplied
<1> QED
  BY <1>1, <1>2, <1>3, <1>4, <1>5, <1>6, <1>7, <1>8, <1>9, <1>10, <1>11 DEF EnsureStep

LEMMA DeleteOwn ==
  ASSUME EnsureInv, NEW q \in Requests, DeleteStep(q)
  PROVE  Own(q)'
<1>0. TypeOK /\ NoTreeNoWork /\ Own(q)
  BY DEF EnsureInv
<1>1. /\ pc[q] \in DeleteSteps /\ pc'[q] \in DeleteSteps \cup {"idle"}
      /\ \A r \in Requests \ {q} : pc'[r] = pc[r]
      /\ overlapped' = overlapped
  BY <1>0, DeleteDisk, DeleteMoves DEF Own, Moves
<1>2. Solitary(q)'
  BY <1>0, <1>1 DEF Own, Solitary
<1>3. HasPatch(q)'
  <2>1. CASE Capture(q)
    <3>1. Captured \in Patch
      BY <1>0 DEF Captured, Patch, TypeOK
    <3>2. CASE stored' = [stored EXCEPT ![q] = Captured]
      BY <1>0, <3>1, <3>2 DEF HasPatch, TypeOK
    <3>3. CASE Go(q, "remove")
      BY <1>0, <3>3, MoveFacts, StepNames DEF HasPatch
    <3> QED
      BY <2>1, <3>2, <3>3 DEF Capture
  <2>2. CASE ClearPatches(q)
    BY <1>0, <2>2 DEF ClearPatches, Own, HasPatch
  <2>3. CASE ~Capture(q) /\ ~ClearPatches(q)
    <3>1. \E step \in {"purge", "capture", "idle", "remove", "removing"} : Go(q, step)
      BY <2>3 DEF DeleteStep, Exists, Purge, WritePatch, Remove, Removing
    <3> QED
      BY <1>0, <3>1, MoveFacts, StepNames DEF HasPatch
  <2> QED
    BY <2>1, <2>2, <2>3
<1> QED
  BY <1>1, <1>2, <1>3 DEF Own, Holds, MakesNew, IsApplied, Smooth, Bare, Locked, DeleteSteps

LEMMA RequestOwn ==
  ASSUME EnsureInv, NEW q \in Requests, RequestEnsure(q) \/ RequestDelete(q)
  PROVE  Own(q)'
<1>0. TypeOK
  BY DEF EnsureInv
<1>1. CASE RequestEnsure(q)
  BY <1>0, <1>1, RequestMoves, IdleOwn DEF RequestEnsure
<1>2. CASE RequestDelete(q)
  <2>1. /\ pc'[q] = "exists" /\ \A r \in Requests \ {q} : pc'[r] = pc[r]
        /\ ~overlapped' => Active = {}
    BY <1>0, <1>2, RequestMoves DEF RequestDelete, Moves
  <2>2. Solitary(q)'
    BY <2>1 DEF Solitary, Active
  <2> QED
    BY <2>1, <2>2 DEF Own, Holds, HasPatch, MakesNew, IsApplied, Smooth, Bare, Locked
<1> QED
  BY <1>1, <1>2
\* A step of one call leaves true what the others go by.
LEMMA OthersOwn ==
  ASSUME EnsureInv, NEW q \in Requests, Call(q), NEW r \in Requests, r # q
  PROVE  Own(r)'
<1>0. TypeOK /\ NoTreeNoWork /\ Own(q) /\ Own(r) /\ \A o \in Requests : Own(o)
  BY DEF EnsureInv
<1>1. /\ Moves(q) /\ (~overlapped' => ~overlapped)
      /\ pc'[r] = pc[r] /\ stored'[r] = stored[r]
      /\ faults' = 0 => faults = 0
  <2>1. Moves(q) /\ (~overlapped' => ~overlapped)
    BY <1>0, RequestMoves, EnsureMoves, DeleteMoves
       DEF Call, RequestEnsure, RequestDelete, TypeOK
  <2> QED
    BY <1>0, <2>1 DEF Moves, TypeOK
<1>2. CASE RequestEnsure(q) \/ RequestDelete(q)
  <2>1. /\ UNCHANGED <<disk, lock, committed, faults>>
        /\ ~overlapped' => ~Deleting
    BY <1>0, <1>2, RequestMoves DEF RequestEnsure, RequestDelete, work
  <2>2. Solitary(r)'
    BY <1>1, <2>1 DEF Solitary, Deleting, Active, DeleteSteps
  <2>3. UNCHANGED <<tree, patches>> /\ (HasHead(tree') <=> HasHead(tree))
    BY <2>1 DEF disk, HasHead
  <2>4. IsApplied(r)'
    BY <1>0, <1>1, <2>1, <2>3 DEF Own, IsApplied, Contents
  <2> QED
    BY <1>0, <1>1, <2>1, <2>2, <2>3, <2>4
       DEF Own, Holds, HasPatch, MakesNew, Smooth, Bare
<1>h. Holds(r)' /\ HasPatch(r)'
  BY <1>0, <1>1, LockOwners DEF Own, Holds, HasPatch, Moves
<1>3. CASE EnsureStep(q)
  <2>0. EnsureEffect(q) /\ overlapped' = overlapped
    BY <1>0, <1>3, EnsureDisk, EnsureMoves
  <2>1. pc[q] # "idle"
    BY <1>3 DEF EnsureStep, Look, Sync, Lock, LockTimesOut, Relook, Resolve, Clear,
                Clearing, Add, Adding, Prepare, Unprepare, Apply, DropPatch
  <2>2. ~overlapped => pc[r] \notin DeleteSteps
    BY <1>0, <2>1 DEF Own, Solitary
  <2>3. Solitary(r)'
    BY <1>1, <2>0, <2>2 DEF Solitary
  <2>4. pc[r] \in Locked => pc[q] \notin Locked
    BY <1>0 DEF Own, Holds
  <2>5. MakesNew(r)'
    BY <1>0, <1>1, <2>0, <2>4 DEF Own, MakesNew, EnsureEffect, Locked
  <2>6. IsApplied(r)'
    <3>1. ASSUME ~overlapped, pc[r] = "dropPatch" PROVE IsApplied(r)'
      <4>0. pc[q] \notin Locked
        BY <2>4, <3>1 DEF Locked
      <4>1. tree' \in Linked(tree) /\ patches' = patches
        BY <2>0, <4>0 DEF EnsureEffect
      <4>2. tree'.work = tree.work
        <5>1. PICK t \in Linked(tree) : t = tree'
          BY <4>1
        <5> QED
          BY <1>0, <5>1, LinkedTree
      <4>3. Contents(stored[r].commit)' = Contents(stored[r].commit)
        BY <1>1, <4>1 DEF Contents
      <4>4. Contents(stored[r].commit) \subseteq tree.work \cup committed
        BY <1>0, <3>1 DEF Own, IsApplied
      <4>5. committed' = committed
        BY <1>1 DEF Moves
      <4> QED
        BY <4>2, <4>3, <4>4, <4>5 DEF IsApplied
    <3>2. CASE ~(~overlapped /\ pc[r] = "dropPatch")
      BY <1>1, <3>2 DEF IsApplied
    <3> QED
      BY <3>1, <3>2
  <2>8. Bare(r)'
    <3>1. ASSUME ~overlapped, pc[r] = "adding" PROVE tree'.work = {}
      <4>1. tree.work = {} /\ pc[q] \notin Locked
        BY <1>0, <2>4, <3>1 DEF Own, Bare, Locked
      <4>2. PICK t \in Linked(tree) : t = tree'
        BY <2>0, <4>1 DEF EnsureEffect
      <4> QED
        BY <1>0, <4>1, <4>2, LinkedTree
    <3> QED
      BY <1>1, <3>1 DEF Bare
  <2>7. Smooth(r)'
    <3> SUFFICES ASSUME ~overlapped, faults' = 0
                 PROVE  /\ pc[r] # "unprepare"
                        /\ pc[r] \in {"sync", "lockedSync", "prepare", "apply", "dropPatch"}
                             => HasHead(tree')
                        /\ pc[r] = "add" => tree'.kind = "absent"
      BY <1>1, <2>0 DEF Smooth
    <3>1. faults = 0
      BY <1>1
    <3>2. pc[q] # "unprepare" /\ pc'[q] # "unprepare"
      BY <1>0, <1>3, <2>0, <3>1, EnsureOwn DEF Own, Smooth
    <3>3. HasHead(tree) => HasHead(tree')
      BY <2>0, <3>2 DEF EnsureEffect
    <3>4. ASSUME pc[r] = "add" PROVE tree'.kind = "absent"
      <4>1. tree.kind = "absent" /\ ~HasHead(tree)
        BY <1>0, <3>1, <3>4 DEF Own, Smooth, HasHead
      <4>2. pc[q] # "sync"
        BY <1>0, <3>1, <4>1 DEF Own, Smooth
      <4>3. tree' = tree
        BY <2>0, <2>4, <3>4, <4>2 DEF EnsureEffect, Locked
      <4> QED
        BY <4>1, <4>3
    <3> QED
      BY <1>0, <3>1, <3>3, <3>4 DEF Own, Smooth
  <2> QED
    BY <1>h, <2>3, <2>5, <2>6, <2>7, <2>8 DEF Own
<1>4. CASE DeleteStep(q)
  <2>1. /\ pc[q] \in DeleteSteps /\ overlapped' = overlapped
        /\ HasHead(tree') => HasHead(tree)
    BY <1>0, <1>4, DeleteDisk, DeleteMoves DEF Own
  <2>2. ~overlapped => pc[r] = "idle"
    BY <1>0, <2>1 DEF Own, Solitary
  <2>3. Solitary(r)' /\ IsApplied(r)' /\ Smooth(r)' /\ Bare(r)'
    BY <1>1, <2>1, <2>2 DEF Solitary, IsApplied, Smooth, Bare, DeleteSteps
  <2>4. MakesNew(r)'
    BY <1>0, <1>1, <2>1 DEF Own, MakesNew
  <2> QED
    BY <1>h, <2>3, <2>4 DEF Own
<1> QED
  BY <1>2, <1>3, <1>4 DEF Call

\* What a delete does to the files it leaves, and to the path's entry.
LEMMA DeleteMarks ==
  ASSUME TypeOK, NoTreeNoWork, NEW q \in Requests, DeleteStep(q), HasPatch(q)
  PROVE  /\ entry' = "locked" => entry = "locked"
         /\ tree'.kind = "torn" =>
              pc'[q] = "removing" \/ (tree' = tree /\ pc[q] # "removing")
<1>1. CASE Exists(q) \/ Purge(q) \/ Capture(q) \/ ClearPatches(q) \/ WritePatch(q)
  BY <1>1 DEF Exists, Purge, Capture, ClearPatches, WritePatch, disk
<1>2. CASE Remove(q)
  <2>1. pc'[q] = "removing"
    BY <1>2, MoveFacts, StepNames DEF Remove
  <2> QED
    BY <1>2, <2>1 DEF Remove, disk, RemovalBegins
<1>3. CASE Removing(q)
  BY <1>3, NoTreeType DEF Removing, RemovalEnds
<1> QED
  BY <1>1, <1>2, <1>3 DEF DeleteStep

LEMMA CallMarks ==
  ASSUME EnsureInv, NEW q \in Requests, Call(q)
  PROVE  Whole' /\ Unlocked'
<1>0. TypeOK /\ NoTreeNoWork /\ Whole /\ Unlocked /\ \A r \in Requests : Own(r)
  BY DEF EnsureInv
<1>1. /\ \A r \in Requests \ {q} : pc'[r] = pc[r]
      /\ crashes' = crashes /\ (~overlapped' => ~overlapped)
      /\ faults' = 0 => faults = 0
  <2>1. Moves(q) /\ (~overlapped' => ~overlapped)
    BY <1>0, RequestMoves, EnsureMoves, DeleteMoves
       DEF Call, RequestEnsure, RequestDelete, TypeOK
  <2> QED
    BY <1>0, <2>1 DEF Moves, TypeOK
<1>2. CASE RequestEnsure(q) \/ RequestDelete(q)
  <2>1. pc[q] = "idle" /\ UNCHANGED <<tree, entry>>
    BY <1>0, <1>2, RequestMoves DEF RequestEnsure, RequestDelete, disk
  <2> QED
    BY <1>0, <1>1, <2>1 DEF Whole, Unlocked
<1>3. CASE EnsureStep(q)
  <2>1. /\ entry' = "locked" =>
             pc'[q] = "adding" \/ (entry = "locked" /\ pc[q] # "adding")
        /\ tree'.kind = "torn" /\ ~overlapped /\ faults' = 0 =>
             pc'[q] = "adding" \/ (tree.kind = "torn" /\ pc[q] # "adding")
    BY <1>0, <1>3, EnsureMarks
  <2>2. pc[q] # "idle" /\ pc[q] \notin DeleteSteps
    BY <1>3 DEF EnsureStep, Look, Sync, Lock, LockTimesOut, Relook, Resolve, Clear,
                Clearing, Add, Adding, Prepare, Unprepare, Apply, DropPatch, DeleteSteps
  <2>3. ASSUME NEW r \in Requests, ~overlapped, pc[r] = "removing" PROVE FALSE
    BY <1>0, <2>2, <2>3 DEF Own, Solitary, DeleteSteps
  <2>4. Unlocked'
    BY <1>0, <1>1, <2>1 DEF Unlocked
  <2>5. Whole'
    BY <1>0, <1>1, <2>1, <2>2, <2>3 DEF Whole, DeleteSteps
  <2> QED
    BY <2>4, <2>5
<1>4. CASE DeleteStep(q)
  <2>1. /\ entry' = "locked" => entry = "locked"
        /\ tree'.kind = "torn" =>
             pc'[q] = "removing" \/ (tree' = tree /\ pc[q] # "removing")
        /\ pc[q] \in DeleteSteps
    BY <1>0, <1>4, DeleteMarks, DeleteDisk DEF Own
  <2>2. Unlocked'
    BY <1>0, <1>1, <2>1 DEF Unlocked, DeleteSteps
  <2>3. ~overlapped => \A r \in Requests \ {q} : pc[r] = "idle"
    BY <1>0, <2>1 DEF Own, Solitary
  <2>4. Whole'
    BY <1>0, <1>1, <2>1, <2>3 DEF Whole, DeleteSteps
  <2> QED
    BY <2>2, <2>4
<1> QED
  BY <1>2, <1>3, <1>4 DEF Call

LEMMA CallInv ==
  ASSUME EnsureInv, NEW q \in Requests, Call(q)
  PROVE  EnsureInv'
<1>0. TypeOK /\ NoTreeNoWork /\ Own(q) /\ \A r \in Requests : Own(r)
  BY DEF EnsureInv
<1>1. \A r \in Requests : Own(r)'
  BY OthersOwn, EnsureOwn, DeleteOwn, RequestOwn DEF Call
<1>2. /\ Moves(q) /\ overlapped' \in BOOLEAN /\ requests' \in Nat
      /\ Disk' /\ NoTreeNoWork' /\ discarded' \in SUBSET Nat
  <2>1. CASE RequestEnsure(q) \/ RequestDelete(q)
    BY <1>0, <2>1, RequestMoves, SameDisk DEF RequestEnsure, RequestDelete, work, disk,
       TypeOK
  <2>2. CASE EnsureStep(q)
    <3>1. EnsureEffect(q)
      BY <1>0, <2>2, EnsureDisk
    <3> QED
      BY <1>0, <2>2, <3>1, EnsureMoves DEF EnsureEffect, TypeOK
  <2>3. CASE DeleteStep(q)
    BY <1>0, <2>3, DeleteDisk, DeleteMoves DEF Own, TypeOK
  <2> QED
    BY <2>1, <2>2, <2>3 DEF Call
<1>3. TypeOK'
  <2>1. lock' \in Requests \cup {NoOne, Dead}
    BY <1>0, <1>2 DEF Moves, TypeOK
  <2>2. /\ made' \in Nat /\ committed' \in SUBSET Nat /\ base' \in Nat /\ crashes' \in Nat
        /\ faults' \in Nat
    BY <1>0, <1>2 DEF Moves, TypeOK
  <2> QED
    BY <1>2, <2>1, <2>2 DEF TypeOK, Moves, Disk, Typed
<1> QED
  BY <1>1, <1>2, <1>3, CallMarks DEF EnsureInv

\* The agent changes the work in the worktree, never whether there is one.
AgentStep == AgentWorks \/ AgentCommits \/ AgentEnds

LEMMA AgentDisk ==
  ASSUME TypeOK, NoTreeNoWork, AgentStep
  PROVE  /\ TypeOK' /\ NoTreeNoWork'
         /\ UNCHANGED <<entry, patches, base, lock, pc, stored, discarded, counts>>
         /\ ~overlapped' => ~overlapped /\ (tree' = tree \/ ~BeingAdded)
         /\ tree'.kind = tree.kind
         /\ tree.work \cup committed \subseteq tree'.work \cup committed'
         /\ committed \subseteq committed'
<1>1. CASE AgentWorks
  <2>1. PICK new : new = made + 1
    OBVIOUS
  <2>2. made' = new /\ new \in Nat /\ tree' = [tree EXCEPT !.work = @ \cup {new}]
    BY <1>1, <2>1 DEF AgentWorks, TypeOK
  <2>3. /\ tree' \in [kind : Kinds, head : Commit, work : SUBSET Nat]
        /\ tree'.kind = tree.kind /\ tree'.work = tree.work \cup {new}
    BY <2>2 DEF TypeOK
  <2>4. HasHead(tree')
    BY <1>1, <2>3 DEF AgentWorks, HasHead
  <2>5. /\ UNCHANGED <<entry, patches, base, lock, pc, stored, agent, committed,
                       discarded, requests, faults, crashes>>
        /\ overlapped' \in BOOLEAN /\ (~overlapped' => ~overlapped /\ ~BeingAdded)
    BY <1>1 DEF AgentWorks, counts, TypeOK
  <2> QED
    BY <2>2, <2>3, <2>4, <2>5 DEF TypeOK, NoTreeNoWork, counts
<1>2. CASE AgentCommits
  <2>1. tree' = [tree EXCEPT !.head.work = @ \cup tree.work, !.work = {}]
    BY <1>2 DEF AgentCommits
  <2>2. /\ tree' \in [kind : Kinds, head : Commit, work : SUBSET Nat]
        /\ tree'.kind = tree.kind /\ tree'.work = {}
    BY <2>1 DEF TypeOK, Commit
  <2>3. /\ UNCHANGED <<entry, patches, base, lock, pc, stored, agent, made,
                       discarded, requests, faults, crashes>>
        /\ overlapped' \in BOOLEAN /\ (~overlapped' => ~overlapped /\ ~BeingAdded)
        /\ committed' = committed \cup tree.work
    BY <1>2 DEF AgentCommits, counts, TypeOK
  <2>4. committed' \in SUBSET Nat
    BY <2>3 DEF TypeOK
  <2> QED
    BY <2>2, <2>3, <2>4 DEF TypeOK, NoTreeNoWork, counts
<1>3. CASE AgentEnds
  BY <1>3 DEF AgentEnds, TypeOK, NoTreeNoWork, HasHead, disk, counts
<1> QED
  BY <1>1, <1>2, <1>3 DEF AgentStep

LEMMA AgentInv == EnsureInv /\ AgentStep => EnsureInv'
<1> SUFFICES ASSUME EnsureInv, AgentStep PROVE EnsureInv'
  OBVIOUS
<1>0. TypeOK /\ NoTreeNoWork
  BY DEF EnsureInv
<1>1. /\ TypeOK' /\ NoTreeNoWork'
      /\ UNCHANGED <<entry, patches, base, lock, pc, stored, discarded, faults, crashes>>
      /\ ~overlapped' => ~overlapped /\ (tree' = tree \/ ~BeingAdded)
      /\ tree'.kind = tree.kind
      /\ tree.work \cup committed \subseteq tree'.work \cup committed'
  BY <1>0, AgentDisk DEF counts
<1>2. HasHead(tree') <=> HasHead(tree)
  BY <1>1 DEF HasHead
<1>3. ASSUME NEW q \in Requests PROVE Own(q)'
  <2>1. Own(q)
    BY DEF EnsureInv
  <2>2. IsApplied(q)'
    BY <1>1, <2>1 DEF Own, IsApplied, Contents
  <2>3. Bare(q)'
    BY <1>1, <2>1 DEF Own, Bare, BeingAdded
  <2> QED
    BY <1>1, <1>2, <2>1, <2>2, <2>3 DEF Own, Holds, Solitary, HasPatch, MakesNew, Smooth
<1>4. Whole' /\ Unlocked'
  BY <1>1 DEF EnsureInv, Whole, Unlocked
<1> QED
  BY <1>1, <1>3, <1>4 DEF EnsureInv

\* The base branch, a crash and a stale lock.
LEMMA OutsideInv == EnsureInv /\ (BaseAdvances \/ Crash \/ Expire) => EnsureInv'
<1> SUFFICES ASSUME EnsureInv, BaseAdvances \/ Crash \/ Expire PROVE EnsureInv'
  OBVIOUS
<1>0. TypeOK /\ NoTreeNoWork
  BY DEF EnsureInv
<1>1. TypeOK'
  <2>1. CASE BaseAdvances
    BY <1>0, <2>1 DEF BaseAdvances, TypeOK, disk, work, counts
  <2>2. CASE Crash
    <3>1. /\ pc' = [q \in Requests |-> "idle"] /\ stored' = [q \in Requests |-> NoPatch]
          /\ lock' \in {lock, Dead} /\ agent' = FALSE /\ crashes' = crashes + 1
          /\ UNCHANGED <<tree, entry, patches, base, made, committed, discarded,
                         overlapped, requests, faults>>
      BY <2>2 DEF Crash, disk
    <3>2. "idle" \in Steps
      BY DEF Steps
    <3>3. pc' \in [Requests -> Steps] /\ stored' \in [Requests -> Patch \cup {NoPatch}]
      BY <3>1, <3>2
    <3>4. lock' \in Requests \cup {NoOne, Dead}
      BY <1>0, <3>1 DEF TypeOK
    <3>6. agent' \in BOOLEAN
      BY <3>1
    <3>7. crashes' \in Nat
      BY <1>0, <3>1 DEF TypeOK
    <3>5. /\ tree' \in [kind : Kinds, head : Commit, work : SUBSET Nat]
          /\ entry' \in Entries /\ patches' \in SUBSET Patch /\ base' \in Nat
          /\ made' \in Nat /\ committed' \in SUBSET Nat /\ discarded' \in SUBSET Nat
          /\ overlapped' \in BOOLEAN /\ requests' \in Nat /\ faults' \in Nat
      BY <1>0, <3>1 DEF TypeOK
    <3> QED
      BY <3>3, <3>4, <3>5, <3>6, <3>7 DEF TypeOK
  <2>3. CASE Expire
    BY <1>0, <2>3 DEF Expire, TypeOK, disk, work, counts
  <2> QED
    BY <2>1, <2>2, <2>3
<1>2. UNCHANGED disk /\ UNCHANGED committed /\ UNCHANGED overlapped
  BY DEF BaseAdvances, Crash, Expire, work
<1>3. NoTreeNoWork' /\ (HasHead(tree') <=> HasHead(tree))
  BY <1>0, <1>2, SameDisk
<1>4. ASSUME NEW q \in Requests PROVE Own(q)'
  <2>1. Own(q)
    BY DEF EnsureInv
  <2>2. CASE Crash
    <3>1. pc'[q] = "idle"
      BY <2>2 DEF Crash
    <3> QED
      BY <3>1, IdleOwn
  <2>3. CASE BaseAdvances \/ Expire
    <3>1. UNCHANGED <<pc, stored, faults>> /\ (lock' = lock \/ lock = Dead)
      BY <2>3 DEF BaseAdvances, Expire, counts
    <3>2. IsApplied(q)'
      BY <1>2, <2>1, <3>1 DEF Own, IsApplied, Contents, disk
    <3> QED
      BY <1>2, <1>3, <2>1, <3>1, <3>2, LockOwners
         DEF Own, Holds, Solitary, HasPatch, MakesNew, Smooth, Bare, disk
  <2> QED
    BY <2>2, <2>3
<1>5. Whole' /\ Unlocked'
  <2>1. CASE Crash
    <3>1. crashes' # 0
      BY <1>0, <2>1 DEF Crash, TypeOK
    <3> QED
      BY <3>1 DEF Whole, Unlocked
  <2>2. CASE BaseAdvances \/ Expire
    BY <1>2, <2>2 DEF BaseAdvances, Expire, counts, disk, EnsureInv, Whole, Unlocked
  <2> QED
    BY <2>1, <2>2
<1> QED
  BY <1>1, <1>3, <1>4, <1>5 DEF EnsureInv

LEMMA InitEnsure == Init => EnsureInv
<1> SUFFICES ASSUME Init PROVE EnsureInv
  OBVIOUS
<1>1. /\ pc = [q \in Requests |-> "idle"] /\ stored = [q \in Requests |-> NoPatch]
      /\ tree = NoTree /\ patches = {} /\ entry = "none" /\ base = 0 /\ lock = NoOne
      /\ agent = FALSE /\ made = 0 /\ committed = {} /\ discarded = {}
      /\ overlapped = FALSE /\ requests = 0 /\ faults = 0 /\ crashes = 0
  BY DEF Init
<1>2. TypeOK
  BY <1>1, NoTreeType, StepNames DEF TypeOK, Entries
<1>3. NoTreeNoWork
  BY <1>1, NoTreeType DEF NoTreeNoWork
<1>4. \A q \in Requests : Own(q)
  BY <1>1 DEF Own, Holds, Solitary, HasPatch, MakesNew, IsApplied, Smooth, Bare,
              Locked, DeleteSteps
<1>5. Whole /\ Unlocked
  BY <1>1, NoTreeType DEF Whole, Unlocked
<1> QED
  BY <1>2, <1>3, <1>4, <1>5 DEF EnsureInv

LEMMA StepEnsure == EnsureInv /\ [Next]_vars => EnsureInv'
<1> SUFFICES ASSUME EnsureInv, [Next]_vars PROVE EnsureInv'
  OBVIOUS
<1>1. CASE UNCHANGED vars
  <2>1. UNCHANGED <<tree, entry, patches, base, lock, pc, stored, agent, made,
                    committed, discarded, overlapped, requests, faults, crashes>>
    BY <1>1 DEF vars
  <2>2. TypeOK' /\ NoTreeNoWork' /\ Whole' /\ Unlocked'
    BY <2>1 DEF EnsureInv, TypeOK, NoTreeNoWork, HasHead, Whole, Unlocked
  <2>3. ASSUME NEW q \in Requests PROVE Own(q)'
    <3>1. Own(q)
      BY DEF EnsureInv
    <3>2. IsApplied(q)'
      BY <2>1, <3>1 DEF Own, IsApplied, Contents
    <3> QED
      BY <2>1, <3>1, <3>2 DEF Own, Holds, Solitary, HasPatch, MakesNew, Smooth, Bare, HasHead
  <2> QED
    BY <2>2, <2>3 DEF EnsureInv
<1>2. ASSUME NEW q \in Requests, Call(q) PROVE EnsureInv'
  BY <1>2, CallInv
<1>3. CASE AgentStep \/ BaseAdvances \/ Crash \/ Expire
  BY <1>3, AgentInv, OutsideInv
<1> QED
  BY <1>1, <1>2, <1>3 DEF Next, Call, AgentStep

THEOREM EnsureInvariance == Spec => []EnsureInv
  BY InitEnsure, StepEnsure, PTL DEF Spec

\* No ensure loses work, whatever overlaps it, fails it or died before it.
THEOREM EnsureKeepsWork == Spec => EnsureLosesNothing
<1> DEFINE Loses == \A q \in Requests :
                EnsureStep(q) /\ ~overlapped /\ "unprepare" \notin {pc[q], pc'[q]}
                  => Kept \subseteq Kept' \cup committed'
<1>1. EnsureInv /\ [Next]_vars => [Loses]_vars
  <2> SUFFICES ASSUME EnsureInv, NEW q \in Requests, EnsureStep(q), ~overlapped,
                      "unprepare" \notin {pc[q], pc'[q]}
               PROVE  Kept \subseteq Kept' \cup committed'
    OBVIOUS
  <2>1. TypeOK /\ NoTreeNoWork /\ \A r \in Requests : Own(r)
    BY DEF EnsureInv
  <2>2. EnsureEffect(q) /\ committed' = committed
    BY <2>1, EnsureDisk, EnsureMoves DEF Moves
  <2> QED
    BY <2>2 DEF EnsureEffect
<1> QED
  BY <1>1, EnsureInvariance, PTL DEF Spec, EnsureLosesNothing

\* An ensure that is given the lock and whose git commands succeed ends with a
\* whole worktree, whatever directory without HEAD and whatever entry that is not
\* locked it finds.  What it does not recover from is only left by a death in a
\* call, or is the checkout of another ensure: without either, it has a worktree.
THEOREM EnsureSucceeds == Spec => EnsureRecovers
<1> DEFINE Recovers == \A q \in Requests :
       EnsureStep(q) /\ ~LockTimesOut(q) /\ pc'[q] = "idle" /\ ~overlapped /\ faults' = 0
         => \/ tree'.kind = "worktree"
            \/ tree'.kind = "torn" /\ (crashes > 0 \/ BeingAdded)
            \/ pc[q] = "add" /\ entry = "locked" /\ crashes > 0
<1>1. EnsureInv /\ [Next]_vars => [Recovers]_vars
  <2> SUFFICES ASSUME EnsureInv, NEW q \in Requests, EnsureStep(q), ~LockTimesOut(q),
                      pc'[q] = "idle", ~overlapped, faults' = 0
               PROVE  \/ tree'.kind = "worktree"
                      \/ tree'.kind = "torn" /\ (crashes > 0 \/ BeingAdded)
                      \/ pc[q] = "add" /\ entry = "locked" /\ crashes > 0
    OBVIOUS
  <2>0. /\ TypeOK /\ NoTreeNoWork /\ Whole /\ Unlocked /\ Own(q)
        /\ \A r \in Requests : Own(r)
    BY DEF EnsureInv
  <2>1. EnsureEffect(q) /\ faults = 0 /\ ~Fault
    BY <2>0, EnsureDisk, EnsureMoves DEF Moves, TypeOK, Fault
  <2>2. pc[q] # "unprepare" /\ (HasHead(tree) => HasHead(tree'))
    BY <2>0, <2>1 DEF Own, Smooth, EnsureEffect
  <2>g. \A step \in Steps : Go(q, step) => step = "idle"
    BY <2>0, MoveFacts
  <2>3. ~Look(q) /\ ~Lock(q) /\ ~Relook(q)
    BY <2>g, StepNames DEF Look, Lock, Relook, AfterRelook
  <2>4. ~Resolve(q) /\ ~Clear(q) /\ ~Clearing(q) /\ ~Adding(q)
    BY <2>1, <2>g, StepNames DEF Resolve, Clear, Clearing, Adding
  <2>5. ~Unprepare(q)
    BY <2>2 DEF Unprepare
  <2>6. CASE Add(q)
    <3>1. pc[q] = "add"
      BY <2>6 DEF Add
    <3>2. tree.kind = "absent" /\ ~HasHead(tree) /\ lock = q
      BY <2>0, <2>1, <3>1 DEF Own, Smooth, MakesNew, Holds, Locked
    <3>3. ~CanAdd
      BY <2>6, <2>g, StepNames DEF Add
    <3>4. entry = "locked"
      BY <2>0, <3>2, <3>3 DEF CanAdd, Pruned, TypeOK, Entries
    <3>5. ASSUME NEW r \in Requests, pc[r] = "adding" PROVE FALSE
      BY <2>0, <3>1, <3>2, <3>5 DEF Own, Holds, Locked
    <3>6. crashes > 0
      BY <2>0, <3>4, <3>5 DEF Unlocked, TypeOK
    <3> QED
      BY <3>1, <3>4, <3>6
  <2>7. CASE Sync(q) \/ Prepare(q) \/ Apply(q) \/ DropPatch(q)
    <3>1. pc[q] \in {"sync", "lockedSync", "prepare", "apply", "dropPatch"}
      BY <2>7 DEF Sync, Prepare, Apply, DropPatch
    <3>2. HasHead(tree')
      BY <2>0, <2>1, <2>2, <3>1 DEF Own, Smooth
    <3>3. ASSUME tree'.kind = "torn" PROVE crashes > 0 \/ BeingAdded
      <4>1. tree.kind = "torn"
        BY <2>0, <3>3, EnsureMarks
      <4>2. ASSUME NEW r \in Requests, pc[r] = "removing" PROVE FALSE
        BY <2>0, <3>1, <4>2 DEF Own, Solitary, DeleteSteps
      <4> QED
        BY <2>0, <2>1, <4>1, <4>2 DEF Whole, BeingAdded, TypeOK
    <3> QED
      BY <3>2, <3>3 DEF HasHead
  <2> QED
    BY <2>3, <2>4, <2>5, <2>6, <2>7 DEF EnsureStep
<1> QED
  BY <1>1, EnsureInvariance, PTL DEF Spec, EnsureRecovers
------------------------------------------------------------------------------
(* IInv is inductive: the rounds of trash and restore.                        *)

\* Nothing makes a run calm again.
LEMMA CalmBefore ==
  ASSUME EnsureInv, Next, Calm'
  PROVE  Calm
<1>0. TypeOK
  BY DEF EnsureInv
<1>1. ASSUME NEW q \in Requests, Call(q) PROVE Calm
  <2>1. Moves(q) /\ (~overlapped' => ~overlapped)
    BY <1>0, <1>1, RequestMoves, EnsureMoves, DeleteMoves
       DEF Call, RequestEnsure, RequestDelete
  <2> QED
    BY <1>0, <2>1 DEF Calm, Moves, TypeOK
<1>2. CASE AgentStep
  BY <1>0, <1>2, AgentDisk DEF Calm, counts, EnsureInv
<1>3. CASE BaseAdvances \/ Expire
  BY <1>3 DEF BaseAdvances, Expire, counts, Calm
<1>4. CASE Crash
  BY <1>0, <1>4 DEF Crash, Calm, TypeOK
<1> QED
  BY <1>1, <1>2, <1>3, <1>4 DEF Next, Call, AgentStep

\* What an ensure that is not making a worktree leaves as it is, and what it does
\* to the patches.
LEMMA EnsurePatches ==
  ASSUME TypeOK, NEW q \in Requests, EnsureStep(q)
  PROVE  /\ patches' \subseteq patches
         /\ pc[q] # "dropPatch" => patches' = patches
         /\ pc[q] \in {"look", "sync", "lockedSync", "lock", "relook", "resolve"} =>
              tree'.work = tree.work
         /\ pc[q] \in Steps \ DeleteSteps /\ pc[q] # "idle"
<1>1. CASE Look(q) \/ Lock(q) \/ LockTimesOut(q) \/ Relook(q) \/ Resolve(q)
  BY <1>1, StepNames DEF Look, Lock, LockTimesOut, Relook, Resolve, disk, DeleteSteps
<1>2. CASE Sync(q)
  <2>1. pc[q] \in {"sync", "lockedSync"} /\ patches' = patches /\ tree' \in Linked(tree)
    BY <1>2 DEF Sync
  <2>2. PICK t \in Linked(tree) : t = tree'
    BY <2>1
  <2>3. tree'.work = tree.work
    BY <2>2, LinkedTree
  <2> QED
    BY <2>1, <2>3, StepNames DEF DeleteSteps
<1>3. CASE Clear(q) \/ Clearing(q)
  BY <1>3, StepNames DEF Clear, Clearing, disk, RemovalBegins, RemovalEnds, DeleteSteps
<1>4. CASE Add(q) \/ Adding(q)
  BY <1>4, StepNames DEF Add, Adding, DeleteSteps
<1>5. CASE Prepare(q) \/ Unprepare(q)
  BY <1>5, StepNames DEF Prepare, Unprepare, disk, RemovalBegins, RemovalEnds, DeleteSteps
<1>6. CASE Apply(q)
  BY <1>6, StepNames DEF Apply, NotApplied, disk, DeleteSteps
<1>7. CASE DropPatch(q)
  BY <1>7, StepNames DEF DropPatch, DeleteSteps
<1> QED
  BY <1>1, <1>2, <1>3, <1>4, <1>5, <1>6, <1>7 DEF EnsureStep

\* A patch that was found is applied where nothing fails.
LEMMA FoundApplies ==
  ASSUME EnsureInv, CalmState, NEW q \in Requests, pc[q] \in {"apply", "dropPatch"}
  PROVE  Applies(q) /\ patches = {stored[q]}
<1>1. stored[q] \in Patch /\ stored[q] # NoPatch
  BY NoPatchAssumption DEF EnsureInv, Own, HasPatch
<1>2. patches = {stored[q]} /\ tree.kind = "worktree"
  BY <1>1 DEF CalmState, Rounds, FoundPatch, SetUp
<1> QED
  BY <1>2 DEF Applies

\* The patch an ensure has found, and the worktree it makes for it.
LEMMA EnsureRounds ==
  ASSUME EnsureInv, Calm, Calm', CalmState, NEW q \in Requests, EnsureStep(q)
  PROVE  FoundPatch(q)' /\ SetUp(q)'
<1>0. TypeOK /\ Own(q) /\ Rounds(q) /\ ~Fault
  BY DEF EnsureInv, CalmState, Calm, Fault
<1>a. \A ok \in BOOLEAN : Answer(q, ok) => pc'[q] = "idle"
  BY <1>0, MoveFacts
<1>g. \A step \in Steps : Go(q, step) => pc'[q] = step
  BY <1>0, MoveFacts
<1>i. ASSUME pc'[q] \in {"idle", "sync", "lock", "relook", "lockedSync", "resolve"}
      PROVE  FoundPatch(q)' /\ SetUp(q)'
  BY <1>i DEF FoundPatch, SetUp
<1>1. CASE Look(q) \/ Lock(q) \/ Relook(q)
  BY <1>1, <1>g, <1>i, StepNames DEF Look, Lock, Relook, AfterRelook
<1>2. CASE Sync(q) \/ LockTimesOut(q) \/ Unprepare(q) \/ DropPatch(q)
  BY <1>2, <1>a, <1>i DEF Sync, LockTimesOut, Unprepare, DropPatch
<1>3. CASE Resolve(q)
  <2>1. Go(q, "clear") /\ patches' = patches
    BY <1>0, <1>3 DEF Resolve, disk
  <2>2. pc'[q] = "clear"
    BY <2>1, <1>g, StepNames
  <2>3. CASE patches = {}
    <3>1. stored'[q] = NoPatch
      BY <1>0, <1>3, <2>3 DEF Resolve, TypeOK
    <3> QED
      BY <2>1, <2>2, <2>3, <3>1 DEF FoundPatch, SetUp
  <2>4. CASE patches # {}
    <3>1. PICK p \in patches : stored' = [stored EXCEPT ![q] = p]
      BY <1>0, <1>3, <2>4 DEF Resolve
    <3>2. stored'[q] = p /\ p # NoPatch
      BY <1>0, <3>1, NoPatchAssumption DEF TypeOK
    <3>3. patches = {p}
      BY <3>1 DEF CalmState, OnePatch
    <3> QED
      BY <2>1, <2>2, <3>2, <3>3 DEF FoundPatch, SetUp
  <2> QED
    BY <2>3, <2>4
<1>4. CASE Clear(q) \/ Clearing(q)
  <2>1. /\ stored' = stored /\ patches' = patches
        /\ pc[q] \in {"clear", "clearing"}
        /\ Go(q, "add") \/ Go(q, "clearing")
    BY <1>4 DEF Clear, Clearing, disk, RemovalBegins, RemovalEnds
  <2>2. pc'[q] \in {"add", "clearing"}
    BY <2>1, <1>g, StepNames
  <2> QED
    BY <1>0, <2>1, <2>2 DEF Rounds, FoundPatch, SetUp
<1>5. CASE Add(q)
  <2>1. CASE Answer(q, FALSE)
    BY <2>1, <1>a, <1>i
  <2>2. CASE Go(q, "adding") /\ UNCHANGED stored
    <3>1. pc[q] = "add" /\ pc'[q] = "adding" /\ patches' = patches
      BY <1>5, <2>2, <1>g, StepNames DEF Add
    <3> QED
      BY <1>0, <2>2, <3>1 DEF Rounds, FoundPatch, SetUp
  <2> QED
    BY <1>5, <2>1, <2>2 DEF Add
<1>8. CASE Adding(q)
  <2>1. /\ pc[q] = "adding" /\ stored' = stored /\ patches' = patches
        /\ tree' \in CheckedOut /\ Go(q, "prepare")
    BY <1>0, <1>8 DEF Adding
  <2>2. pc'[q] = "prepare"
    BY <2>1, <1>g, StepNames
  <2>3. ~Deleting
    BY <2>1, Undisturbed DEF EnsureInv, Calm, Locked
  <2>4. PICK t \in CheckedOut : t = tree'
    BY <2>1
  <2>5. tree'.kind = "worktree"
    BY <1>0, <2>3, <2>4, CheckedOutTree
  <2> QED
    BY <1>0, <2>1, <2>2, <2>5 DEF Rounds, FoundPatch, SetUp
<1>6. CASE Prepare(q)
  <2>1. CASE Answer(q, TRUE)
    BY <2>1, <1>a, <1>i
  <2>2. CASE Go(q, "apply") /\ UNCHANGED stored
    <3>1. /\ pc[q] = "prepare" /\ pc'[q] = "apply" /\ patches' = patches
          /\ tree' \in Linked(tree)
      BY <1>0, <1>6, <2>2, <1>g, StepNames DEF Prepare
    <3>2. tree.kind = "worktree"
      BY <1>0, <3>1 DEF Rounds, SetUp
    <3>3. PICK t \in Linked(tree) : t = tree'
      BY <3>1
    <3>4. tree' = tree
      BY <1>0, <3>2, <3>3, LinkedTree
    <3> QED
      BY <1>0, <2>2, <3>1, <3>2, <3>4 DEF Rounds, FoundPatch, SetUp
  <2> QED
    BY <1>0, <1>6, <2>1, <2>2 DEF Prepare
<1>7. CASE Apply(q)
  <2>1. CASE Answer(q, TRUE)
    BY <2>1, <1>a, <1>i
  <2>2. CASE /\ tree' = [tree EXCEPT !.work = @ \cup Contents(stored[q].commit)]
             /\ Go(q, "dropPatch") /\ UNCHANGED <<patches, stored>>
    <3>1. pc[q] = "apply" /\ pc'[q] = "dropPatch" /\ tree'.kind = tree.kind
      BY <1>0, <1>7, <2>2, <1>g, StepNames DEF Apply, TypeOK
    <3> QED
      BY <1>0, <2>2, <3>1 DEF Rounds, FoundPatch, SetUp
  <2> QED
    BY <1>7, <2>1, <2>2 DEF Apply, NotApplied
<1> QED
  BY <1>1, <1>2, <1>3, <1>4, <1>5, <1>6, <1>7, <1>8 DEF EnsureStep

\* After an ensure, a patch beside a worktree that is set up is spent.
LEMMA EnsureSpent ==
  ASSUME EnsureInv, Calm, Calm', CalmState, NEW q \in Requests, EnsureStep(q)
  PROVE  PatchIsSpent'
<1>0. /\ TypeOK /\ NoTreeNoWork /\ Own(q) /\ Rounds(q) /\ ~Fault
      /\ \A r \in Requests : Own(r)
  BY DEF EnsureInv, CalmState, Calm, Fault
<1>1. Moves(q) /\ EnsureEffect(q) /\ UNCHANGED <<discarded, committed>>
  BY <1>0, EnsureDisk, EnsureMoves DEF Moves
<1> SUFFICES ASSUME HasHead(tree'),
                    \A r \in Requests :
                      pc'[r] \notin {"adding", "prepare", "apply", "dropPatch", "removing"}
             PROVE  Saved' \subseteq tree'.work \cup committed' \cup discarded'
  BY DEF PatchIsSpent
<1>a. pc'[q] \notin {"adding", "prepare", "apply", "dropPatch", "removing"}
  OBVIOUS
<1>g. \A step \in Steps : Go(q, step) => pc'[q] = step
  BY <1>0, MoveFacts
<1>2. CASE pc[q] = "prepare"
  <2>1. Prepare(q)
    BY <1>2 DEF EnsureStep, Look, Sync, Lock, LockTimesOut, Relook, Resolve, Clear,
                Clearing, Add, Adding, Unprepare, Apply, DropPatch
  <2>2. stored[q] = NoPatch
    BY <1>0, <1>a, <1>g, <2>1, StepNames DEF Prepare
  <2>3. patches = {}
    BY <1>0, <1>2, <2>2 DEF Rounds, FoundPatch
  <2>4. patches' = {}
    BY <1>0, <2>3, EnsurePatches
  <2> QED
    BY <2>4 DEF Saved
<1>3. CASE pc[q] = "apply"
  <2>1. Apply(q)
    BY <1>3 DEF EnsureStep, Look, Sync, Lock, LockTimesOut, Relook, Resolve, Clear,
                Clearing, Add, Adding, Prepare, Unprepare, DropPatch
  <2>2. Applies(q)
    BY <1>3, FoundApplies
  <2> QED
    BY <1>0, <1>a, <1>g, <2>1, <2>2, StepNames DEF Apply
<1>4. CASE pc[q] = "dropPatch"
  <2>1. patches' = {p \in patches : p.commit # stored[q].commit}
    BY <1>4 DEF EnsureStep, Look, Sync, Lock, LockTimesOut, Relook, Resolve, Clear,
                Clearing, Add, Adding, Prepare, Unprepare, Apply, DropPatch
  <2>2. patches = {stored[q]}
    BY <1>4, FoundApplies
  <2>3. patches' = {}
    BY <2>1, <2>2
  <2> QED
    BY <2>3 DEF Saved
<1>5. CASE pc[q] = "add"
  <2>1. Add(q)
    BY <1>5 DEF EnsureStep, Look, Sync, Lock, LockTimesOut, Relook, Resolve, Clear,
                Clearing, Adding, Prepare, Unprepare, Apply, DropPatch
  <2>2. ~Go(q, "adding")
    BY <1>a, <1>g, StepNames
  <2>3. tree' = tree /\ ~HasHead(tree)
    BY <1>0, <1>5, <2>1, <2>2 DEF Add, Own, MakesNew
  <2> QED
    BY <2>3
<1>7. CASE pc[q] = "adding"
  <2>1. Adding(q)
    BY <1>7 DEF EnsureStep, Look, Sync, Lock, LockTimesOut, Relook, Resolve, Clear,
                Clearing, Add, Prepare, Unprepare, Apply, DropPatch
  <2> QED
    BY <1>0, <1>a, <1>g, <2>1, StepNames DEF Adding
<1>6. CASE pc[q] \notin {"add", "adding", "prepare", "apply", "dropPatch"}
  <2>1. HasHead(tree)
    BY <1>1, <1>6 DEF EnsureEffect
  <2>2. pc[q] \notin {"clear", "clearing", "unprepare"}
    BY <1>0, <2>1 DEF Own, MakesNew, Smooth, Calm
  <2>3. pc[q] \in {"look", "sync", "lockedSync", "lock", "relook", "resolve"}
    BY <1>0, <1>6, <2>2, EnsurePatches DEF Steps, Locked
  <2>4. tree'.work = tree.work /\ patches' = patches
    BY <1>0, <2>3, EnsurePatches
  <2>5. \A r \in Requests : pc[r] \notin {"adding", "prepare", "apply", "dropPatch", "removing"}
    BY <1>1, <2>3 DEF Moves
  <2>6. Saved \subseteq tree.work \cup committed \cup discarded
    BY <2>1, <2>5 DEF CalmState, PatchIsSpent
  <2>7. Saved' = Saved
    BY <2>4 DEF Saved
  <2> QED
    BY <1>1, <2>4, <2>6, <2>7
<1> QED
  BY <1>2, <1>3, <1>4, <1>5, <1>6, <1>7

LEMMA EnsureCalm ==
  ASSUME EnsureInv, Calm, Calm', CalmState, NEW q \in Requests, EnsureStep(q)
  PROVE  CalmState'
<1>0. TypeOK /\ NoTreeNoWork /\ Own(q) /\ Own(q)' /\ \A r \in Requests : Own(r)
  BY EnsureOwn DEF EnsureInv
<1>1. /\ Moves(q) /\ EnsureEffect(q)
      /\ UNCHANGED <<discarded, committed, made>>
  BY <1>0, EnsureDisk, EnsureMoves DEF Moves
<1>2. OnePatch'
  BY <1>0, EnsurePatches DEF CalmState, OnePatch
<1>3. Uncommitted' \subseteq Kept'
  <2>1. "unprepare" \notin {pc[q], pc'[q]}
    BY <1>0 DEF Own, Smooth, Calm
  <2>2. Kept \subseteq Kept' \cup committed
    BY <1>1, <2>1 DEF EnsureEffect, Calm
  <2>3. Uncommitted' = Uncommitted
    BY <1>1 DEF Uncommitted
  <2> QED
    BY <2>2, <2>3 DEF CalmState, Uncommitted
<1>4. ASSUME NEW r \in Requests, r # q PROVE Rounds(r)'
  <2>0. Rounds(r) /\ Own(r) /\ pc'[r] = pc[r] /\ stored'[r] = stored[r]
    BY <1>1, <1>4 DEF CalmState, EnsureInv, Moves
  <2>1. pc[r] \notin DeleteSteps
    BY <1>0, <1>4, <2>0, EnsurePatches DEF Own, Solitary, Calm
  <2>2. Captures(r)'
    BY <2>0, <2>1 DEF Captures, DeleteSteps
  <2>3. CASE pc[r] \in Locked
    <3>1. pc[q] \notin Locked
      BY <1>0, <1>4, <2>0, <2>3 DEF Own, Holds
    <3>2. tree' \in Linked(tree) /\ patches' = patches
      BY <1>1, <3>1 DEF EnsureEffect
    <3>3. PICK t \in Linked(tree) : t = tree'
      BY <3>2
    <3>4. tree.kind = "worktree" => tree' = tree
      BY <1>0, <3>3, LinkedTree
    <3> QED
      BY <2>0, <2>2, <3>2, <3>4 DEF Rounds, FoundPatch, SetUp
  <2>4. CASE pc[r] \notin Locked
    BY <2>0, <2>2, <2>4 DEF Rounds, FoundPatch, SetUp, Locked
  <2> QED
    BY <2>3, <2>4
<1>5. Rounds(q)'
  <2>1. pc'[q] \notin DeleteSteps
    <3>1. \A step \in Steps : Go(q, step) => pc'[q] = step
      BY <1>0, MoveFacts
    <3>2. \/ pc'[q] = "idle"
          \/ \E step \in {"sync", "lock", "relook", "lockedSync", "resolve", "clear",
                          "clearing", "add", "adding", "prepare", "unprepare", "apply",
                          "dropPatch"} : Go(q, step)
      <4>1. \A ok \in BOOLEAN : Answer(q, ok) => pc'[q] = "idle"
        BY <1>0, MoveFacts
      <4> QED
        BY <4>1 DEF EnsureStep, Look, Sync, Lock, LockTimesOut, Relook, AfterRelook,
           Resolve, Clear, Clearing, Add, Adding, Prepare, Unprepare, Apply, NotApplied,
           DropPatch
    <3> QED
      BY <3>1, <3>2, StepNames DEF DeleteSteps
  <2>2. Captures(q)'
    BY <2>1 DEF Captures, DeleteSteps
  <2> QED
    BY <2>2, EnsureRounds DEF Rounds
<1> QED
  BY <1>2, <1>3, <1>4, <1>5, EnsureSpent DEF CalmState
\* A delete that has the path to itself.
LEMMA DeleteCalm ==
  ASSUME EnsureInv, Calm, Calm', CalmState, NEW q \in Requests, DeleteStep(q)
  PROVE  CalmState'
<1>0. TypeOK /\ NoTreeNoWork /\ Own(q) /\ Rounds(q) /\ ~Fault
  BY DEF EnsureInv, CalmState, Calm, Fault
<1>1. /\ Moves(q) /\ UNCHANGED <<committed, made>>
      /\ pc[q] \in DeleteSteps /\ pc'[q] \in DeleteSteps \cup {"idle"}
  BY <1>0, DeleteDisk, DeleteMoves DEF Own, Moves
<1>2. \A r \in Requests \ {q} : pc[r] = "idle" /\ pc'[r] = "idle"
  BY <1>0, <1>1 DEF Own, Solitary, Calm, Moves
<1>3. ASSUME NEW r \in Requests, r # q PROVE Rounds(r)'
  BY <1>2, <1>3 DEF Rounds, FoundPatch, SetUp, Captures
<1>4. FoundPatch(q)' /\ SetUp(q)'
  BY <1>1 DEF FoundPatch, SetUp, DeleteSteps
<1>s. HasHead(tree) /\ pc[q] # "removing" =>
        Saved \subseteq tree.work \cup committed \cup discarded
  BY <1>1, <1>2 DEF CalmState, PatchIsSpent, DeleteSteps
<1>g. \A step \in Steps : Go(q, step) => pc'[q] = step
  BY <1>0, MoveFacts
<1>u. Uncommitted \subseteq tree.work \cup Saved
  BY DEF CalmState, Kept
<1>q. ASSUME OnePatch', PatchIsSpent', Uncommitted' \subseteq Kept', Captures(q)'
      PROVE  CalmState'
  BY <1>3, <1>4, <1>q DEF CalmState, Rounds
<1>d. ASSUME UNCHANGED disk, UNCHANGED discarded
      PROVE  /\ OnePatch' /\ Uncommitted' \subseteq Kept'
             /\ Saved' = Saved /\ tree' = tree /\ patches' = patches
             /\ HasHead(tree') <=> HasHead(tree)
  BY <1>d, <1>1 DEF CalmState, OnePatch, Uncommitted, Kept, Saved, disk, HasHead
<1>5. CASE Exists(q)
  <2>1. /\ UNCHANGED disk /\ UNCHANGED discarded /\ pc[q] = "exists"
        /\ Go(q, IF tree.kind = "absent" THEN "purge" ELSE "capture")
    BY <1>5 DEF Exists, Quiet, work
  <2>2. pc'[q] = (IF tree.kind = "absent" THEN "purge" ELSE "capture")
    BY <2>1, <1>g, StepNames
  <2>3. Captures(q)'
    BY <1>d, <2>1, <2>2 DEF Captures
  <2>4. PatchIsSpent'
    BY <1>d, <1>1, <1>s, <2>1 DEF PatchIsSpent
  <2> QED
    BY <1>d, <1>q, <2>1, <2>3, <2>4
<1>6. CASE Purge(q)
  <2>1. tree.kind = "absent" /\ tree' = tree /\ patches' = {} /\ pc'[q] = "idle"
    BY <1>0, <1>6, <1>g, StepNames DEF Purge, Rounds, Captures
  <2>2. tree.work = {} /\ ~HasHead(tree)
    BY <1>0, <2>1 DEF NoTreeNoWork, HasHead
  <2>3. discarded' = discarded \cup Saved
    BY <1>6, <2>1 DEF Purge
  <2>4. Uncommitted' = {}
    BY <1>1, <1>u, <2>2, <2>3 DEF Uncommitted
  <2>5. OnePatch' /\ PatchIsSpent' /\ Captures(q)'
    BY <2>1, <2>2 DEF OnePatch, PatchIsSpent, Captures
  <2> QED
    BY <1>q, <2>4, <2>5
<1>7. CASE Capture(q)
  <2>1. UNCHANGED disk /\ UNCHANGED discarded /\ pc[q] = "capture"
    BY <1>7 DEF Capture, Quiet, work
  <2>2. PatchIsSpent'
    BY <1>d, <1>1, <1>s, <2>1 DEF PatchIsSpent
  <2>3. CASE /\ HasHead(tree)
             /\ stored' = [stored EXCEPT ![q] = Captured]
             /\ Go(q, IF Differs(Captured) THEN "clearPatches" ELSE "clearOnly")
    <3>1. pc'[q] = (IF Differs(Captured) THEN "clearPatches" ELSE "clearOnly")
      BY <2>3, <1>g, StepNames
    <3>2. stored'[q].work = tree.work
      BY <1>0, <2>3 DEF TypeOK, Captured
    <3>3. ~Differs(Captured) => tree.work = {}
      BY DEF Differs, Captured
    <3>4. Captures(q)'
      BY <1>d, <2>1, <2>3, <3>1, <3>2, <3>3 DEF Captures
    <3> QED
      BY <1>d, <1>q, <2>1, <2>2, <3>4
  <2>4. CASE ~HasHead(tree) /\ Go(q, "remove")
    <3>1. pc'[q] = "remove" /\ tree.work = {}
      BY <1>0, <2>4, <1>g, StepNames DEF NoTreeNoWork
    <3>2. Captures(q)'
      BY <1>d, <2>1, <3>1 DEF Captures
    <3> QED
      BY <1>d, <1>q, <2>1, <2>2, <3>2
  <2> QED
    BY <1>0, <1>7, <2>3, <2>4 DEF Capture
<1>8. CASE ClearPatches(q)
  <2>1. /\ tree' = tree /\ patches' = {} /\ stored' = stored /\ discarded' = discarded
        /\ pc[q] \in {"clearPatches", "clearOnly"}
        /\ pc'[q] = (IF pc[q] = "clearPatches" THEN "writePatch" ELSE "remove")
    BY <1>8, <1>g, StepNames DEF ClearPatches, Quiet, work
  <2>2. HasHead(tree)
    BY <1>0, <2>1 DEF Rounds, Captures
  <2>3. Uncommitted' \subseteq Kept'
    BY <1>1, <1>s, <1>u, <2>1, <2>2 DEF Uncommitted, Kept
  <2>4. Saved' = {}
    BY <2>1 DEF Saved
  <2>5. Captures(q)'
    BY <1>0, <2>1, <2>2, <2>4 DEF Rounds, Captures, HasHead
  <2>6. OnePatch' /\ PatchIsSpent'
    BY <2>1, <2>4 DEF OnePatch, PatchIsSpent
  <2> QED
    BY <1>q, <2>3, <2>5, <2>6
<1>9. CASE WritePatch(q)
  <2>1. /\ tree' = tree /\ discarded' = discarded /\ pc[q] = "writePatch"
        /\ pc'[q] = "remove"
        /\ patches' = {p \in patches : p.commit # stored[q].commit} \cup {stored[q]}
    BY <1>0, <1>9, <1>g, StepNames DEF WritePatch, Quiet, work
  <2>2. patches = {} /\ stored[q].work = tree.work
    BY <1>0, <2>1 DEF Rounds, Captures
  <2>3. patches' = {stored[q]}
    BY <2>1, <2>2
  <2>4. Saved' = tree.work /\ Saved = {}
    BY <2>2, <2>3 DEF Saved
  <2>5. Uncommitted' \subseteq Kept'
    BY <1>1, <1>u, <2>1, <2>4 DEF Uncommitted, Kept
  <2>6. OnePatch' /\ PatchIsSpent' /\ Captures(q)'
    BY <2>1, <2>3, <2>4 DEF OnePatch, PatchIsSpent, Captures
  <2> QED
    BY <1>q, <2>5, <2>6
<1>10. CASE Remove(q)
  <2>1. discarded' = discarded /\ pc[q] = "remove" /\ pc'[q] = "removing"
    BY <1>10, <1>g, StepNames DEF Remove, Quiet, work
  <2>2. tree.work \subseteq Saved
    BY <1>0, <2>1 DEF Rounds, Captures
  <2>3. tree'.work = {} /\ patches' = patches
    <3>1. CASE tree.kind = "absent"
      BY <1>0, <1>10, <3>1 DEF Remove, disk, NoTreeNoWork, HasHead
    <3>2. CASE tree.kind # "absent"
      BY <1>0, <1>10, <3>2, RemovedDisk DEF Remove
    <3> QED
      BY <3>1, <3>2
  <2>4. Uncommitted' \subseteq Kept'
    BY <1>1, <1>u, <2>1, <2>2, <2>3 DEF Uncommitted, Kept, Saved
  <2>5. OnePatch' /\ PatchIsSpent' /\ Captures(q)'
    BY <2>1, <2>3 DEF CalmState, OnePatch, PatchIsSpent, Captures
  <2> QED
    BY <1>q, <2>4, <2>5
<1>11. CASE Removing(q)
  <2>1. /\ discarded' = discarded /\ pc[q] = "removing" /\ pc'[q] = "idle"
        /\ tree' = NoTree /\ patches' = patches
    BY <1>11, <1>g, StepNames DEF Removing, RemovalEnds, Quiet, work
  <2>2. tree.work = {}
    BY <1>0, <2>1 DEF Rounds, Captures
  <2>3. Uncommitted' \subseteq Kept'
    BY <1>1, <1>u, <2>1, <2>2 DEF Uncommitted, Kept, Saved
  <2>4. OnePatch' /\ PatchIsSpent' /\ Captures(q)'
    BY <2>1, NoTreeType DEF CalmState, OnePatch, PatchIsSpent, Captures
  <2> QED
    BY <1>q, <2>3, <2>4
<1> QED
  BY <1>5, <1>6, <1>7, <1>8, <1>9, <1>10, <1>11 DEF DeleteStep

LEMMA RequestCalm ==
  ASSUME EnsureInv, CalmState, NEW q \in Requests, RequestEnsure(q) \/ RequestDelete(q)
  PROVE  CalmState'
<1>0. TypeOK
  BY DEF EnsureInv
<1>1. /\ Moves(q) /\ pc[q] = "idle" /\ pc'[q] \in {"look", "exists"}
      /\ UNCHANGED <<tree, patches, stored, made, committed, discarded>>
  BY <1>0, RequestMoves DEF RequestEnsure, RequestDelete, disk, work
<1>2. UNCHANGED <<Saved, Kept, Uncommitted>> /\ (HasHead(tree') <=> HasHead(tree))
  BY <1>1 DEF Saved, Kept, Uncommitted, HasHead
<1>3. OnePatch' /\ PatchIsSpent' /\ Uncommitted' \subseteq Kept'
  BY <1>1, <1>2 DEF CalmState, OnePatch, PatchIsSpent, Moves
<1>4. ASSUME NEW r \in Requests PROVE Rounds(r)'
  <2>1. CASE r = q
    BY <1>1, <2>1 DEF Rounds, FoundPatch, SetUp, Captures
  <2>2. CASE r # q
    <3>1. Rounds(r) /\ pc'[r] = pc[r]
      BY <1>1, <2>2 DEF CalmState, Moves
    <3> QED
      BY <1>1, <1>2, <3>1 DEF Rounds, FoundPatch, SetUp, Captures
  <2> QED
    BY <2>1, <2>2
<1> QED
  BY <1>3, <1>4 DEF CalmState

\* The agent's work and commits are where the patches count on them.
LEMMA AgentCalm ==
  ASSUME EnsureInv, Calm, Calm', CalmState, AgentStep
  PROVE  CalmState'
<1>0. TypeOK /\ NoTreeNoWork
  BY DEF EnsureInv
<1>1. /\ UNCHANGED <<patches, pc, stored, discarded>>
      /\ tree'.kind = tree.kind
      /\ tree.work \cup committed \subseteq tree'.work \cup committed'
      /\ committed \subseteq committed'
  BY <1>0, AgentDisk
<1>2. Saved' = Saved /\ (HasHead(tree') <=> HasHead(tree))
  BY <1>1 DEF Saved, HasHead
<1>3. Uncommitted' \subseteq Kept'
  <2>1. CASE AgentWorks
    <3>1. made' = made + 1 /\ tree'.work = tree.work \cup {made + 1} /\ made \in Nat
            /\ committed' = committed
      BY <1>0, <2>1 DEF AgentWorks, TypeOK
    <3>2. 1..made' = (1..made) \cup {made + 1}
      BY <3>1
    <3> QED
      BY <1>1, <1>2, <3>1, <3>2 DEF CalmState, Uncommitted, Kept
  <2>2. CASE ~AgentWorks
    <3>1. made' = made
      BY <2>2 DEF AgentStep, AgentCommits, AgentEnds
    <3> QED
      BY <1>1, <1>2, <3>1 DEF CalmState, Uncommitted, Kept
  <2> QED
    BY <2>1, <2>2
<1>4. OnePatch' /\ PatchIsSpent'
  BY <1>1, <1>2 DEF CalmState, OnePatch, PatchIsSpent
<1>5. ASSUME NEW r \in Requests PROVE Rounds(r)'
  <2>0. Rounds(r)
    BY DEF CalmState
  <2>1. FoundPatch(r)' /\ SetUp(r)'
    BY <1>1, <2>0 DEF Rounds, FoundPatch, SetUp
  <2>2. CASE AgentEnds
    <3>1. tree' = tree
      BY <2>2 DEF AgentEnds, disk
    <3> QED
      BY <1>1, <1>2, <2>0, <2>1, <3>1 DEF Rounds, Captures
  <2>3. CASE AgentWorks \/ AgentCommits
    <3>1. ~Deleting
      BY <2>3 DEF AgentWorks, AgentCommits, Calm
    <3>2. pc[r] \notin DeleteSteps
      BY <3>1 DEF Deleting, Active, DeleteSteps
    <3> QED
      BY <1>1, <2>1, <3>2 DEF Rounds, Captures, DeleteSteps
  <2> QED
    BY <2>2, <2>3 DEF AgentStep
<1> QED
  BY <1>3, <1>4, <1>5 DEF CalmState

LEMMA StutterCalm ==
  ASSUME CalmState, UNCHANGED <<tree, patches, pc, stored, made, committed, discarded>>
  PROVE  CalmState'
<1>1. UNCHANGED <<Saved, Kept, Uncommitted>> /\ (HasHead(tree') <=> HasHead(tree))
  BY DEF Saved, Kept, Uncommitted, HasHead
<1>2. OnePatch' /\ PatchIsSpent' /\ Uncommitted' \subseteq Kept'
  BY <1>1 DEF CalmState, OnePatch, PatchIsSpent
<1>3. ASSUME NEW r \in Requests PROVE Rounds(r)'
  BY <1>1 DEF CalmState, Rounds, FoundPatch, SetUp, Captures
<1> QED
  BY <1>2, <1>3 DEF CalmState

LEMMA InitInv == Init => IInv
<1> SUFFICES ASSUME Init PROVE IInv
  OBVIOUS
<1>1. /\ \A q \in Requests : pc[q] = "idle"
      /\ patches = {} /\ made = 0
  BY DEF Init
<1>2. Saved = {} /\ Uncommitted = {}
  BY <1>1 DEF Saved, Uncommitted
<1>3. \A q \in Requests : Rounds(q)
  BY <1>1 DEF Rounds, FoundPatch, SetUp, Captures
<1> QED
  BY <1>1, <1>2, <1>3, InitEnsure DEF IInv, CalmInv, CalmState, OnePatch, PatchIsSpent

LEMMA StepInv == IInv /\ [Next]_vars => IInv'
<1> SUFFICES ASSUME IInv, [Next]_vars PROVE IInv'
  OBVIOUS
<1>0. EnsureInv /\ EnsureInv'
  BY StepEnsure DEF IInv
<1> SUFFICES ASSUME Calm' PROVE CalmState'
  BY <1>0 DEF IInv, CalmInv
<1>1. CASE UNCHANGED vars
  <2>1. Calm
    BY <1>1 DEF vars, Calm
  <2> QED
    BY <1>1, <2>1, StutterCalm DEF vars, IInv, CalmInv
<1>2. CASE Next
  <2>1. Calm /\ CalmState
    BY <1>0, <1>2, CalmBefore DEF IInv, CalmInv
  <2>2. ASSUME NEW q \in Requests, Call(q) PROVE CalmState'
    BY <1>0, <2>1, <2>2, RequestCalm, EnsureCalm, DeleteCalm DEF Call
  <2>3. CASE AgentStep
    BY <1>0, <2>1, <2>3, AgentCalm
  <2>4. CASE BaseAdvances \/ Expire
    BY <2>1, <2>4, StutterCalm DEF BaseAdvances, Expire, disk, work
  <2>5. ~Crash
    BY <1>0, <2>1 DEF Crash, Calm
  <2> QED
    BY <1>2, <2>2, <2>3, <2>4, <2>5 DEF Next, Call, AgentStep
<1> QED
  BY <1>1, <1>2

THEOREM Invariance == Spec => []IInv
  BY InitInv, StepInv, PTL DEF Spec

\* Trashing and restoring a task lose nothing, in any number of rounds.
THEOREM RoundsKeepWork == Spec => []WorkIsKept
<1>1. IInv => WorkIsKept
  BY DEF IInv, CalmInv, CalmState, Calm, WorkIsKept
<1> QED
  BY <1>1, Invariance, PTL
==============================================================================
