---------------------------- MODULE RunCode_proofs ----------------------------
(***************************************************************************)
(* Proofs about RunCode, for any number of nested calls, any budget and    *)
(* any files: each call is charged once, calls that exclude each other run *)
(* in the order of the program, and the record says what the worktree is.  *)
(***************************************************************************)
EXTENDS RunCode, FiniteSetTheorems, TLAPS

Types ==
  /\ presentation \in {"code", "dsh-compatible"}
  /\ stage \in Stages
  /\ outcome \in Outcomes
  /\ deadline \in BOOLEAN
  /\ toolCalls \in Nat
  /\ rejectedToolCalls \in Nat
  /\ terminal \in Terminals
  /\ directWrites \in 0 .. MaxDirectWrites
  /\ orphan \in BOOLEAN

FileTypes ==
  /\ tree \in Trees
  /\ owned \in [Paths -> Contents \cup {None}]
  /\ envelope \in Envelope
  /\ lastMutation \in 0 .. MaxCalls \cup {None}
  /\ obligation \in {"none", "verification-due", "repair-due"}
  /\ verified \in Trees \cup {None}

CallTypes == calls \in Seq(Call) /\ Len(calls) <= MaxCalls

\* A call has a status once it has returned, and a checkpoint at its end.
Fits(c) ==
  /\ c.at \in {"pending", "queued", "running", "writing"} => c.status = "none"
  /\ c.at \in Waiting \cup Active => c.seal = None
  /\ c.at \in {"counted", "logged"} => c.kind = "mutation" /\ c.status \in {"ok", "rejected"}
  /\ c.at = "writing" => c.kind = "mutation"
  /\ c.at \in {"pending", "settled", "counted"} => Dsh
  /\ c.at = "queued" => ~Dsh

CallsFit == \A n \in Ids : Fits(calls[n])

\* Each result is in one of the two counters, from the moment it is there.
Ledger ==
  /\ rejectedToolCalls = LedgerRejectedToolCalls
  /\ toolCalls = LedgerToolCalls

\* The calls that will still be charged to the tool budget.
Uncounted == {n \in Ids : calls[n].at \in {"queued", "running", "writing"}}

BudgetReserved == toolCalls + Cardinality(Uncounted) <= MaxToolCalls

PendingLast ==
  \A m \in Ids : \A n \in 1 .. m - 1 : calls[n].at = "pending" => calls[m].at = "pending"

\* The last mutation of the record, other than the action itself, has a
\* checkpoint, is about to, or was refused.
LastIsSealed ==
  lastMutation \notin {None, 0} =>
    /\ lastMutation \in Ids
    /\ \/ calls[lastMutation].at = "logged"
       \/ calls[lastMutation].seal \in Trees
       \/ calls[lastMutation].kind = "mutation" /\ calls[lastMutation].status = "refused"

RefusedMutation == \E n \in Ids : calls[n].kind = "mutation" /\ calls[n].status = "refused"

\* Without a scheduler, only nested mutations change the worktree, as far as it is
\* noticed.
TreeIsSealed ==
  ~Dsh =>
    /\ lastMutation # 0 /\ envelope.affected = {}
    /\ RefusedMutation \/ Unattributed
       \/ IF lastMutation = None THEN tree = Untouched
          ELSE calls[lastMutation].at = "logged" \/ calls[lastMutation].seal = tree

TreeIsVerified ==
  ~Dsh /\ obligation = "none" /\ verified # None => Unattributed \/ tree = verified

\* The calls are over before the action looks at the worktree.
Closed == stage \notin {"running", "draining", "crashed"} => Drained

\* What the action found in the worktree is still so.
Looked == outcome = "returned" \/ ~deadline

Found ==
  Dsh /\ ~orphan /\ Looked =>
    /\ stage = "recording" =>
         /\ envelope.affected = DirectlyAffected
         /\ outcome = "returned" => envelope.status = "ok"
    /\ stage \in {"sealing", "over"} =>
         IF envelope.affected = {} THEN DirectlyAffected = {}
         ELSE /\ lastMutation = 0
              /\ outcome = "returned" => obligation = "verification-due"
              /\ stage = "over" /\ ~deadline => envelope.seal = tree

\* The last mutation of the record is the action itself once its result says so.
OwnResult ==
  lastMutation = 0 => stage \in {"sealing", "over"} /\ envelope.affected # {}

IInv ==
  /\ Types /\ FileTypes /\ CallTypes /\ CallsFit
  /\ Ledger /\ BudgetReserved
  /\ InSubmissionOrder /\ PendingLast
  /\ LastIsSealed /\ TreeIsSealed /\ TreeIsVerified
  /\ Closed /\ Found /\ OwnResult
------------------------------------------------------------------------------
(* A step changes one call, or adds one.                                   *)

Change(n, c) ==
  /\ n \in Nat /\ n > 0
  /\ n \in Ids \/ n = Len(calls) + 1
  /\ calls' \in Seq(Call) /\ Len(calls') <= MaxCalls
  /\ 1 .. Len(calls') = Ids \cup {n}
  /\ calls'[n] = c
  /\ \A m \in Ids : m # n => calls'[m] = calls[m]
  /\ n \in Ids => c.kind = calls[n].kind

LEMMA UpdateChanges ==
    ASSUME CallTypes, NEW n \in Ids, NEW c \in Call, c.kind = calls[n].kind,
           calls' = [calls EXCEPT ![n] = c]
    PROVE  Change(n, c)
<1>1. /\ calls' \in Seq(Call) /\ Len(calls') = Len(calls)
      /\ calls'[n] = c
      /\ \A m \in Ids : m # n => calls'[m] = calls[m]
  BY DEF CallTypes, Ids
<1> QED
  BY <1>1 DEF Change, CallTypes, Ids

LEMMA AppendChanges ==
    ASSUME CallTypes, NEW c \in Call, Len(calls) < MaxCalls, calls' = Append(calls, c),
           MaxCalls \in Nat
    PROVE  Change(Len(calls) + 1, c)
<1>1. /\ calls' \in Seq(Call) /\ Len(calls') = Len(calls) + 1
      /\ calls'[Len(calls) + 1] = c
      /\ \A m \in Ids : calls'[m] = calls[m]
  BY DEF CallTypes, Ids
<1>2. Len(calls) \in Nat /\ Len(calls) + 1 <= MaxCalls
  BY DEF CallTypes
<1>3. 1 .. Len(calls') = Ids \cup {Len(calls) + 1} /\ Len(calls) + 1 \notin Ids
  BY <1>1, <1>2 DEF Ids
<1> QED
  BY <1>1, <1>2, <1>3 DEF Change

LEMMA Finite ==
    ASSUME CallTypes
    PROVE  /\ IsFiniteSet(Ids) /\ Cardinality(Ids) = Len(calls)
           /\ \A T \in SUBSET Ids : IsFiniteSet(T) /\ Cardinality(T) \in Nat
           /\ \A T \in SUBSET Ids : Cardinality(T) <= Len(calls)
<1>1. Len(calls) \in Nat
  BY DEF CallTypes
<1>2. IsFiniteSet(Ids) /\ Cardinality(Ids) = Len(calls)
  BY <1>1, FS_Interval DEF Ids
<1>3. ASSUME NEW T \in SUBSET Ids
      PROVE  IsFiniteSet(T) /\ Cardinality(T) \in Nat /\ Cardinality(T) <= Len(calls)
  BY <1>2, FS_Subset, FS_CardinalityType
<1> QED
  BY <1>2, <1>3

\* How many calls there are of a kind that the change puts n in or takes n out of.
LEMMA Counting ==
    ASSUME CallTypes, NEW n, NEW T \in SUBSET Ids
    PROVE  /\ n \notin T => Cardinality(T \cup {n}) = Cardinality(T) + 1
           /\ n \in T => /\ T \cup {n} = T
                         /\ Cardinality(T \ {n}) = Cardinality(T) - 1
           /\ n \notin T => T \ {n} = T
           /\ Cardinality(T) \in Nat
<1>1. IsFiniteSet(T) /\ Cardinality(T) \in Nat
  BY Finite
<1>2. Cardinality(T \cup {n}) = IF n \in T THEN Cardinality(T) ELSE Cardinality(T) + 1
  BY <1>1, FS_AddElement
<1>3. Cardinality(T \ {n}) = IF n \in T THEN Cardinality(T) - 1 ELSE Cardinality(T)
  BY <1>1, FS_RemoveElement
<1> QED
  BY <1>1, <1>2, <1>3

LEMMA ResultsChange ==
    ASSUME CallTypes, NEW n, NEW c \in Call, Change(n, c), NEW S
    PROVE  /\ Results(S)' = IF c.status \in S THEN Results(S) \cup {n} ELSE Results(S) \ {n}
           /\ Results(S) \in SUBSET Ids
<1>1. Results(S)' = {m \in Ids \cup {n} : calls'[m].status \in S}
  BY DEF Results, Ids, Change
<1>2. \A m \in Ids \cup {n} :
        calls'[m].status \in S <=> IF m = n THEN c.status \in S ELSE m \in Results(S)
  BY DEF Results, Change
<1>3. Results(S) \in SUBSET Ids
  BY DEF Results
<1> QED
  BY <1>1, <1>2, <1>3

LEMMA UncountedChanges ==
    ASSUME CallTypes, NEW n, NEW c \in Call, Change(n, c)
    PROVE  /\ Uncounted' = IF c.at \in {"queued", "running", "writing"}
                           THEN Uncounted \cup {n} ELSE Uncounted \ {n}
           /\ Uncounted \in SUBSET Ids
<1>1. Uncounted' = {m \in Ids \cup {n} : calls'[m].at \in {"queued", "running", "writing"}}
  BY DEF Uncounted, Ids, Change
<1>2. \A m \in Ids \cup {n} :
        calls'[m].at \in {"queued", "running", "writing"}
          <=> IF m = n THEN c.at \in {"queued", "running", "writing"} ELSE m \in Uncounted
  BY DEF Uncounted, Change
<1>3. Uncounted \in SUBSET Ids
  BY DEF Uncounted
<1> QED
  BY <1>1, <1>2, <1>3

Charged == {"ok", "error", "rejected", "refused"}

\* A call that had no charged status and gets none, or keeps the one it has.
LEMMA LedgerKept ==
    ASSUME CallTypes, Ledger, NEW n, NEW c \in Call, Change(n, c),
           IF n \in Ids /\ calls[n].status \in Charged THEN c.status = calls[n].status
           ELSE c.status \notin Charged,
           UNCHANGED <<toolCalls, rejectedToolCalls>>
    PROVE  Ledger'
<1>1. ASSUME NEW S \in SUBSET Charged
      PROVE  Results(S)' = Results(S)
  <2>1. n \in Results(S) <=> c.status \in S
    BY DEF Results
  <2> QED
    BY <2>1, ResultsChange
<1>2. /\ Results({"ok", "error"})' = Results({"ok", "error"})
      /\ Results({"rejected", "refused"})' = Results({"rejected", "refused"})
  BY <1>1 DEF Charged
<1> QED
  BY <1>2 DEF Ledger, LedgerToolCalls, LedgerRejectedToolCalls

\* A call gets its charged status, and is charged.
LEMMA LedgerCharges ==
    ASSUME CallTypes, Ledger, NEW n, NEW c \in Call, Change(n, c),
           n \in Ids => calls[n].status \notin Charged,
           \/ /\ c.status \in {"ok", "error"}
              /\ toolCalls' = toolCalls + 1 /\ UNCHANGED rejectedToolCalls
           \/ /\ c.status \in {"rejected", "refused"}
              /\ rejectedToolCalls' = rejectedToolCalls + 1 /\ UNCHANGED toolCalls
    PROVE  Ledger'
<1> DEFINE A == Results({"ok", "error"})
           R == Results({"rejected", "refused"})
<1>1. n \notin A /\ n \notin R
  BY DEF Results, Charged
<1>2. /\ A' = IF c.status \in {"ok", "error"} THEN A \cup {n} ELSE A \ {n}
      /\ R' = IF c.status \in {"rejected", "refused"} THEN R \cup {n} ELSE R \ {n}
      /\ A \in SUBSET Ids /\ R \in SUBSET Ids
  BY ResultsChange
<1>3. toolCalls = Cardinality(A) /\ rejectedToolCalls = Cardinality(R)
  BY DEF Ledger, LedgerToolCalls, LedgerRejectedToolCalls
<1> HIDE DEF A, R
<1>4. /\ Cardinality(A \cup {n}) = Cardinality(A) + 1 /\ A \ {n} = A
      /\ Cardinality(R \cup {n}) = Cardinality(R) + 1 /\ R \ {n} = R
  BY <1>1, <1>2, Counting
<1>5. toolCalls' = Cardinality(A') /\ rejectedToolCalls' = Cardinality(R')
  <2>1. CASE c.status \in {"ok", "error"}
    BY <1>2, <1>3, <1>4, <2>1
  <2>2. CASE c.status \in {"rejected", "refused"}
    BY <1>2, <1>3, <1>4, <2>2
  <2> QED
    BY <2>1, <2>2
<1> QED
  BY <1>5 DEF A, R, Ledger, LedgerToolCalls, LedgerRejectedToolCalls
\* A call gets no reservation it did not have, and is charged at most once.
LEMMA BudgetKept ==
    ASSUME CallTypes, BudgetReserved, MaxToolCalls \in Nat, toolCalls \in Nat,
           NEW n, NEW c \in Call, Change(n, c),
           \/ c.at \notin {"queued", "running", "writing"} /\ UNCHANGED toolCalls
           \/ n \in Uncounted /\ UNCHANGED toolCalls
           \/ /\ n \in Uncounted /\ c.at \notin {"queued", "running", "writing"}
              /\ toolCalls' \in {toolCalls, toolCalls + 1}
    PROVE  BudgetReserved'
<1>1. /\ Uncounted' = IF c.at \in {"queued", "running", "writing"}
                      THEN Uncounted \cup {n} ELSE Uncounted \ {n}
      /\ Uncounted \in SUBSET Ids
  BY UncountedChanges
<1>2. /\ n \in Uncounted => /\ Uncounted \cup {n} = Uncounted
                            /\ Cardinality(Uncounted \ {n}) = Cardinality(Uncounted) - 1
      /\ n \notin Uncounted => Uncounted \ {n} = Uncounted
      /\ Cardinality(Uncounted) \in Nat
  BY <1>1, Counting
<1>3. \/ Cardinality(Uncounted') = Cardinality(Uncounted) /\ toolCalls' = toolCalls
      \/ /\ Cardinality(Uncounted') = Cardinality(Uncounted) - 1
         /\ toolCalls' \in {toolCalls, toolCalls + 1}
  BY <1>1, <1>2
<1> QED
  BY <1>2, <1>3 DEF BudgetReserved

\* A call is dispatched when the budget, less what is reserved, has room for it.
LEMMA BudgetTaken ==
    ASSUME CallTypes, BudgetLeft, MaxToolCalls \in Nat, toolCalls \in Nat,
           NEW n, NEW c \in Call, Change(n, c), UNCHANGED toolCalls
    PROVE  BudgetReserved'
<1>1. /\ Uncounted' \subseteq Uncounted \cup {n}
      /\ Uncounted \in SUBSET Ids
  BY UncountedChanges
<1>2. /\ IsFiniteSet(Uncounted \cup {n})
      /\ Cardinality(Uncounted \cup {n}) <= Cardinality(Uncounted) + 1
      /\ Cardinality(Uncounted \cup {n}) \in Nat /\ Cardinality(Uncounted) \in Nat
  <2>1. IsFiniteSet(Uncounted) /\ Cardinality(Uncounted) \in Nat
    BY <1>1, Finite
  <2>2. /\ IsFiniteSet(Uncounted \cup {n})
        /\ Cardinality(Uncounted \cup {n})
             = IF n \in Uncounted THEN Cardinality(Uncounted) ELSE Cardinality(Uncounted) + 1
    BY <2>1, FS_AddElement
  <2> QED
    BY <2>1, <2>2
<1>3. Cardinality(Uncounted') <= Cardinality(Uncounted \cup {n}) /\ Cardinality(Uncounted') \in Nat
  BY <1>1, <1>2, FS_Subset, FS_CardinalityType
<1>4. Cardinality(Uncounted) <= Cardinality(Reserved) /\ Cardinality(Reserved) \in Nat
  <2>1. Reserved \in SUBSET Ids /\ Uncounted \in SUBSET Reserved
    BY DEF Reserved, Uncounted, Active
  <2>2. IsFiniteSet(Reserved) /\ Cardinality(Reserved) \in Nat
    BY <2>1, Finite
  <2> QED
    BY <2>1, <2>2, FS_Subset
<1>5. Cardinality(Uncounted') <= Cardinality(Reserved) + 1
  BY <1>2, <1>3, <1>4
<1> QED
  BY <1>3, <1>4, <1>5 DEF BudgetReserved, BudgetLeft

LEMMA FitKept ==
    ASSUME CallTypes, CallsFit, NEW n, NEW c \in Call, Change(n, c), Fits(c),
           UNCHANGED presentation
    PROVE  CallsFit'
<1>1. ASSUME NEW m \in 1 .. Len(calls')
      PROVE  Fits(calls'[m])
  <2>1. CASE m = n
    BY <2>1 DEF Change
  <2>2. CASE m # n
    BY <2>2 DEF Change, CallsFit
  <2> QED
    BY <2>1, <2>2
<1>2. \A x : Fits(x)' <=> Fits(x)
  BY DEF Fits, Dsh
<1> QED
  BY <1>1, <1>2 DEF CallsFit, Ids, Fits, Dsh

\* The calls that exclude each other.
Excludes(x, y) ==
  IF Dsh THEN x.kind # "retrieval" \/ y.kind # "retrieval"
  ELSE x.kind = "mutation" /\ y.kind = "mutation"

\* A call becomes active when those that exclude it are finished, and leaves the
\* pending ones when it is the first of them.
LEMMA OrderKept ==
    ASSUME CallTypes, CallsFit, InSubmissionOrder, PendingLast,
           NEW n, NEW c \in Call, Change(n, c), UNCHANGED presentation,
           n \in Ids /\ calls[n].at \in Finished => c.at \in Finished,
           c.at \in Active /\ ~(n \in Ids /\ calls[n].at \in Active) =>
             \A k \in 1 .. n - 1 : Excludes(calls[k], c) => calls[k].at \in Finished,
           IF n \in Ids THEN c.at # "pending" /\ (calls[n].at = "pending" => First(n))
           ELSE c.at = "pending" <=> Dsh
    PROVE  InSubmissionOrder' /\ PendingLast'
<1> DEFINE cs == calls'
<1>1. /\ n \in Nat /\ n > 0 /\ cs[n] = c
      /\ \A m \in Ids : m # n => cs[m] = calls[m]
      /\ n \notin Ids => n = Len(calls) + 1
      /\ n \in Ids => c.kind = calls[n].kind
      /\ 1 .. Len(cs) = Ids \cup {n}
  BY DEF Change
<1>2. Len(calls) \in Nat /\ \A m \in Ids : m \in Nat
  BY DEF CallTypes, Ids
<1>3. ASSUME NEW m \in Ids, NEW k \in 1 .. m - 1
      PROVE  /\ k \in Ids
             /\ calls[m].at \in Active /\ Excludes(calls[k], calls[m]) => calls[k].at \in Finished
             /\ calls[k].at = "pending" => calls[m].at = "pending"
  <2>1. k \in Ids
    BY <1>2 DEF Ids
  <2> QED
    BY <2>1 DEF InSubmissionOrder, PendingLast, Excludes, Exclusive
<1>4. ASSUME NEW m \in Ids \cup {n}, NEW k \in 1 .. m - 1
      PROVE  /\ k \in Ids \cup {n}
             /\ cs[m].at \in Active /\ Excludes(cs[k], cs[m]) => cs[k].at \in Finished
             /\ cs[k].at = "pending" => cs[m].at = "pending"
  <2>1. CASE m # n /\ k # n
    BY <1>1, <1>3, <2>1
  <2>2. CASE m # n /\ k = n
    <3>1. m \in Ids /\ n \in Ids
      BY <1>1, <1>2, <1>3, <2>2
    <3>2. Excludes(c, calls[m]) => Excludes(calls[n], calls[m])
      BY <1>1, <3>1 DEF Excludes
    <3> QED
      BY <1>1, <1>3, <2>2, <3>1, <3>2
  <2>3. CASE m = n
    <3>1. k \in Ids /\ k # n
      BY <1>1, <1>2, <2>3 DEF Ids
    <3>2. c.at \in Active /\ Excludes(calls[k], c) => calls[k].at \in Finished
      <4>1. n \in Ids => (Excludes(calls[k], c) <=> Excludes(calls[k], calls[n]))
        BY <1>1 DEF Excludes
      <4> QED
        BY <1>3, <2>3, <4>1
    <3>3. calls[k].at = "pending" => c.at = "pending"
      <4>1. CASE n \in Ids
        BY <1>3, <2>3, <4>1 DEF First
      <4>2. CASE n \notin Ids
        BY <3>1, <4>2 DEF CallsFit, Fits
      <4> QED
        BY <4>1, <4>2
    <3> QED
      BY <1>1, <2>3, <3>1, <3>2, <3>3
  <2> QED
    BY <2>1, <2>2, <2>3
<1>5. \A m, k \in Ids \cup {n} :
        Excludes(cs[k], cs[m])
          <=> IF Dsh' THEN cs[k].kind # "retrieval" \/ cs[m].kind # "retrieval"
              ELSE cs[k].kind = "mutation" /\ cs[m].kind = "mutation"
  BY DEF Excludes, Dsh
<1>6. Ids' = Ids \cup {n}
  BY <1>1 DEF Ids
<1>7. InSubmissionOrder'
  BY <1>4, <1>5, <1>6 DEF InSubmissionOrder, Exclusive, Active, Finished
<1>8. PendingLast'
  BY <1>4, <1>6 DEF PendingLast
<1> QED
  BY <1>7, <1>8
------------------------------------------------------------------------------
(* The nested calls: what each step does to a call, and that the calls keep *)
(* their order and their account.                                          *)

CallInv ==
  /\ CallTypes /\ CallsFit /\ Ledger /\ BudgetReserved
  /\ InSubmissionOrder /\ PendingLast

LEMMA QuietCalls ==
    ASSUME CallInv, UNCHANGED <<presentation, calls, toolCalls, rejectedToolCalls>>
    PROVE  CallInv'
  BY DEF CallInv, CallTypes, CallsFit, Fits, Dsh, Ledger, LedgerToolCalls,
         LedgerRejectedToolCalls, Results, BudgetReserved, Uncounted, InSubmissionOrder,
         Exclusive, PendingLast, Ids

\* The kinds of change that are not charged: a call moves on with its status.
LEMMA MoveKeeps ==
    ASSUME CallInv, Types, MaxToolCalls \in Nat, NEW n \in Ids, NEW c \in Call, Change(n, c), Fits(c),
           UNCHANGED <<presentation, toolCalls, rejectedToolCalls>>,
           \/ c.status = calls[n].status
           \/ calls[n].status \notin Charged /\ c.status \notin Charged,
           calls[n].at \in Finished => c.at \in Finished,
           c.at \in {"queued", "running", "writing"} => n \in Uncounted,
           c.at \in Active /\ calls[n].at \notin Active =>
             \A k \in 1 .. n - 1 : Excludes(calls[k], c) => calls[k].at \in Finished,
           c.at # "pending", calls[n].at = "pending" => First(n)
    PROVE  CallInv'
<1>1. CallTypes'
  BY DEF Change, CallTypes
<1>2. CallsFit'
  BY FitKept DEF CallInv
<1>3. Ledger'
  BY LedgerKept DEF CallInv
<1>4. BudgetReserved'
  BY BudgetKept DEF CallInv, Types
<1>5. InSubmissionOrder' /\ PendingLast'
  BY OrderKept DEF CallInv
<1> QED
  BY <1>1, <1>2, <1>3, <1>4, <1>5 DEF CallInv

LEMMA Placing ==
    ASSUME CallTypes, MaxCalls \in Nat, NEW n, NEW c \in Call, Place(n, c),
           \/ n \in Ids /\ calls[n].kind = c.kind
           \/ n = Len(calls) + 1 /\ Len(calls) < MaxCalls
    PROVE  Change(n, c)
<1>1. CASE n \in Ids /\ calls[n].kind = c.kind
  BY <1>1, UpdateChanges DEF Place
<1>2. CASE n = Len(calls) + 1 /\ Len(calls) < MaxCalls
  <2>1. n \notin Ids
    BY <1>2 DEF Ids, CallTypes
  <2> QED
    BY <1>2, <2>1, AppendChanges DEF Place
<1> QED
  BY <1>1, <1>2

\* Where a call stands when it is dispatched.
MayStart(n, kind) ==
  IF Dsh THEN n \in Ids /\ First(n) /\ Capacity(n) /\ calls[n].kind = kind
  ELSE n = Len(calls) + 1 /\ Len(calls) < MaxCalls

LEMMA Refuses ==
    ASSUME CallInv, Types, MaxToolCalls \in Nat, MaxCalls \in Nat,
           NEW n, NEW kind \in Kinds, NEW path \in Paths \cup {None}, MayStart(n, kind),
           Place(n, NewCall(kind, path, AtEnd, "refused")),
           rejectedToolCalls' = rejectedToolCalls + 1, UNCHANGED <<presentation, toolCalls>>
    PROVE  /\ CallInv'
           /\ \E c \in Call : /\ Change(n, c) /\ c.kind = kind /\ ~c.wrote /\ c.seal = None
                              /\ c.at \in Finished /\ c.status = "refused"
<1>1. AtEnd \in Finished /\ (AtEnd = "settled" => Dsh)
  BY DEF AtEnd, Finished
<1>0. PICK c : c = NewCall(kind, path, AtEnd, "refused")
  OBVIOUS
<1>2. /\ c = NewCall(kind, path, AtEnd, "refused")
      /\ c \in Call /\ c.kind = kind
      /\ c.at = AtEnd /\ c.status = "refused" /\ ~c.wrote /\ c.seal = None
  <2>1. AtEnd \in Waiting \cup Active \cup Finished /\ "refused" \in Statuses
    BY <1>1 DEF Statuses
  <2>2. kind \in Kinds /\ path \in Paths \cup {None}
    OBVIOUS
  <2> QED
    BY <1>0, <2>1, <2>2 DEF NewCall, Call
<1>3. Change(n, c)
  BY <1>2, Placing DEF MayStart, CallInv
<1>4. n \in Ids => calls[n].at = "pending" /\ First(n) /\ calls[n].status = "none" /\ Dsh
  BY DEF MayStart, First, CallInv, CallsFit, Fits, CallTypes, Ids
<1>5. CallTypes'
  BY <1>3 DEF Change, CallTypes
<1>6. CallsFit'
  <2>1. Fits(c)
    BY <1>1, <1>2 DEF Fits, Waiting, Active, Finished
  <2> QED
    BY <1>2, <2>1, <1>3, FitKept DEF CallInv
<1>7. Ledger'
  BY <1>2, <1>3, <1>4, LedgerCharges DEF CallInv, Charged
<1>8. BudgetReserved'
  <2>1. c.at \notin {"queued", "running", "writing"}
    BY <1>1, <1>2 DEF Finished
  <2> QED
    BY <1>2, <2>1, <1>3, BudgetKept DEF CallInv, Types
<1>9. InSubmissionOrder' /\ PendingLast'
  <2>1. c.at \in Finished /\ c.at \notin Active /\ c.at # "pending"
    BY <1>1, <1>2 DEF Finished, Active
  <2>2. n \notin Ids => ~Dsh
    BY DEF MayStart
  <2> QED
    BY <1>2, <2>1, <2>2, <1>3, <1>4, OrderKept DEF CallInv
<1> QED
  BY <1>1, <1>2, <1>3, <1>5, <1>6, <1>7, <1>8, <1>9 DEF CallInv

LEMMA Admits ==
    ASSUME CallInv, Types, MaxToolCalls \in Nat, MaxCalls \in Nat,
           NEW n, NEW kind \in Kinds, NEW path \in Paths \cup {None}, MayStart(n, kind),
           BudgetLeft,
           Place(n, NewCall(kind, path,
             IF ~Dsh /\ kind = "mutation" THEN "queued" ELSE "running", "none")),
           UNCHANGED <<presentation, toolCalls, rejectedToolCalls>>
    PROVE  /\ CallInv'
           /\ \E c \in Call : /\ Change(n, c) /\ c.kind = kind /\ ~c.wrote /\ c.seal = None
                              /\ c.at \in {"queued", "running"} /\ c.status = "none"
<1>1. PICK at \in {"queued", "running"} :
        at = IF ~Dsh /\ kind = "mutation" THEN "queued" ELSE "running"
  OBVIOUS
<1>0. PICK c : c = NewCall(kind, path, at, "none")
  OBVIOUS
<1>2. /\ c = NewCall(kind, path, at, "none")
      /\ c \in Call /\ c.kind = kind
      /\ c.at = at /\ c.status = "none" /\ ~c.wrote /\ c.seal = None
  <2>1. at \in Waiting \cup Active \cup Finished /\ "none" \in Statuses
    BY DEF Statuses, Waiting, Active
  <2> QED
    BY <1>0, <2>1 DEF NewCall, Call
<1>3. Change(n, c)
  BY <1>1, <1>2, Placing DEF MayStart, CallInv
<1>4. n \in Ids => calls[n].at = "pending" /\ First(n) /\ calls[n].status = "none" /\ Dsh
  BY DEF MayStart, First, CallInv, CallsFit, Fits, CallTypes, Ids
<1>5. CallTypes'
  BY <1>3 DEF Change, CallTypes
<1>6. CallsFit'
  <2>1. Fits(c)
    BY <1>1, <1>2 DEF Fits
  <2> QED
    BY <1>2, <2>1, <1>3, FitKept DEF CallInv
<1>7. Ledger'
  <2>1. c.status \notin Charged /\ (n \in Ids => calls[n].status \notin Charged)
    BY <1>2, <1>4 DEF Charged
  <2> QED
    BY <1>2, <2>1, <1>3, LedgerKept DEF CallInv
<1>8. BudgetReserved'
  BY <1>2, <1>3, BudgetTaken DEF CallInv, Types
<1>9. InSubmissionOrder' /\ PendingLast'
  <2>1. c.at \in Active => \A k \in 1 .. n - 1 : Excludes(calls[k], c) => calls[k].at \in Finished
    <3>1. CASE Dsh
      <4> SUFFICES ASSUME NEW k \in 1 .. n - 1, Excludes(calls[k], c)
                   PROVE  calls[k].at \in Finished
        OBVIOUS
      <4>1. k \in Ids /\ calls[k] \in Call
        BY <3>1 DEF MayStart, CallInv, CallTypes, Ids
      <4>2. calls[k].at # "pending" /\ calls[k].at # "queued"
        BY <3>1, <4>1 DEF MayStart, First, CallInv, CallsFit, Fits
      <4>3. calls[k].at \in Active \cup Finished
        BY <4>1, <4>2 DEF Call, Waiting
      <4>4. calls[n].kind = kind /\ Capacity(n)
        BY <3>1 DEF MayStart
      <4>5. calls[k].at \notin Active
        BY <1>2, <3>1, <4>1, <4>4 DEF Excludes, Capacity, ExclusiveActive, Exclusive, InFlight
      <4> QED
        BY <4>3, <4>5
    <3>2. CASE ~Dsh
      BY <1>1, <1>2, <3>2 DEF Active, Excludes
    <3> QED
      BY <3>1, <3>2
  <2>2. c.at # "pending" /\ (n \notin Ids => ~Dsh) /\ (n \in Ids => calls[n].at \notin Finished)
    BY <1>2, <1>4 DEF MayStart, Finished
  <2> QED
    BY <1>2, <2>1, <2>2, <1>3, <1>4, OrderKept DEF CallInv
<1> QED
  BY <1>2, <1>3, <1>5, <1>6, <1>7, <1>8, <1>9 DEF CallInv
\* A call moves on: where it is, its status, whether it wrote and its checkpoint.
Becomes(n, c, at, status, wrote, seal) ==
  /\ Change(n, c) /\ calls[n] \in Call
  /\ c.kind = calls[n].kind /\ c.path = calls[n].path
  /\ c.at = at /\ c.status = status /\ (c.wrote <=> wrote) /\ c.seal = seal

LEMMA Becoming ==
    ASSUME CallTypes, NEW n \in Ids,
           NEW at \in Waiting \cup Active \cup Finished, NEW status \in Statuses,
           NEW wrote \in BOOLEAN, NEW seal \in Trees \cup {None},
           calls' = [calls EXCEPT ![n] =
             [calls[n] EXCEPT !.at = at, !.status = status, !.wrote = wrote, !.seal = seal]]
    PROVE  \E c \in Call : Becomes(n, c, at, status, wrote, seal)
<1>1. calls[n] \in Call
  BY DEF CallTypes, Ids
<1>2. PICK c : c = [calls[n] EXCEPT !.at = at, !.status = status, !.wrote = wrote, !.seal = seal]
  OBVIOUS
<1>3. /\ c \in Call /\ c.kind = calls[n].kind /\ c.path = calls[n].path
      /\ c.at = at /\ c.status = status /\ c.wrote = wrote /\ c.seal = seal
  BY <1>1, <1>2 DEF Call
<1>4. Change(n, c)
  BY <1>2, <1>3, UpdateChanges
<1> QED
  BY <1>1, <1>3, <1>4 DEF Becomes

LEMMA Rewriting ==
    ASSUME CallTypes, NEW n \in Ids,
           NEW at \in Waiting \cup Active \cup Finished, NEW status \in Statuses,
           NEW wrote \in BOOLEAN, NEW seal \in Trees \cup {None}
    PROVE  /\ calls' = [calls EXCEPT ![n].at = at] =>
                \E c \in Call : Becomes(n, c, at, calls[n].status, calls[n].wrote, calls[n].seal)
           /\ calls' = [calls EXCEPT ![n].at = at, ![n].status = status] =>
                \E c \in Call : Becomes(n, c, at, status, calls[n].wrote, calls[n].seal)
           /\ calls' = [calls EXCEPT ![n].at = at, ![n].seal = seal] =>
                \E c \in Call : Becomes(n, c, at, calls[n].status, calls[n].wrote, seal)
           /\ calls' = [calls EXCEPT ![n].wrote = wrote] =>
                \E c \in Call : Becomes(n, c, calls[n].at, calls[n].status, wrote, calls[n].seal)
           /\ calls' = [calls EXCEPT ![n].at = at, ![n].status = status, ![n].wrote = wrote] =>
                \E c \in Call : Becomes(n, c, at, status, wrote, calls[n].seal)
<1> DEFINE Put(a, s, w, l) ==
             [calls EXCEPT ![n] = [calls[n] EXCEPT !.at = a, !.status = s, !.wrote = w, !.seal = l]]
<1>1. calls[n] \in Call
  BY DEF CallTypes, Ids
<1>2. PICK a0, s0, w0, l0 :
        /\ a0 = calls[n].at /\ s0 = calls[n].status /\ w0 = calls[n].wrote /\ l0 = calls[n].seal
        /\ a0 \in Waiting \cup Active \cup Finished /\ s0 \in Statuses
        /\ w0 \in BOOLEAN /\ l0 \in Trees \cup {None}
  BY <1>1 DEF Call
<1>3. /\ [calls EXCEPT ![n].at = at] = Put(at, s0, w0, l0)
      /\ [calls EXCEPT ![n].at = at, ![n].status = status] = Put(at, status, w0, l0)
      /\ [calls EXCEPT ![n].at = at, ![n].seal = seal] = Put(at, s0, w0, seal)
      /\ [calls EXCEPT ![n].wrote = wrote] = Put(a0, s0, wrote, l0)
      /\ [calls EXCEPT ![n].at = at, ![n].status = status, ![n].wrote = wrote]
           = Put(at, status, wrote, l0)
  <2>1. calls \in Seq(Call) /\ n \in DOMAIN calls
    BY DEF CallTypes, Ids
  <2>2. /\ [calls[n] EXCEPT !.at = at]
             = [calls[n] EXCEPT !.at = at, !.status = s0, !.wrote = w0, !.seal = l0]
        /\ [calls[n] EXCEPT !.at = at, !.status = status]
             = [calls[n] EXCEPT !.at = at, !.status = status, !.wrote = w0, !.seal = l0]
        /\ [calls[n] EXCEPT !.at = at, !.seal = seal]
             = [calls[n] EXCEPT !.at = at, !.status = s0, !.wrote = w0, !.seal = seal]
        /\ [calls[n] EXCEPT !.wrote = wrote]
             = [calls[n] EXCEPT !.at = a0, !.status = s0, !.wrote = wrote, !.seal = l0]
        /\ [calls[n] EXCEPT !.at = at, !.status = status, !.wrote = wrote]
             = [calls[n] EXCEPT !.at = at, !.status = status, !.wrote = wrote, !.seal = l0]
    BY <1>1, <1>2 DEF Call
  <2> QED
    BY <2>1, <2>2
<1> HIDE DEF Put
<1>4. ASSUME NEW a \in Waiting \cup Active \cup Finished, NEW s \in Statuses,
             NEW w \in BOOLEAN, NEW l \in Trees \cup {None}, calls' = Put(a, s, w, l)
      PROVE  \E c \in Call : Becomes(n, c, a, s, w, l)
  BY <1>4, Becoming DEF Put
<1>5. ASSUME calls' = [calls EXCEPT ![n].at = at]
      PROVE  \E c \in Call : Becomes(n, c, at, s0, w0, l0)
  <2>1. calls' = Put(at, s0, w0, l0)
    BY <1>3, <1>5
  <2> QED
    BY <1>2, <1>4, <2>1
<1>6. ASSUME calls' = [calls EXCEPT ![n].at = at, ![n].status = status]
      PROVE  \E c \in Call : Becomes(n, c, at, status, w0, l0)
  <2>1. calls' = Put(at, status, w0, l0)
    BY <1>3, <1>6
  <2> QED
    BY <1>2, <1>4, <2>1
<1>7. ASSUME calls' = [calls EXCEPT ![n].at = at, ![n].seal = seal]
      PROVE  \E c \in Call : Becomes(n, c, at, s0, w0, seal)
  <2>1. calls' = Put(at, s0, w0, seal)
    BY <1>3, <1>7
  <2> QED
    BY <1>2, <1>4, <2>1
<1>8. ASSUME calls' = [calls EXCEPT ![n].wrote = wrote]
      PROVE  \E c \in Call : Becomes(n, c, a0, s0, wrote, l0)
  <2>1. calls' = Put(a0, s0, wrote, l0)
    BY <1>3, <1>8
  <2> QED
    BY <1>2, <1>4, <2>1
<1>9. ASSUME calls' = [calls EXCEPT ![n].at = at, ![n].status = status, ![n].wrote = wrote]
      PROVE  \E c \in Call : Becomes(n, c, at, status, wrote, l0)
  <2>1. calls' = Put(at, status, wrote, l0)
    BY <1>3, <1>9
  <2> QED
    BY <1>2, <1>4, <2>1
<1> QED
  BY <1>2, <1>5, <1>6, <1>7, <1>8, <1>9
LEMMA Abandons ==
    ASSUME CallInv, Types, MaxToolCalls \in Nat, NEW n \in Ids, AbandonCall(n), UNCHANGED presentation
    PROVE  /\ CallInv'
           /\ calls[n].at = "pending" /\ First(n)
           /\ \E c \in Call : Becomes(n, c, "delivered", "abandoned", calls[n].wrote, calls[n].seal)
<1>1. calls[n].at = "pending" /\ First(n) /\ UNCHANGED <<toolCalls, rejectedToolCalls>>
  BY DEF AbandonCall, First, counters
<1>2. calls[n] \in Call /\ Fits(calls[n]) /\ CallTypes
  BY DEF CallInv, CallTypes, CallsFit, Ids
<1>4. PICK c \in Call : Becomes(n, c, "delivered", "abandoned", calls[n].wrote, calls[n].seal)
  <2>1. calls' = [calls EXCEPT ![n].at = "delivered", ![n].status = "abandoned"]
    BY <1>1 DEF AbandonCall, First
  <2>2. /\ "delivered" \in Waiting \cup Active \cup Finished /\ "abandoned" \in Statuses
        /\ TRUE \in BOOLEAN /\ calls[n].seal \in Trees \cup {None}
    BY <1>1, <1>2 DEF Call, Waiting, Active, Finished, Statuses
  <2> QED
    BY <1>2, <2>1, <2>2, Rewriting
<1>5. Fits(c)
  BY <1>1, <1>2, <1>4 DEF Becomes, Fits, Waiting, Active, Finished
<1>6. /\ calls[n].at # "settled" /\ calls[n].at # "delivered"
      /\ c.at # "pending"
      /\ c.at \in {"queued", "running", "writing"} => n \in Uncounted
      /\ c.at \in Active => calls[n].at \in Active
  BY <1>1, <1>4 DEF Becomes, Uncounted, Active, Finished
<1>8. calls[n].status \notin Charged /\ c.status \notin Charged
  BY <1>1, <1>2, <1>4 DEF Fits, Becomes, Charged
<1> QED
  BY <1>1, <1>2, <1>4, <1>5, <1>6, <1>8, MoveKeeps DEF Becomes, Finished, Charged

LEMMA Delivers ==
    ASSUME CallInv, Types, MaxToolCalls \in Nat, NEW n \in Ids, DeliverReply(n), UNCHANGED presentation
    PROVE  /\ CallInv'
           /\ calls[n].at = "settled"
           /\ \E c \in Call : Becomes(n, c, "delivered", calls[n].status, calls[n].wrote, calls[n].seal)
<1>1. calls[n].at = "settled" /\ UNCHANGED <<toolCalls, rejectedToolCalls>>
  BY DEF DeliverReply, counters
<1>2. calls[n] \in Call /\ Fits(calls[n]) /\ CallTypes
  BY DEF CallInv, CallTypes, CallsFit, Ids
<1>4. PICK c \in Call : Becomes(n, c, "delivered", calls[n].status, calls[n].wrote, calls[n].seal)
  <2>1. calls' = [calls EXCEPT ![n].at = "delivered"]
    BY <1>1 DEF DeliverReply
  <2>2. /\ "delivered" \in Waiting \cup Active \cup Finished /\ calls[n].status \in Statuses
        /\ TRUE \in BOOLEAN /\ calls[n].seal \in Trees \cup {None}
    BY <1>1, <1>2 DEF Call, Waiting, Active, Finished, Statuses
  <2> QED
    BY <1>2, <2>1, <2>2, Rewriting
<1>5. Fits(c)
  BY <1>1, <1>2, <1>4 DEF Becomes, Fits, Waiting, Active, Finished
<1>6. /\ c.at \in Finished
      /\ c.at # "pending"
      /\ c.at \in {"queued", "running", "writing"} => n \in Uncounted
      /\ c.at \in Active => calls[n].at \in Active
  BY <1>1, <1>4 DEF Becomes, Uncounted, Active, Finished
<1> QED
  BY <1>1, <1>2, <1>4, <1>5, <1>6, MoveKeeps DEF Becomes, Finished, Charged

LEMMA Leaves ==
    ASSUME CallInv, Types, MaxToolCalls \in Nat, NEW n \in Ids, LeaveQueue(n), UNCHANGED presentation
    PROVE  /\ CallInv'
           /\ calls[n].at = "queued"
           /\ \E c \in Call : Becomes(n, c, "running", calls[n].status, calls[n].wrote, calls[n].seal)
<1>1. calls[n].at = "queued" /\ UNCHANGED <<toolCalls, rejectedToolCalls>>
  BY DEF LeaveQueue, counters
<1>2. calls[n] \in Call /\ Fits(calls[n]) /\ CallTypes
  BY DEF CallInv, CallTypes, CallsFit, Ids
<1>4. PICK c \in Call : Becomes(n, c, "running", calls[n].status, calls[n].wrote, calls[n].seal)
  <2>1. calls' = [calls EXCEPT ![n].at = "running"]
    BY <1>1 DEF LeaveQueue
  <2>2. /\ "running" \in Waiting \cup Active \cup Finished /\ calls[n].status \in Statuses
        /\ TRUE \in BOOLEAN /\ calls[n].seal \in Trees \cup {None}
    BY <1>1, <1>2 DEF Call, Waiting, Active, Finished, Statuses
  <2> QED
    BY <1>2, <2>1, <2>2, Rewriting
<1>5. Fits(c)
  BY <1>1, <1>2, <1>4 DEF Becomes, Fits, Waiting, Active, Finished
<1>6. /\ calls[n].at # "settled" /\ calls[n].at # "delivered" /\ c.at # "pending"
      /\ n \in Uncounted
  BY <1>1, <1>4 DEF Becomes, Uncounted
<1>7. ASSUME NEW k \in 1 .. n - 1, Excludes(calls[k], c)
      PROVE  calls[k].at \in Finished
  <2>1. ~Dsh /\ calls[k].kind = "mutation"
    BY <1>1, <1>2, <1>7 DEF Fits, Excludes
  <2> QED
    BY <2>1 DEF LeaveQueue, FirstInQueue, Finished
<1> QED
  BY <1>1, <1>2, <1>4, <1>5, <1>6, <1>7, MoveKeeps DEF Becomes, Finished, Charged

LEMMA Begins ==
    ASSUME CallInv, Types, MaxToolCalls \in Nat, NEW n \in Ids, BeginWrite(n), UNCHANGED presentation
    PROVE  /\ CallInv'
           /\ calls[n].at = "running" /\ calls[n].kind = "mutation"
           /\ \E c \in Call : Becomes(n, c, "writing", calls[n].status, calls[n].wrote, calls[n].seal)
<1>1. calls[n].at = "running" /\ calls[n].kind = "mutation" /\ UNCHANGED <<toolCalls, rejectedToolCalls>>
  BY DEF BeginWrite, counters
<1>2. calls[n] \in Call /\ Fits(calls[n]) /\ CallTypes
  BY DEF CallInv, CallTypes, CallsFit, Ids
<1>4. PICK c \in Call : Becomes(n, c, "writing", calls[n].status, calls[n].wrote, calls[n].seal)
  <2>1. calls' = [calls EXCEPT ![n].at = "writing"]
    BY <1>1 DEF BeginWrite
  <2>2. /\ "writing" \in Waiting \cup Active \cup Finished /\ calls[n].status \in Statuses
        /\ TRUE \in BOOLEAN /\ calls[n].seal \in Trees \cup {None}
    BY <1>1, <1>2 DEF Call, Waiting, Active, Finished, Statuses
  <2> QED
    BY <1>2, <2>1, <2>2, Rewriting
<1>5. Fits(c)
  BY <1>1, <1>2, <1>4 DEF Becomes, Fits, Waiting, Active, Finished
<1>6. /\ calls[n].at # "settled" /\ calls[n].at # "delivered"
      /\ c.at # "pending"
      /\ c.at \in {"queued", "running", "writing"} => n \in Uncounted
      /\ c.at \in Active => calls[n].at \in Active
  BY <1>1, <1>4 DEF Becomes, Uncounted, Active, Finished
<1> QED
  BY <1>1, <1>2, <1>4, <1>5, <1>6, MoveKeeps DEF Becomes, Finished, Charged

LEMMA Captures ==
    ASSUME CallInv, Types, MaxToolCalls \in Nat, NEW n \in Ids, CaptureSurface(n), UNCHANGED presentation
    PROVE  /\ CallInv'
           /\ calls[n].at = "counted"
           /\ \E c \in Call : Becomes(n, c, "logged", calls[n].status, calls[n].wrote, calls[n].seal)
<1>1. calls[n].at = "counted" /\ UNCHANGED <<toolCalls, rejectedToolCalls>>
  BY DEF CaptureSurface, counters
<1>2. calls[n] \in Call /\ Fits(calls[n]) /\ CallTypes
  BY DEF CallInv, CallTypes, CallsFit, Ids
<1>4. PICK c \in Call : Becomes(n, c, "logged", calls[n].status, calls[n].wrote, calls[n].seal)
  <2>1. calls' = [calls EXCEPT ![n].at = "logged"]
    BY <1>1 DEF CaptureSurface
  <2>2. /\ "logged" \in Waiting \cup Active \cup Finished /\ calls[n].status \in Statuses
        /\ TRUE \in BOOLEAN /\ calls[n].seal \in Trees \cup {None}
    BY <1>1, <1>2 DEF Call, Waiting, Active, Finished, Statuses
  <2> QED
    BY <1>2, <2>1, <2>2, Rewriting
<1>5. Fits(c)
  BY <1>1, <1>2, <1>4 DEF Becomes, Fits, Waiting, Active, Finished
<1>6. /\ calls[n].at # "settled" /\ calls[n].at # "delivered"
      /\ c.at # "pending"
      /\ c.at \in {"queued", "running", "writing"} => n \in Uncounted
      /\ c.at \in Active => calls[n].at \in Active
  BY <1>1, <1>4 DEF Becomes, Uncounted, Active, Finished
<1> QED
  BY <1>1, <1>2, <1>4, <1>5, <1>6, MoveKeeps DEF Becomes, Finished, Charged

LEMMA Seals ==
    ASSUME CallInv, Types, FileTypes, MaxToolCalls \in Nat, NEW n \in Ids, SealMutation(n), UNCHANGED presentation
    PROVE  /\ CallInv'
           /\ calls[n].at = "logged"
           /\ \E c \in Call : Becomes(n, c, AtEnd, calls[n].status, calls[n].wrote, tree)
<1>1. calls[n].at = "logged" /\ UNCHANGED <<toolCalls, rejectedToolCalls>>
  BY DEF SealMutation, counters
<1>2. calls[n] \in Call /\ Fits(calls[n]) /\ CallTypes
  BY DEF CallInv, CallTypes, CallsFit, Ids
<1>3. PICK at \in Finished : at = AtEnd /\ (at = "settled" => Dsh)
  BY DEF AtEnd, Finished
<1>4. PICK c \in Call : Becomes(n, c, at, calls[n].status, calls[n].wrote, tree)
  <2>1. calls' = [calls EXCEPT ![n].at = at, ![n].seal = tree]
    BY <1>3, <1>1 DEF SealMutation
  <2>2. /\ at \in Waiting \cup Active \cup Finished /\ calls[n].status \in Statuses
        /\ TRUE \in BOOLEAN /\ tree \in Trees \cup {None}
    BY <1>3, <1>1, <1>2 DEF Call, Waiting, Active, Finished, Statuses, FileTypes
  <2> QED
    BY <1>2, <2>1, <2>2, Rewriting
<1>5. Fits(c)
  BY <1>3, <1>1, <1>2, <1>4 DEF Becomes, Fits, Waiting, Active, Finished
<1>6. /\ calls[n].at # "settled" /\ calls[n].at # "delivered"
      /\ c.at # "pending"
      /\ c.at \in {"queued", "running", "writing"} => n \in Uncounted
      /\ c.at \in Active => calls[n].at \in Active
  BY <1>3, <1>1, <1>4 DEF Becomes, Uncounted, Active, Finished
<1> QED
  BY <1>1, <1>2, <1>4, <1>5, <1>6, <1>3, MoveKeeps DEF Becomes, Finished, Charged

LEMMA Loses ==
    ASSUME CallInv, Types, MaxToolCalls \in Nat, NEW n \in Ids, LoseCommand(n), UNCHANGED presentation
    PROVE  /\ CallInv'
           /\ calls[n].at = "running"
           /\ \E c \in Call : Becomes(n, c, AtEnd, "lost", calls[n].wrote, calls[n].seal)
<1>1. calls[n].at = "running" /\ UNCHANGED <<toolCalls, rejectedToolCalls>>
  BY DEF LoseCommand, counters
<1>2. calls[n] \in Call /\ Fits(calls[n]) /\ CallTypes
  BY DEF CallInv, CallTypes, CallsFit, Ids
<1>3. PICK at \in Finished : at = AtEnd /\ (at = "settled" => Dsh)
  BY DEF AtEnd, Finished
<1>4. PICK c \in Call : Becomes(n, c, at, "lost", calls[n].wrote, calls[n].seal)
  <2>1. calls' = [calls EXCEPT ![n].at = at, ![n].status = "lost"]
    BY <1>3, <1>1 DEF LoseCommand
  <2>2. /\ at \in Waiting \cup Active \cup Finished /\ "lost" \in Statuses
        /\ TRUE \in BOOLEAN /\ calls[n].seal \in Trees \cup {None}
    BY <1>3, <1>1, <1>2 DEF Call, Waiting, Active, Finished, Statuses
  <2> QED
    BY <1>2, <2>1, <2>2, Rewriting
<1>5. Fits(c)
  BY <1>3, <1>1, <1>2, <1>4 DEF Becomes, Fits, Waiting, Active, Finished
<1>6. /\ calls[n].at # "settled" /\ calls[n].at # "delivered"
      /\ c.at # "pending"
      /\ c.at \in {"queued", "running", "writing"} => n \in Uncounted
      /\ c.at \in Active => calls[n].at \in Active
  BY <1>3, <1>1, <1>4 DEF Becomes, Uncounted, Active, Finished
<1>8. calls[n].status \notin Charged /\ c.status \notin Charged
  BY <1>1, <1>2, <1>4 DEF Fits, Becomes, Charged
<1> QED
  BY <1>1, <1>2, <1>4, <1>5, <1>6, <1>8, <1>3, MoveKeeps DEF Becomes, Finished, Charged

LEMMA Writes ==
    ASSUME CallInv, Types, MaxToolCalls \in Nat, NEW n \in Ids, NEW p, CommandWrites(n, p), UNCHANGED presentation
    PROVE  /\ CallInv'
           /\ calls[n].at = "running" /\ Command(n)
           /\ \E c \in Call : Becomes(n, c, calls[n].at, calls[n].status, TRUE, calls[n].seal)
<1>1. calls[n].at = "running" /\ Command(n) /\ UNCHANGED <<toolCalls, rejectedToolCalls>>
  BY DEF CommandWrites, counters
<1>2. calls[n] \in Call /\ Fits(calls[n]) /\ CallTypes
  BY DEF CallInv, CallTypes, CallsFit, Ids
<1>4. PICK c \in Call : Becomes(n, c, calls[n].at, calls[n].status, TRUE, calls[n].seal)
  <2>1. calls' = [calls EXCEPT ![n].wrote = TRUE]
    BY <1>1 DEF CommandWrites
  <2>2. /\ calls[n].at \in Waiting \cup Active \cup Finished /\ calls[n].status \in Statuses
        /\ TRUE \in BOOLEAN /\ calls[n].seal \in Trees \cup {None}
    BY <1>1, <1>2 DEF Call, Waiting, Active, Finished, Statuses
  <2> QED
    BY <1>2, <2>1, <2>2, Rewriting
<1>5. Fits(c)
  BY <1>1, <1>2, <1>4 DEF Becomes, Fits, Waiting, Active, Finished, Command
<1>6. /\ calls[n].at # "settled" /\ calls[n].at # "delivered"
      /\ c.at # "pending"
      /\ c.at \in {"queued", "running", "writing"} => n \in Uncounted
      /\ c.at \in Active => calls[n].at \in Active
  BY <1>1, <1>4 DEF Becomes, Uncounted, Active, Finished
<1> QED
  BY <1>1, <1>2, <1>4, <1>5, <1>6, MoveKeeps DEF Becomes, Finished, Charged
\* A tool has returned, and its result is charged.
LEMMA Returns ==
    ASSUME CallInv, Types, MaxToolCalls \in Nat, NEW n \in Ids, NEW c \in Call,
           NEW at \in Active \cup Finished, NEW status \in {"ok", "rejected", "error"}, NEW wrote,
           Becomes(n, c, at, status, wrote, calls[n].seal),
           calls[n].at \in {"running", "writing"},
           at \notin {"running", "writing"},
           at \in {"counted", "logged"} => calls[n].kind = "mutation" /\ status # "error",
           at \in {"counted", "settled"} => Dsh,
           CountResult(status), UNCHANGED presentation
    PROVE  CallInv'
<1>1. /\ Change(n, c) /\ c.at = at /\ c.status = status /\ c.kind = calls[n].kind
      /\ c.seal = calls[n].seal
  BY DEF Becomes
<1>2. Fits(calls[n]) /\ calls[n].status = "none" /\ calls[n].seal = None /\ n \in Uncounted
  BY DEF CallInv, CallsFit, Fits, Waiting, Active, Uncounted
<1>3. CallTypes'
  BY <1>1 DEF Change, CallTypes
<1>4. Fits(c)
  BY <1>1, <1>2 DEF Fits, Waiting, Active, Finished
<1>5. CallsFit'
  BY <1>1, <1>4, FitKept DEF CallInv
<1>6. Ledger'
  <2>1. n \in Ids => calls[n].status \notin Charged
    BY <1>2 DEF Charged
  <2>2. \/ /\ c.status \in {"ok", "error"}
           /\ toolCalls' = toolCalls + 1 /\ UNCHANGED rejectedToolCalls
        \/ /\ c.status \in {"rejected", "refused"}
           /\ rejectedToolCalls' = rejectedToolCalls + 1 /\ UNCHANGED toolCalls
    BY <1>1 DEF CountResult
  <2> QED
    BY <1>1, <2>1, <2>2, LedgerCharges DEF CallInv
<1>7. BudgetReserved'
  <2>1. toolCalls' \in {toolCalls, toolCalls + 1}
    BY DEF CountResult
  <2>2. c.at \notin {"queued", "running", "writing"}
    BY <1>1 DEF Active, Finished
  <2> QED
    BY <1>1, <1>2, <2>1, <2>2, BudgetKept DEF CallInv, Types
<1>8. InSubmissionOrder' /\ PendingLast'
  <2>1. /\ calls[n].at \in Active /\ calls[n].at \notin Finished /\ calls[n].at # "pending"
        /\ c.at # "pending"
    BY <1>1 DEF Active, Finished
  <2> QED
    BY <1>1, <2>1, OrderKept DEF CallInv
<1> QED
  BY <1>3, <1>5, <1>6, <1>7, <1>8 DEF CallInv

\* Where a mutation is after it returned.
Returned(n, status) ==
  IF ~MutationFacts(n, status) THEN AtEnd ELSE IF Dsh THEN "counted" ELSE "logged"

LEMMA ReturnsMutation ==
    ASSUME CallInv, Types, MaxToolCalls \in Nat, NEW n \in Ids,
           NEW status \in {"ok", "rejected", "error"}, ReturnMutation(n, status),
           calls[n].at \in {"running", "writing"}, calls[n].kind = "mutation",
           UNCHANGED presentation
    PROVE  /\ CallInv'
           /\ \E c \in Call :
                Becomes(n, c, Returned(n, status), status, status = "ok", calls[n].seal)
<1>1. PICK at \in Active \cup Finished :
        /\ at = Returned(n, status)
        /\ at \notin {"running", "writing"}
        /\ at \in {"counted", "logged"} => status # "error"
        /\ at \in {"counted", "settled"} => Dsh
  <2>1. Returned(n, status) \in {"counted", "logged", "settled", "delivered"}
    BY DEF Returned, AtEnd
  <2> QED
    BY <2>1 DEF Returned, AtEnd, MutationFacts, Active, Finished
<1>2. PICK wrote \in BOOLEAN : wrote = (status = "ok")
  OBVIOUS
<1>3. calls' = [calls EXCEPT ![n].at = at, ![n].status = status, ![n].wrote = wrote]
  BY <1>1, <1>2 DEF ReturnMutation, Returned
<1>4. PICK c \in Call : Becomes(n, c, at, status, wrote, calls[n].seal)
  <2>1. /\ at \in Waiting \cup Active \cup Finished /\ status \in Statuses
        /\ None \in Trees \cup {None} /\ CallTypes
    BY DEF Statuses, CallInv
  <2> QED
    BY <1>3, <2>1, Rewriting
<1>5. CallInv'
  <2>1. CountResult(status)
    BY DEF ReturnMutation
  <2> QED
    BY <1>1, <1>4, <2>1, Returns
<1> QED
  BY <1>1, <1>2, <1>4, <1>5

LEMMA ReturnsOther ==
    ASSUME CallInv, Types, MaxToolCalls \in Nat, NEW n \in Ids,
           NEW status \in {"ok", "rejected"}, ReturnOther(n, status), UNCHANGED presentation
    PROVE  /\ CallInv'
           /\ calls[n].at = "running" /\ calls[n].kind # "mutation"
           /\ \E c \in Call : Becomes(n, c, AtEnd, status, calls[n].wrote, calls[n].seal)
<1>1. calls[n].at = "running" /\ calls[n].kind # "mutation"
  BY DEF ReturnOther
<1>2. PICK at \in Finished : at = AtEnd /\ (at = "settled" => Dsh)
  BY DEF AtEnd, Finished
<1>3. PICK c \in Call : Becomes(n, c, at, status, calls[n].wrote, calls[n].seal)
  <2>1. /\ at \in Waiting \cup Active \cup Finished /\ status \in Statuses
        /\ None \in Trees \cup {None} /\ TRUE \in BOOLEAN /\ CallTypes
    BY DEF Statuses, CallInv
  <2>2. calls' = [calls EXCEPT ![n].at = at, ![n].status = status]
    BY <1>2 DEF ReturnOther
  <2> QED
    BY <2>1, <2>2, Rewriting
<1>4. CallInv'
  <2>1. /\ CountResult(status) /\ at \in Active \cup Finished
        /\ at \notin {"running", "writing", "counted", "logged"}
        /\ at \in {"counted", "settled"} => Dsh
        /\ status \in {"ok", "rejected", "error"}
    BY <1>2 DEF ReturnOther, Finished
  <2> QED
    BY <1>1, <1>3, <2>1, Returns
<1> QED
  BY <1>1, <1>2, <1>3, <1>4

LEMMA WritesFile ==
    ASSUME CallInv, Types, MaxToolCalls \in Nat, NEW n \in Ids, WriteFile(n), UNCHANGED presentation
    PROVE  /\ CallInv'
           /\ calls[n].at = "writing" /\ calls[n].kind = "mutation"
           /\ ReturnMutation(n, "ok")
           /\ \E c \in Call : Becomes(n, c, Returned(n, "ok"), "ok", TRUE, calls[n].seal)
<1>1. /\ calls[n].at = "writing" /\ calls[n].kind = "mutation" /\ ReturnMutation(n, "ok")
      /\ "ok" \in {"ok", "rejected", "error"}
  BY DEF WriteFile, CallInv, CallsFit, Fits
<1>2. /\ CallInv'
      /\ \E c \in Call : Becomes(n, c, Returned(n, "ok"), "ok", "ok" = "ok", calls[n].seal)
  BY <1>1, ReturnsMutation
<1>3. PICK c \in Call : Becomes(n, c, Returned(n, "ok"), "ok", "ok" = "ok", calls[n].seal)
  BY <1>2
<1>4. Becomes(n, c, Returned(n, "ok"), "ok", TRUE, calls[n].seal)
  BY <1>3 DEF Becomes
<1> QED
  BY <1>1, <1>2, <1>4

LEMMA RejectsMutation ==
    ASSUME CallInv, Types, MaxToolCalls \in Nat, NEW n \in Ids, RejectMutation(n), UNCHANGED presentation
    PROVE  /\ CallInv'
           /\ calls[n].at = "running" /\ calls[n].kind = "mutation"
           /\ \E status \in {"rejected", "error"} :
                /\ ReturnMutation(n, status)
                /\ \E c \in Call : Becomes(n, c, Returned(n, status), status, FALSE, calls[n].seal)
<1>1. calls[n].at = "running" /\ calls[n].kind = "mutation"
  BY DEF RejectMutation
<1>2. PICK status \in {"rejected", "error"} : ReturnMutation(n, status)
  BY DEF RejectMutation
<1>3. CallInv'
  BY <1>1, <1>2, ReturnsMutation
<1>4. PICK c \in Call : Becomes(n, c, Returned(n, status), status, status = "ok", calls[n].seal)
  BY <1>1, <1>2, ReturnsMutation
<1>5. Becomes(n, c, Returned(n, status), status, FALSE, calls[n].seal)
  BY <1>4 DEF Becomes
<1> QED
  BY <1>1, <1>2, <1>3, <1>5
\* What a dispatch does to the record: the call is refused, or it starts.
Dispatched(n, c, kind) ==
  /\ Change(n, c) /\ c.kind = kind /\ ~c.wrote /\ c.seal = None
  /\ \/ /\ c.at \in Finished /\ c.status = "refused"
        /\ lastMutation' = IF kind = "mutation" THEN n ELSE lastMutation
        /\ terminal' = "tool-limit"
        /\ rejectedToolCalls' = rejectedToolCalls + 1
        /\ UNCHANGED <<obligation, verified, toolCalls>>
     \/ /\ c.at \in {"queued", "running"} /\ c.status = "none"
        /\ UNCHANGED <<counters, facts>>

LEMMA Dispatches ==
    ASSUME CallInv, Types, MaxToolCalls \in Nat, MaxCalls \in Nat,
           NEW n, NEW kind \in Kinds, NEW path \in Paths \cup {None}, MayStart(n, kind),
           Dispatch(n, kind, path), UNCHANGED presentation
    PROVE  CallInv' /\ \E c \in Call : Dispatched(n, c, kind)
<1>1. CASE ~BudgetLeft
  <2>1. /\ Place(n, NewCall(kind, path, AtEnd, "refused"))
        /\ rejectedToolCalls' = rejectedToolCalls + 1 /\ terminal' = "tool-limit"
        /\ lastMutation' = IF kind = "mutation" THEN n ELSE lastMutation
        /\ UNCHANGED <<toolCalls, obligation, verified>>
    BY <1>1 DEF Dispatch
  <2> QED
    BY <2>1, Refuses DEF Dispatched
<1>2. CASE BudgetLeft
  <2>1. /\ Place(n, NewCall(kind, path,
             IF ~Dsh /\ kind = "mutation" THEN "queued" ELSE "running", "none"))
        /\ UNCHANGED <<counters, facts>>
    BY <1>2 DEF Dispatch
  <2>2. CallInv' /\ \E c \in Call :
          /\ Change(n, c) /\ c.kind = kind /\ ~c.wrote /\ c.seal = None
          /\ c.at \in {"queued", "running"} /\ c.status = "none"
    BY <1>2, <2>1, Admits DEF counters
  <2> QED
    BY <2>1, <2>2 DEF Dispatched
<1> QED
  BY <1>1, <1>2

LEMMA Starts ==
    ASSUME CallInv, Types, MaxToolCalls \in Nat, MaxCalls \in Nat, NEW n \in Ids,
           StartCall(n), UNCHANGED presentation
    PROVE  /\ CallInv'
           /\ calls[n].at = "pending" /\ calls[n].status = "none" /\ calls[n].seal = None
           /\ \E c \in Call : Dispatched(n, c, calls[n].kind)
<1>1. calls[n] \in Call /\ Fits(calls[n]) /\ calls[n].at = "pending"
  BY DEF StartCall, First, CallInv, CallTypes, CallsFit, Ids
<1>2. PICK kind, path : kind = calls[n].kind /\ path = calls[n].path
  OBVIOUS
<1>3. kind \in Kinds /\ path \in Paths \cup {None} /\ MayStart(n, kind) /\ Dispatch(n, kind, path)
  BY <1>1, <1>2 DEF StartCall, MayStart, Fits, Call
<1>4. CallInv' /\ \E c \in Call : Dispatched(n, c, kind)
  BY <1>3, Dispatches
<1> QED
  BY <1>1, <1>2, <1>4 DEF Fits, Waiting

\* A call is added that is not dispatched: pending, or without a canonical call.
LEMMA Adds ==
    ASSUME CallInv, Types, MaxToolCalls \in Nat, MaxCalls \in Nat,
           NEW kind \in Kinds, NEW path \in Paths \cup {None}, Len(calls) < MaxCalls,
           NEW at, NEW status, NEW n, n = Len(calls) + 1,
           \/ Dsh /\ at = "pending" /\ status = "none"
           \/ ~Dsh /\ at = "delivered" /\ status = "invalid",
           Place(n, NewCall(kind, path, at, status)),
           UNCHANGED <<presentation, toolCalls, rejectedToolCalls>>
    PROVE  CallInv' /\ \E c \in Call : Change(n, c) /\ c.at = at /\ c.status = status
                                       /\ c.kind = kind /\ ~c.wrote
<1>1. PICK c : c = NewCall(kind, path, at, status)
  OBVIOUS
<1>2. /\ c \in Call /\ c.kind = kind /\ c.at = at /\ c.status = status
      /\ ~c.wrote /\ c.seal = None
  <2>1. at \in Waiting \cup Active \cup Finished /\ status \in Statuses
    BY DEF Waiting, Finished, Statuses
  <2> QED
    BY <1>1, <2>1 DEF NewCall, Call
<1>4. Change(n, c) /\ n \notin Ids
  BY <1>1, <1>2, Placing DEF CallInv, CallTypes, Ids
<1>5. CallTypes'
  BY <1>4 DEF Change, CallTypes
<1>6. CallsFit'
  <2>1. Fits(c)
    BY <1>2 DEF Fits, Waiting, Active
  <2> QED
    BY <1>2, <1>4, <2>1, FitKept DEF CallInv
<1>7. Ledger'
  BY <1>2, <1>4, LedgerKept DEF CallInv, Charged
<1>8. BudgetReserved'
  BY <1>2, <1>4, BudgetKept DEF CallInv, Types
<1>9. InSubmissionOrder' /\ PendingLast'
  <2>1. c.at \notin Active
    BY <1>2 DEF Active
  <2> QED
    BY <1>2, <1>4, <2>1, OrderKept DEF CallInv
<1> QED
  BY <1>2, <1>4, <1>5, <1>6, <1>7, <1>8, <1>9 DEF CallInv

LEMMA Submits ==
    ASSUME CallInv, Types, MaxToolCalls \in Nat, MaxCalls \in Nat,
           NEW kind \in Kinds, NEW path \in Paths \cup {None},
           SubmitCall(kind, path), UNCHANGED presentation
    PROVE  /\ CallInv'
           /\ \E c \in Call :
                \/ /\ Change(Len(calls) + 1, c) /\ c.kind = kind /\ ~c.wrote
                   /\ c.status # "refused"
                   /\ UNCHANGED <<counters, facts>>
                \/ Dispatched(Len(calls) + 1, c, kind)
<1>1. Len(calls) < MaxCalls
  BY DEF SubmitCall
<1>5. PICK n : n = Len(calls) + 1
  OBVIOUS
<1>2. CASE Dsh
  <2>1. Place(n, NewCall(kind, path, "pending", "none")) /\ UNCHANGED <<counters, facts>>
    BY <1>5, <1>2 DEF SubmitCall
  <2>2. CallInv' /\ \E c \in Call :
          /\ Change(n, c) /\ c.at = "pending" /\ c.status = "none"
          /\ c.kind = kind /\ ~c.wrote
    <3>1. PICK at, status : at = "pending" /\ status = "none"
      OBVIOUS
    <3>2. /\ \/ Dsh /\ at = "pending" /\ status = "none"
             \/ ~Dsh /\ at = "delivered" /\ status = "invalid"
          /\ Place(n, NewCall(kind, path, at, status))
          /\ UNCHANGED <<presentation, toolCalls, rejectedToolCalls>>
      BY <1>2, <2>1, <3>1 DEF counters
    <3>3. CallInv' /\ \E c \in Call :
            /\ Change(n, c) /\ c.at = at /\ c.status = status
            /\ c.kind = kind /\ ~c.wrote
      BY <1>5, <1>1, <3>2, Adds
    <3> QED
      BY <3>1, <3>3
  <2> QED
    BY <1>5, <2>1, <2>2
<1>3. CASE ~Dsh /\ kind = "malformed"
  <2>1. /\ Place(n, NewCall(kind, path, "delivered", "invalid"))
        /\ UNCHANGED <<counters, facts>>
    BY <1>5, <1>3 DEF SubmitCall
  <2>2. CallInv' /\ \E c \in Call :
          /\ Change(n, c) /\ c.at = "delivered" /\ c.status = "invalid"
          /\ c.kind = kind /\ ~c.wrote
    <3>1. PICK at, status : at = "delivered" /\ status = "invalid"
      OBVIOUS
    <3>2. /\ \/ Dsh /\ at = "pending" /\ status = "none"
             \/ ~Dsh /\ at = "delivered" /\ status = "invalid"
          /\ Place(n, NewCall(kind, path, at, status))
          /\ UNCHANGED <<presentation, toolCalls, rejectedToolCalls>>
      BY <1>3, <2>1, <3>1 DEF counters
    <3>3. CallInv' /\ \E c \in Call :
            /\ Change(n, c) /\ c.at = at /\ c.status = status
            /\ c.kind = kind /\ ~c.wrote
      BY <1>5, <1>1, <3>2, Adds
    <3> QED
      BY <3>1, <3>3
  <2> QED
    BY <1>5, <2>1, <2>2
<1>4. CASE ~Dsh /\ kind # "malformed"
  <2>1. Dispatch(n, kind, path) /\ MayStart(n, kind)
    BY <1>5, <1>1, <1>4 DEF SubmitCall, MayStart
  <2>3. CallInv' /\ \E c \in Call : Dispatched(n, c, kind)
    BY <2>1, Dispatches
  <2> QED
    BY <1>5, <2>3
<1> QED
  BY <1>2, <1>3, <1>4
------------------------------------------------------------------------------
(* The record and the worktree, while there are calls under way.           *)

FileInv == LastIsSealed /\ TreeIsSealed /\ TreeIsVerified

LEMMA Numbers ==
    ASSUME CallTypes, BoundsAssumption, NoneAssumption
    PROVE  /\ None \notin Ids /\ 0 \notin Ids /\ None # 0
           /\ \A n \in Ids : n \in 0 .. MaxCalls /\ n \in Contents
           /\ None \notin Trees
<1>1. Len(calls) \in Nat /\ MaxCalls \in Nat /\ Len(calls) <= MaxCalls
  BY DEF CallTypes, BoundsAssumption
<1>2. None \notin 0 .. MaxCalls + 1 /\ None \notin Trees
  BY DEF NoneAssumption, Contents
<1>3. \A n \in Ids : n \in Nat /\ n # 0 /\ n \in 0 .. MaxCalls /\ n \in 0 .. MaxCalls + 1
  BY <1>1 DEF Ids
<1>4. 0 \in 0 .. MaxCalls + 1
  BY <1>1
<1> QED
  BY <1>2, <1>3, <1>4 DEF Contents

\* What was refused or not noticed stays so.
LEMMA StaysNoticed ==
    ASSUME NEW n, NEW c \in Call, Change(n, c), UNCHANGED presentation,
           n \in Ids => /\ calls[n].status = "refused" => c.status = "refused"
                        /\ calls[n].wrote /\ Command(n) => c.wrote
    PROVE  (RefusedMutation => RefusedMutation') /\ (Unattributed => Unattributed')
<1>1. /\ Ids' = Ids \cup {n} /\ calls'[n] = c
      /\ \A m \in Ids : m # n => calls'[m] = calls[m]
      /\ n \in Ids => c.kind = calls[n].kind
  BY DEF Change, Ids
<1>2. ASSUME RefusedMutation
      PROVE  RefusedMutation'
  <2>1. PICK m \in Ids : calls[m].kind = "mutation" /\ calls[m].status = "refused"
    BY <1>2 DEF RefusedMutation
  <2>2. m \in Ids' /\ calls'[m].kind = "mutation" /\ calls'[m].status = "refused"
    BY <1>1, <2>1
  <2> QED
    BY <2>2 DEF RefusedMutation
<1>3. ASSUME Unattributed
      PROVE  Unattributed'
  <2>1. PICK m \in Ids : Command(m) /\ calls[m].wrote
    BY <1>3 DEF Unattributed
  <2>2. m \in Ids' /\ calls'[m].kind \in {"verification", "shell"} /\ calls'[m].wrote
    BY <1>1, <2>1 DEF Command
  <2> QED
    BY <1>3, <2>2 DEF Unattributed, Command, Dsh
<1> QED
  BY <1>2, <1>3

\* A call moves on without a word in the record.
LEMMA MoveKeepsFiles ==
    ASSUME CallTypes, BoundsAssumption, NoneAssumption, FileTypes, FileInv, NEW n \in Ids,
           NEW c \in Call, Change(n, c), UNCHANGED <<presentation, tree, envelope, facts>>,
           calls[n].at = "logged" => c.at = "logged" \/ c.seal = tree,
           calls[n].seal # None => c.seal = calls[n].seal,
           calls[n].status = "refused" => c.status = "refused",
           calls[n].wrote => c.wrote
    PROVE  FileInv'
<1>1. /\ Ids' = Ids \cup {n} /\ calls'[n] = c
      /\ \A m \in Ids : m # n => calls'[m] = calls[m]
      /\ c.kind = calls[n].kind
  BY DEF Change, Ids
<1>2. tree \in Trees /\ None \notin Trees
  BY Numbers DEF FileTypes
<1>3. LastIsSealed'
  <2> SUFFICES ASSUME lastMutation' \notin {None, 0}
               PROVE  /\ lastMutation' \in Ids'
                      /\ \/ calls'[lastMutation'].at = "logged"
                         \/ calls'[lastMutation'].seal \in Trees
                         \/ /\ calls'[lastMutation'].kind = "mutation"
                            /\ calls'[lastMutation'].status = "refused"
    BY DEF LastIsSealed
  <2>1. /\ lastMutation' = lastMutation /\ lastMutation \in Ids
        /\ \/ calls[lastMutation].at = "logged"
           \/ calls[lastMutation].seal \in Trees
           \/ calls[lastMutation].kind = "mutation" /\ calls[lastMutation].status = "refused"
    BY DEF FileInv, LastIsSealed, facts
  <2> QED
    BY <1>1, <1>2, <2>1
<1>4. (RefusedMutation => RefusedMutation') /\ (Unattributed => Unattributed')
  BY StaysNoticed
<1>5. TreeIsSealed'
  <2> SUFFICES ASSUME ~Dsh'
               PROVE  /\ lastMutation' # 0 /\ envelope'.affected = {}
                      /\ RefusedMutation' \/ Unattributed'
                         \/ IF lastMutation' = None THEN tree' = Untouched
                            ELSE calls'[lastMutation'].at = "logged"
                                 \/ calls'[lastMutation'].seal = tree'
    BY DEF TreeIsSealed
  <2>1. /\ ~Dsh /\ lastMutation' = lastMutation /\ envelope' = envelope /\ tree' = tree
        /\ lastMutation # 0 /\ envelope.affected = {}
        /\ RefusedMutation \/ Unattributed
           \/ IF lastMutation = None THEN tree = Untouched
              ELSE calls[lastMutation].at = "logged" \/ calls[lastMutation].seal = tree
        /\ lastMutation # None => lastMutation \in Ids
    BY DEF FileInv, TreeIsSealed, LastIsSealed, facts, Dsh
  <2> QED
    BY <1>1, <1>2, <1>4, <2>1
<1>6. TreeIsVerified'
  BY <1>4 DEF FileInv, TreeIsVerified, facts, Dsh
<1> QED
  BY <1>3, <1>5, <1>6 DEF FileInv

\* A call is dispatched, or only added.
LEMMA DispatchKeepsFiles ==
    ASSUME CallInv, BoundsAssumption, NoneAssumption, FileTypes, FileInv, NEW n, NEW kind, NEW c \in Call,
           \/ Dispatched(n, c, kind)
           \/ Change(n, c) /\ UNCHANGED facts,
           n \in Ids => calls[n].at = "pending" /\ calls[n].status = "none" /\ calls[n].seal = None,
           n \in Ids => Dsh,
           UNCHANGED <<presentation, tree, envelope>>
    PROVE  FileInv'
<1>1. /\ Ids' = Ids \cup {n} /\ calls'[n] = c
      /\ \A m \in Ids : m # n => calls'[m] = calls[m]
  BY DEF Dispatched, Change, Ids
<1>2. tree \in Trees /\ None \notin Trees /\ Change(n, c)
  BY Numbers DEF FileTypes, CallInv, Dispatched
<1>3. /\ \/ lastMutation' = n /\ c.kind = "mutation" /\ c.status = "refused"
         \/ lastMutation' = lastMutation
      /\ obligation' = obligation /\ verified' = verified
  BY DEF Dispatched, facts
<1>4. lastMutation \notin {None, 0} =>
        /\ lastMutation \in Ids /\ lastMutation # n
        /\ \/ calls[lastMutation].at = "logged"
           \/ calls[lastMutation].seal \in Trees
           \/ calls[lastMutation].kind = "mutation" /\ calls[lastMutation].status = "refused"
  BY <1>2 DEF FileInv, LastIsSealed
<1>5. LastIsSealed'
  <2>1. CASE lastMutation' = n /\ c.kind = "mutation" /\ c.status = "refused"
    BY <1>1, <2>1 DEF LastIsSealed
  <2>2. CASE lastMutation' = lastMutation
    BY <1>1, <1>4, <2>2 DEF LastIsSealed
  <2> QED
    BY <1>3, <2>1, <2>2
<1>6. ASSUME ~Dsh
      PROVE  (RefusedMutation => RefusedMutation') /\ (Unattributed => Unattributed')
  BY <1>2, <1>6, StaysNoticed
<1>7. TreeIsSealed'
  <2> SUFFICES ASSUME ~Dsh'
               PROVE  /\ lastMutation' # 0 /\ envelope'.affected = {}
                      /\ RefusedMutation' \/ Unattributed'
                         \/ IF lastMutation' = None THEN tree' = Untouched
                            ELSE calls'[lastMutation'].at = "logged"
                                 \/ calls'[lastMutation'].seal = tree'
    BY DEF TreeIsSealed
  <2>1. /\ ~Dsh /\ envelope' = envelope /\ tree' = tree
        /\ lastMutation # 0 /\ envelope.affected = {}
        /\ RefusedMutation \/ Unattributed
           \/ IF lastMutation = None THEN tree = Untouched
              ELSE calls[lastMutation].at = "logged" \/ calls[lastMutation].seal = tree
    BY DEF FileInv, TreeIsSealed, Dsh
  <2>2. CASE lastMutation' = n /\ c.kind = "mutation" /\ c.status = "refused"
    <3>1. RefusedMutation'
      BY <1>1, <2>2 DEF RefusedMutation
    <3>2. n # 0
      BY <1>2 DEF Change
    <3> QED
      BY <2>1, <2>2, <3>1, <3>2
  <2>3. CASE lastMutation' = lastMutation
    BY <1>1, <1>4, <1>6, <2>1, <2>3
  <2> QED
    BY <1>3, <2>2, <2>3
<1>8. TreeIsVerified'
  BY <1>3, <1>6 DEF FileInv, TreeIsVerified, Dsh
<1> QED
  BY <1>5, <1>7, <1>8 DEF FileInv
LEMMA LastStays ==
    ASSUME LastIsSealed, UNCHANGED lastMutation, NEW n \in Ids, NEW c \in Call, Change(n, c),
           calls[n].at = "logged" => c.at = "logged" \/ c.seal \in Trees,
           calls[n].seal \in Trees => c.seal \in Trees,
           calls[n].status = "refused" => c.status = "refused"
    PROVE  LastIsSealed'
<1>1. /\ Ids' = Ids \cup {n} /\ calls'[n] = c /\ c.kind = calls[n].kind
      /\ \A m \in Ids : m # n => calls'[m] = calls[m]
  BY DEF Change, Ids
<1> SUFFICES ASSUME lastMutation' \notin {None, 0}
             PROVE  /\ lastMutation' \in Ids'
                    /\ \/ calls'[lastMutation'].at = "logged"
                       \/ calls'[lastMutation'].seal \in Trees
                       \/ /\ calls'[lastMutation'].kind = "mutation"
                          /\ calls'[lastMutation'].status = "refused"
  BY DEF LastIsSealed
<1>2. /\ lastMutation' = lastMutation /\ lastMutation \in Ids
      /\ \/ calls[lastMutation].at = "logged"
         \/ calls[lastMutation].seal \in Trees
         \/ calls[lastMutation].kind = "mutation" /\ calls[lastMutation].status = "refused"
  BY DEF LastIsSealed
<1> QED
  BY <1>1, <1>2

LEMMA LastIsLogged ==
    ASSUME NEW n \in Ids, NEW c \in Call, Change(n, c), lastMutation' = n, c.at = "logged"
    PROVE  LastIsSealed'
<1>1. n \in Ids' /\ calls'[n] = c
  BY DEF Change, Ids
<1> QED
  BY <1>1 DEF LastIsSealed

LEMMA ReturnKeepsFiles ==
    ASSUME CallInv, BoundsAssumption, NoneAssumption, FileTypes, FileInv, NEW n \in Ids,
           NEW status \in {"ok", "rejected", "error"}, NEW c \in Call, NEW wrote,
           Becomes(n, c, Returned(n, status), status, wrote, calls[n].seal),
           ReturnMutation(n, status), calls[n].at \in {"running", "writing"},
           calls[n].kind = "mutation", UNCHANGED <<presentation, envelope>>,
           status = "ok" \/ UNCHANGED tree
    PROVE  FileInv'
<1>1. /\ Change(n, c) /\ c.status = status /\ c.at = Returned(n, status) /\ c.seal = calls[n].seal
      /\ calls[n].status = "none" /\ calls[n].seal = None
  BY DEF Becomes, CallInv, CallsFit, Fits, Waiting, Active
<1>2. CASE Dsh \/ status = "error"
  <2>1. UNCHANGED facts
    BY <1>2 DEF ReturnMutation, AtEnd, MutationFacts
  <2>2. LastIsSealed'
    <3>1. calls[n].at # "logged" /\ calls[n].seal \notin Trees
      BY <1>1, Numbers DEF CallInv
    <3> QED
      BY <1>1, <2>1, <3>1, LastStays DEF FileInv, facts
  <2>3. CASE Dsh
    <3>1. Dsh'
      BY <2>3 DEF Dsh
    <3> QED
      BY <2>2, <3>1 DEF FileInv, TreeIsSealed, TreeIsVerified
  <2>4. CASE status = "error"
    <3>1. ~Command(n)
      BY DEF Command
    <3>2. UNCHANGED tree /\ calls[n].at # "logged"
      BY <2>4
    <3>3. (RefusedMutation => RefusedMutation') /\ (Unattributed => Unattributed')
      BY <1>1, <3>1, StaysNoticed
    <3>4. /\ calls'[n] = c /\ \A m \in Ids : m # n => calls'[m] = calls[m]
      BY <1>1 DEF Change
    <3>5. lastMutation \notin {None, 0} => lastMutation \in Ids /\ lastMutation # n
      BY <1>1, <3>2, Numbers DEF FileInv, LastIsSealed, CallInv
    <3>6. TreeIsSealed'
      BY <2>1, <3>2, <3>3, <3>4, <3>5 DEF FileInv, TreeIsSealed, facts, Dsh
    <3>7. TreeIsVerified'
      BY <2>1, <3>2, <3>3 DEF FileInv, TreeIsVerified, facts, Dsh
    <3> QED
      BY <2>2, <3>6, <3>7 DEF FileInv
  <2> QED
    BY <1>2, <2>3, <2>4
<1>3. CASE ~Dsh /\ status # "error"
  <2>1. LogMutation(n, status) /\ Returned(n, status) = "logged"
    BY <1>3 DEF ReturnMutation, AtEnd, MutationFacts, Returned
  <2>2. /\ lastMutation' = n /\ c.at = "logged" /\ UNCHANGED verified
        /\ obligation' = IF status = "ok" THEN "verification-due" ELSE obligation
    BY <1>1, <2>1 DEF LogMutation
  <2>3. LastIsSealed'
    BY <1>1, <2>2, LastIsLogged
  <2>4. n # None /\ n # 0 /\ calls'[n] = c
    BY <1>1, Numbers DEF CallInv, Change
  <2>5. TreeIsSealed'
    BY <1>3, <2>2, <2>4 DEF FileInv, TreeIsSealed, Dsh
  <2>6. TreeIsVerified'
    <3>1. Unattributed => Unattributed'
      BY <1>1, StaysNoticed DEF Command
    <3>2. CASE status = "ok"
      BY <2>2, <3>2 DEF TreeIsVerified
    <3>3. CASE status # "ok"
      BY <1>3, <2>2, <3>1, <3>3 DEF FileInv, TreeIsVerified, Dsh
    <3> QED
      BY <3>2, <3>3
  <2> QED
    BY <2>3, <2>5, <2>6 DEF FileInv
<1> QED
  BY <1>2, <1>3

LEMMA CaptureKeepsFiles ==
    ASSUME CallInv, FileInv, NEW n \in Ids, NEW c \in Call,
           Becomes(n, c, "logged", calls[n].status, calls[n].wrote, calls[n].seal),
           CaptureSurface(n), UNCHANGED presentation
    PROVE  FileInv'
<1>1. Change(n, c) /\ c.at = "logged" /\ lastMutation' = n
  BY DEF Becomes, CaptureSurface, LogMutation
<1>2. LastIsSealed'
  BY <1>1, LastIsLogged
<1>3. Dsh'
  BY DEF CaptureSurface, CallInv, CallsFit, Fits, Dsh
<1> QED
  BY <1>2, <1>3 DEF FileInv, TreeIsSealed, TreeIsVerified

LEMMA CommandKeepsFiles ==
    ASSUME CallInv, FileInv, NEW n \in Ids, NEW p, NEW c \in Call,
           Becomes(n, c, calls[n].at, calls[n].status, TRUE, calls[n].seal),
           CommandWrites(n, p), UNCHANGED presentation
    PROVE  FileInv'
<1>1. /\ Change(n, c) /\ c.at = calls[n].at /\ c.status = calls[n].status /\ c.wrote
      /\ c.seal = calls[n].seal /\ c.kind = calls[n].kind /\ Command(n)
      /\ UNCHANGED <<envelope, facts>>
  BY DEF Becomes, CommandWrites
<1>2. LastIsSealed'
  BY <1>1, LastStays DEF FileInv, facts
<1>3. ~Dsh' => Unattributed'
  <2>1. n \in Ids' /\ calls'[n] = c /\ calls'[n].kind \in {"verification", "shell"}
    BY <1>1 DEF Change, Ids, Command
  <2> QED
    BY <1>1, <2>1 DEF Unattributed, Command
<1>4. TreeIsSealed' /\ TreeIsVerified'
  BY <1>1, <1>3 DEF FileInv, TreeIsSealed, TreeIsVerified, facts, Dsh
<1> QED
  BY <1>2, <1>4 DEF FileInv

LEMMA OtherKeepsFiles ==
    ASSUME CallInv, BoundsAssumption, NoneAssumption, FileTypes, FileInv, NEW n \in Ids,
           NEW status \in {"ok", "rejected"}, NEW c \in Call,
           Becomes(n, c, AtEnd, status, calls[n].wrote, calls[n].seal),
           ReturnOther(n, status), UNCHANGED presentation
    PROVE  FileInv'
<1>1. /\ Change(n, c) /\ c.status = status /\ (c.wrote <=> calls[n].wrote)
      /\ c.seal = calls[n].seal /\ calls[n].at = "running" /\ calls[n].status = "none"
      /\ calls[n].seal = None
  BY DEF Becomes, ReturnOther, CallInv, CallsFit, Fits, Active
<1>2. UNCHANGED <<tree, envelope, lastMutation>>
  BY DEF ReturnOther
<1>3. LastIsSealed'
  <2>1. calls[n].seal \notin Trees /\ calls[n].at # "logged" /\ calls[n].status # "refused"
    BY <1>1, Numbers DEF CallInv
  <2> QED
    BY <1>1, <1>2, <2>1, LastStays DEF FileInv
<1>4. (RefusedMutation => RefusedMutation') /\ (Unattributed => Unattributed')
  BY <1>1, StaysNoticed
<1>5. TreeIsSealed'
  <2>1. /\ calls'[n] = c /\ \A m \in Ids : m # n => calls'[m] = calls[m]
    BY <1>1 DEF Change
  <2>2. lastMutation \notin {None, 0} => lastMutation \in Ids /\ lastMutation # n
    BY <1>1, Numbers DEF FileInv, LastIsSealed, CallInv
  <2> QED
    BY <1>2, <1>4, <2>1, <2>2 DEF FileInv, TreeIsSealed, Dsh
<1>6. TreeIsVerified'
  <2>1. verified' = tree \/ UNCHANGED <<obligation, verified>>
    BY DEF ReturnOther
  <2> QED
    BY <1>2, <1>4, <2>1 DEF FileInv, TreeIsVerified, Dsh
<1> QED
  BY <1>3, <1>5, <1>6 DEF FileInv
------------------------------------------------------------------------------
(* The steps.                                                              *)

LEMMA StepTypes ==
    ASSUME Types, BoundsAssumption, Next
    PROVE  Types'
<1> USE DEF Types
<1>1. /\ MaxDirectWrites \in Nat /\ UNCHANGED presentation
      /\ \A s, r : TerminalAfter(s, r) \in Terminals
  BY DEF BoundsAssumption, Next, Running, TerminalAfter, Terminals
<1>2. ASSUME NEW n, NEW kind, NEW path, Dispatch(n, kind, path)
      PROVE  toolCalls' \in Nat /\ rejectedToolCalls' \in Nat /\ terminal' \in Terminals
  BY <1>2 DEF Dispatch, counters, Terminals
<1>3. ASSUME NEW status, CountResult(status)
      PROVE  toolCalls' \in Nat /\ rejectedToolCalls' \in Nat
  BY <1>3 DEF CountResult
<1>4. ASSUME NEW kind \in Kinds, NEW path \in Paths \cup {None}, SubmitCall(kind, path)
      PROVE  Types'
  BY <1>1, <1>2, <1>4 DEF SubmitCall, program, counters
<1>5. ASSUME NEW p, NEW v, WriteDirectly(p, v)
      PROVE  Types'
  BY <1>1, <1>5 DEF WriteDirectly, counters
<1>6. ASSUME NEW how \in {"returned", "threw", "wall"}, EndProgram(how)
      PROVE  Types'
  BY <1>1, <1>6 DEF EndProgram, program, counters, Stages, Outcomes
<1>7. ASSUME Deadline
      PROVE  Types'
  BY <1>1, <1>7 DEF Deadline, program, counters, Stages, Outcomes
<1>8. ASSUME NEW n, StartCall(n)
      PROVE  Types'
  BY <1>1, <1>2, <1>8 DEF StartCall, program
<1>9. ASSUME NEW n, ClassifyMalformed(n)
      PROVE  Types'
  BY <1>1, <1>9 DEF ClassifyMalformed, program, counters, Stages
<1>10. ASSUME NEW n, AbandonCall(n)
      PROVE  Types'
  BY <1>1, <1>10 DEF AbandonCall, program, counters
<1>11. ASSUME NEW n, DeliverReply(n)
      PROVE  Types'
  BY <1>1, <1>11 DEF DeliverReply, program, counters
<1>12. ASSUME NEW n, LeaveQueue(n)
      PROVE  Types'
  BY <1>1, <1>12 DEF LeaveQueue, program, counters
<1>13. ASSUME NEW n, BeginWrite(n)
      PROVE  Types'
  BY <1>1, <1>13 DEF BeginWrite, program, counters
<1>14. ASSUME NEW n, WriteFile(n)
      PROVE  Types'
  BY <1>1, <1>3, <1>14 DEF WriteFile, ReturnMutation, program
<1>15. ASSUME NEW n, RejectMutation(n)
      PROVE  Types'
  BY <1>1, <1>3, <1>15 DEF RejectMutation, ReturnMutation, program
<1>16. ASSUME NEW n, CaptureSurface(n)
      PROVE  Types'
  BY <1>1, <1>16 DEF CaptureSurface, program, counters
<1>17. ASSUME NEW n, SealMutation(n)
      PROVE  Types'
  BY <1>1, <1>17 DEF SealMutation, program
<1>18. ASSUME NEW n, NEW p, CommandWrites(n, p)
      PROVE  Types'
  BY <1>1, <1>18 DEF CommandWrites, program, counters
<1>19. ASSUME NEW n, NEW status, ReturnOther(n, status)
      PROVE  Types'
  BY <1>1, <1>3, <1>19 DEF ReturnOther, program
<1>20. ASSUME NEW n, LoseCommand(n)
      PROVE  Types'
  BY <1>1, <1>20 DEF LoseCommand, program, counters
<1>21. ASSUME Drain
      PROVE  Types'
  BY <1>1, <1>21 DEF Drain, program, counters, Stages
<1>22. ASSUME TerminateHost
      PROVE  Types'
  BY <1>1, <1>22 DEF TerminateHost, counters, Stages
<1>23. ASSUME Collect
      PROVE  Types'
  BY <1>1, <1>23 DEF Collect, program, counters, Stages
<1>24. ASSUME RecordResult
      PROVE  Types'
  BY <1>1, <1>24 DEF RecordResult, program, counters, Stages
<1>25. ASSUME SealResult
      PROVE  Types'
  BY <1>1, <1>25 DEF SealResult, program, counters, Stages
<1> QED
  <2>1. ASSUME NEW n \in Ids, Nested(n)
        PROVE  Types'
    BY <2>1, <1>8, <1>9, <1>10, <1>11, <1>12, <1>13, <1>14, <1>15, <1>16, <1>17, <1>19, <1>20 DEF Nested
  <2>2. ASSUME Environment
        PROVE  Types'
    BY <2>2, <1>4, <1>5, <1>6, <1>7, <1>18 DEF Environment
  <2> QED
    BY <2>1, <2>2, <1>6, <1>21, <1>22, <1>23, <1>24, <1>25 DEF Next, Finish
LEMMA TreeUpdate ==
    ASSUME NEW t \in Trees, NEW p, NEW v \in Contents
    PROVE  [t EXCEPT ![p] = v] \in Trees
  BY DEF Trees

LEMMA StepFileTypes ==
    ASSUME Types, FileTypes, CallTypes, BoundsAssumption, NoneAssumption, Next
    PROVE  FileTypes'
<1>1. /\ MaxCalls \in Nat
      /\ \A n \in Ids : n \in 0 .. MaxCalls /\ n \in Contents
      /\ Len(calls) < MaxCalls => Len(calls) + 1 \in 0 .. MaxCalls
      /\ 0 \in 0 .. MaxCalls /\ Original \in Contents /\ Program \in Contents
  <2>1. Len(calls) \in Nat /\ MaxCalls \in Nat
    BY DEF CallTypes, BoundsAssumption
  <2> QED
    BY <2>1, Numbers DEF Contents, Original, Program
<1>2. ASSUME UNCHANGED <<tree, owned, envelope, facts>>
      PROVE  FileTypes'
  BY <1>2 DEF FileTypes, facts
<1>3. ASSUME NEW n \in 0 .. MaxCalls, NEW kind, NEW path, Dispatch(n, kind, path),
             UNCHANGED <<tree, owned, envelope>>
      PROVE  FileTypes'
  BY <1>3 DEF FileTypes, Dispatch, facts
<1>4. ASSUME NEW n \in 0 .. MaxCalls, NEW status, LogMutation(n, status)
      PROVE  /\ lastMutation' \in 0 .. MaxCalls \cup {None}
             /\ obligation' \in {"none", "verification-due", "repair-due"}
             /\ verified' \in Trees \cup {None}
  BY <1>4 DEF FileTypes, LogMutation
<1>5. ASSUME NEW n \in Ids, NEW status, ReturnMutation(n, status)
      PROVE  /\ lastMutation' \in 0 .. MaxCalls \cup {None}
             /\ obligation' \in {"none", "verification-due", "repair-due"}
             /\ verified' \in Trees \cup {None}
  <2>1. LogMutation(n, status) \/ UNCHANGED facts
    BY <1>5 DEF ReturnMutation
  <2> QED
    BY <1>1, <1>4, <2>1 DEF FileTypes, facts
<1>6. ASSUME NEW kind, NEW path, SubmitCall(kind, path)
      PROVE  FileTypes'
  <2>1. Len(calls) + 1 \in 0 .. MaxCalls /\ UNCHANGED <<tree, owned, envelope>>
    BY <1>1, <1>6 DEF SubmitCall
  <2>2. UNCHANGED facts \/ Dispatch(Len(calls) + 1, kind, path)
    BY <1>6 DEF SubmitCall
  <2> QED
    BY <1>2, <1>3, <2>1, <2>2
<1>7. ASSUME NEW p \in Paths, NEW v \in {Original, Program, owned[p]} \ {None}, WriteDirectly(p, v)
      PROVE  FileTypes'
  <2>1. v \in Contents
    BY <1>1 DEF FileTypes
  <2>2. tree' \in Trees /\ UNCHANGED <<owned, envelope, facts>>
    BY <1>7, <2>1, TreeUpdate DEF WriteDirectly, FileTypes
  <2> QED
    BY <2>2 DEF FileTypes, facts
<1>8. ASSUME NEW n \in Ids, StartCall(n)
      PROVE  FileTypes'
  BY <1>1, <1>3, <1>8 DEF StartCall
<1>9. ASSUME NEW n \in Ids, WriteFile(n)
      PROVE  FileTypes'
  <2>1. tree' \in Trees /\ UNCHANGED <<owned, envelope>>
    BY <1>1, <1>9, TreeUpdate DEF WriteFile, FileTypes
  <2>2. ReturnMutation(n, "ok")
    BY <1>9 DEF WriteFile
  <2> QED
    BY <1>5, <2>1, <2>2 DEF FileTypes
<1>10. ASSUME NEW n \in Ids, RejectMutation(n)
       PROVE  FileTypes'
  <2>1. \E status : ReturnMutation(n, status)
    BY <1>10 DEF RejectMutation
  <2>2. UNCHANGED <<tree, owned, envelope>>
    BY <1>10 DEF RejectMutation
  <2> QED
    BY <1>5, <2>1, <2>2 DEF FileTypes
<1>11. ASSUME NEW n \in Ids, CaptureSurface(n)
       PROVE  FileTypes'
  <2>1. owned' \in [Paths -> Contents \cup {None}]
    <3>1. ASSUME NEW p \in Paths
          PROVE  tree[p] \in Contents
      BY DEF FileTypes, Trees
    <3>2. owned' = owned \/ owned' = [owned EXCEPT ![calls[n].path] = tree[calls[n].path]]
      BY <1>11 DEF CaptureSurface
    <3> QED
      BY <3>1, <3>2 DEF FileTypes
  <2>2. LogMutation(n, calls[n].status) /\ UNCHANGED <<tree, envelope>>
    BY <1>11 DEF CaptureSurface
  <2> QED
    BY <1>1, <1>4, <2>1, <2>2 DEF FileTypes
<1>12. ASSUME NEW n \in Ids, NEW p, CommandWrites(n, p)
       PROVE  FileTypes'
  <2>1. tree' \in Trees /\ UNCHANGED <<owned, envelope, facts>>
    BY <1>1, <1>12, TreeUpdate DEF CommandWrites, FileTypes
  <2> QED
    BY <2>1 DEF FileTypes, facts
<1>13. ASSUME NEW n, NEW status, ReturnOther(n, status)
       PROVE  FileTypes'
  BY <1>13 DEF FileTypes, ReturnOther
<1>14. ASSUME Collect
       PROVE  FileTypes'
  <2>1. PICK s \in {"ok", "error"}, a \in SUBSET Paths :
          envelope' = [envelope EXCEPT !.status = s, !.affected = a]
    <3>1. DirectlyAffected \in SUBSET Paths
      BY DEF DirectlyAffected
    <3>2. PICK s : s = IF outcome = "returned" THEN "ok" ELSE "error"
      OBVIOUS
    <3>3. PICK a : a = IF outcome # "returned" /\ deadline THEN {} ELSE DirectlyAffected
      OBVIOUS
    <3> QED
      BY <1>14, <3>1, <3>2, <3>3 DEF Collect
  <2>2. envelope' \in Envelope
    BY <2>1 DEF FileTypes, Envelope
  <2>3. UNCHANGED <<tree, owned, facts>>
    BY <1>14 DEF Collect
  <2> QED
    BY <2>2, <2>3 DEF FileTypes, facts
<1>15. ASSUME RecordResult
       PROVE  FileTypes'
  <2>1. (LogMutation(0, envelope.status) \/ UNCHANGED facts) /\ UNCHANGED <<tree, owned, envelope>>
    BY <1>15 DEF RecordResult
  <2> QED
    BY <1>1, <1>4, <2>1 DEF FileTypes, facts
<1>16. ASSUME SealResult
       PROVE  FileTypes'
  <2>1. envelope' = [envelope EXCEPT !.seal = tree] /\ UNCHANGED <<tree, owned, facts>>
    BY <1>16 DEF SealResult
  <2>2. envelope' \in Envelope
    BY <2>1 DEF FileTypes, Envelope
  <2> QED
    BY <2>1, <2>2 DEF FileTypes, facts
<1>17. ASSUME NEW n \in Ids, Nested(n)
       PROVE  FileTypes'
  <2>1. CASE ClassifyMalformed(n) \/ AbandonCall(n) \/ DeliverReply(n) \/ LeaveQueue(n)
             \/ BeginWrite(n) \/ SealMutation(n) \/ LoseCommand(n)
    BY <1>2, <2>1 DEF ClassifyMalformed, AbandonCall, DeliverReply, LeaveQueue, BeginWrite,
       SealMutation, LoseCommand
  <2> QED
    BY <1>8, <1>9, <1>10, <1>11, <1>13, <1>17, <2>1 DEF Nested
<1>18. ASSUME Environment
       PROVE  FileTypes'
  <2>1. CASE Deadline \/ \E how : EndProgram(how)
    BY <1>2, <2>1 DEF Deadline, EndProgram
  <2> QED
    BY <1>6, <1>7, <1>12, <1>18, <2>1 DEF Environment
<1>19. ASSUME Drain \/ TerminateHost \/ EndProgram("wall")
       PROVE  FileTypes'
  BY <1>2, <1>19 DEF Drain, TerminateHost, EndProgram
<1> QED
  BY <1>14, <1>15, <1>16, <1>17, <1>18, <1>19 DEF Next, Finish
LEMMA EndsEarly ==
    ASSUME stage' \in {"running", "draining", "crashed"}
    PROVE  Closed' /\ Found'
  BY DEF Closed, Found

\* A call that is not over holds the end of the action up.
LEMMA HeldUp ==
    ASSUME Types, Closed, Running, NEW n \in Ids, calls[n].at # "delivered", UNCHANGED stage
    PROVE  Closed' /\ Found'
<1>1. stage \in {"running", "draining"}
  BY DEF Closed, Drained, Running
<1> QED
  BY <1>1, EndsEarly

LEMMA StepNested ==
    ASSUME IInv, BoundsAssumption, NoneAssumption, Running, NEW n \in Ids, Nested(n)
    PROVE  CallInv' /\ FileInv' /\ Closed' /\ Found'
<1>1. /\ CallInv /\ CallTypes /\ Types /\ FileTypes /\ FileInv /\ Closed /\ UNCHANGED presentation
      /\ MaxToolCalls \in Nat /\ MaxCalls \in Nat
      /\ calls[n] \in Call /\ Fits(calls[n]) /\ None \notin Trees
  BY DEF IInv, CallInv, FileInv, Running, BoundsAssumption, NoneAssumption, CallTypes, CallsFit, Ids
<1>2. CASE StartCall(n)
  <2>1. CallInv' /\ calls[n].at = "pending" /\ calls[n].status = "none" /\ calls[n].seal = None
    BY <1>1, <1>2, Starts
  <2>2. PICK c \in Call : Dispatched(n, c, calls[n].kind)
    BY <1>1, <1>2, Starts
  <2>3. UNCHANGED <<tree, envelope, stage>> /\ Dsh
    BY <1>1, <1>2, <2>1 DEF StartCall, Fits
  <2>4. FileInv'
    BY <1>1, <2>1, <2>2, <2>3, DispatchKeepsFiles
  <2> QED
    BY <1>1, <2>1, <2>3, <2>4, HeldUp
<1>3. CASE ClassifyMalformed(n)
  <2>1. /\ stage' = "crashed"
        /\ UNCHANGED <<calls, toolCalls, rejectedToolCalls, tree, envelope, facts>>
    BY <1>3 DEF ClassifyMalformed, counters
  <2>2. CallInv'
    BY <1>1, <2>1, QuietCalls
  <2>3. FileInv'
    BY <1>1, <2>1 DEF FileInv, LastIsSealed, TreeIsSealed, TreeIsVerified, facts, Ids, RefusedMutation,
       Unattributed, Command, Dsh
  <2> QED
    BY <2>1, <2>2, <2>3, EndsEarly
<1>4. CASE AbandonCall(n)
  <2>1. PICK c \in Call : Becomes(n, c, "delivered", "abandoned", calls[n].wrote, calls[n].seal)
    BY <1>1, <1>4, Abandons
  <2>2. CallInv' /\ calls[n].at = "pending"
    BY <1>1, <1>4, Abandons
  <2>3. UNCHANGED <<stage, tree, envelope, facts>> /\ calls[n].status = "none"
    BY <1>1, <1>4, <2>2 DEF AbandonCall, Fits
  <2>4. FileInv'
    BY <1>1, <2>1, <2>2, <2>3, MoveKeepsFiles DEF Becomes
  <2> QED
    BY <1>1, <2>2, <2>3, <2>4, HeldUp
<1>5. CASE DeliverReply(n)
  <2>1. PICK c \in Call : Becomes(n, c, "delivered", calls[n].status, calls[n].wrote, calls[n].seal)
    BY <1>1, <1>5, Delivers
  <2>2. CallInv' /\ calls[n].at = "settled"
    BY <1>1, <1>5, Delivers
  <2>3. UNCHANGED <<stage, tree, envelope, facts>>
    BY <1>5 DEF DeliverReply
  <2>4. FileInv'
    BY <1>1, <2>1, <2>2, <2>3, MoveKeepsFiles DEF Becomes
  <2> QED
    BY <1>1, <2>2, <2>3, <2>4, HeldUp
<1>6. CASE LeaveQueue(n)
  <2>1. PICK c \in Call : Becomes(n, c, "running", calls[n].status, calls[n].wrote, calls[n].seal)
    BY <1>1, <1>6, Leaves
  <2>2. CallInv' /\ calls[n].at = "queued"
    BY <1>1, <1>6, Leaves
  <2>3. UNCHANGED <<stage, tree, envelope, facts>>
    BY <1>6 DEF LeaveQueue
  <2>4. FileInv'
    BY <1>1, <2>1, <2>2, <2>3, MoveKeepsFiles DEF Becomes
  <2> QED
    BY <1>1, <2>2, <2>3, <2>4, HeldUp
<1>7. CASE BeginWrite(n)
  <2>1. PICK c \in Call : Becomes(n, c, "writing", calls[n].status, calls[n].wrote, calls[n].seal)
    BY <1>1, <1>7, Begins
  <2>2. CallInv' /\ calls[n].at = "running"
    BY <1>1, <1>7, Begins
  <2>3. UNCHANGED <<stage, tree, envelope, facts>>
    BY <1>7 DEF BeginWrite
  <2>4. FileInv'
    BY <1>1, <2>1, <2>2, <2>3, MoveKeepsFiles DEF Becomes
  <2> QED
    BY <1>1, <2>2, <2>3, <2>4, HeldUp
<1>8. CASE RejectMutation(n)
  <2>1. /\ CallInv' /\ calls[n].at = "running" /\ calls[n].kind = "mutation"
    BY <1>1, <1>8, RejectsMutation
  <2>2. PICK status \in {"rejected", "error"} :
          /\ ReturnMutation(n, status)
          /\ \E c \in Call : Becomes(n, c, Returned(n, status), status, FALSE, calls[n].seal)
    BY <1>1, <1>8, RejectsMutation
  <2>3. PICK c \in Call : Becomes(n, c, Returned(n, status), status, FALSE, calls[n].seal)
    BY <2>2
  <2>4. UNCHANGED <<stage, tree, envelope>>
    BY <1>8 DEF RejectMutation
  <2>5. FileInv'
    BY <1>1, <2>1, <2>2, <2>3, <2>4, ReturnKeepsFiles
  <2> QED
    BY <1>1, <2>1, <2>4, <2>5, HeldUp
<1>9. CASE CaptureSurface(n)
  <2>1. PICK c \in Call : Becomes(n, c, "logged", calls[n].status, calls[n].wrote, calls[n].seal)
    BY <1>1, <1>9, Captures
  <2>2. CallInv' /\ calls[n].at = "counted"
    BY <1>1, <1>9, Captures
  <2>3. FileInv'
    BY <1>1, <1>9, <2>1, CaptureKeepsFiles
  <2>4. UNCHANGED stage
    BY <1>9 DEF CaptureSurface
  <2> QED
    BY <1>1, <2>2, <2>3, <2>4, HeldUp
<1>10. CASE SealMutation(n)
  <2>1. PICK c \in Call : Becomes(n, c, AtEnd, calls[n].status, calls[n].wrote, tree)
    BY <1>1, <1>10, Seals
  <2>2. CallInv' /\ calls[n].at = "logged" /\ calls[n].seal = None
    BY <1>1, <1>10, Seals DEF Fits, Active
  <2>3. UNCHANGED <<stage, tree, envelope, facts>>
    BY <1>10 DEF SealMutation
  <2>4. FileInv'
    BY <1>1, <2>1, <2>2, <2>3, MoveKeepsFiles DEF Becomes
  <2> QED
    BY <1>1, <2>2, <2>3, <2>4, HeldUp
<1>11. CASE LoseCommand(n)
  <2>1. PICK c \in Call : Becomes(n, c, AtEnd, "lost", calls[n].wrote, calls[n].seal)
    BY <1>1, <1>11, Loses
  <2>2. CallInv' /\ calls[n].at = "running" /\ calls[n].status = "none"
    BY <1>1, <1>11, Loses DEF Fits
  <2>3. UNCHANGED <<stage, tree, envelope, facts>>
    BY <1>11 DEF LoseCommand
  <2>4. FileInv'
    BY <1>1, <2>1, <2>2, <2>3, MoveKeepsFiles DEF Becomes
  <2> QED
    BY <1>1, <2>2, <2>3, <2>4, HeldUp
<1>12. CASE WriteFile(n)
  <2>1. /\ CallInv' /\ calls[n].at = "writing" /\ calls[n].kind = "mutation" /\ ReturnMutation(n, "ok")
    BY <1>1, <1>12, WritesFile
  <2>2. PICK c \in Call : Becomes(n, c, Returned(n, "ok"), "ok", TRUE, calls[n].seal)
    BY <1>1, <1>12, WritesFile
  <2>3. UNCHANGED <<stage, envelope>>
    BY <1>12 DEF WriteFile
  <2>4. FileInv'
    <3>1. PICK status \in {"ok", "rejected", "error"} : status = "ok"
      OBVIOUS
    <3>2. FileInv'
      BY <1>1, <2>1, <2>2, <2>3, <3>1, ReturnKeepsFiles
    <3> QED
      BY <3>2
  <2> QED
    BY <1>1, <2>1, <2>3, <2>4, HeldUp
<1>13. CASE \E status \in {"ok", "rejected"} : ReturnOther(n, status)
  <2>1. PICK status \in {"ok", "rejected"} : ReturnOther(n, status)
    BY <1>13
  <2>2. PICK c \in Call : Becomes(n, c, AtEnd, status, calls[n].wrote, calls[n].seal)
    BY <1>1, <2>1, ReturnsOther
  <2>3. CallInv' /\ calls[n].at = "running"
    BY <1>1, <2>1, ReturnsOther
  <2>4. FileInv'
    BY <1>1, <2>1, <2>2, OtherKeepsFiles
  <2>5. UNCHANGED stage
    BY <2>1 DEF ReturnOther
  <2> QED
    BY <1>1, <2>3, <2>4, <2>5, HeldUp
<1> QED
  BY <1>2, <1>3, <1>4, <1>5, <1>6, <1>7, <1>8, <1>9, <1>10, <1>11, <1>12, <1>13 DEF Nested
LEMMA QuietFiles ==
    ASSUME FileInv, UNCHANGED <<presentation, calls, tree, facts>>,
           envelope'.affected = envelope.affected
    PROVE  FileInv'
  BY DEF FileInv, LastIsSealed, TreeIsSealed, TreeIsVerified, facts, Ids, RefusedMutation,
     Unattributed, Command, Dsh

LEMMA StepEnvironment ==
    ASSUME IInv, BoundsAssumption, NoneAssumption, Running, Environment \/ EndProgram("wall")
    PROVE  CallInv' /\ FileInv' /\ Closed' /\ Found'
<1>1. /\ CallInv /\ CallTypes /\ Types /\ FileTypes /\ FileInv /\ Closed /\ Found
      /\ UNCHANGED presentation /\ MaxToolCalls \in Nat /\ MaxCalls \in Nat
  BY DEF IInv, CallInv, FileInv, Running, BoundsAssumption
<1>2. ASSUME NEW kind \in Kinds, NEW path \in Paths \cup {None}, SubmitCall(kind, path)
      PROVE  CallInv' /\ FileInv' /\ Closed' /\ Found'
  <2>1. PICK n : n = Len(calls) + 1
    OBVIOUS
  <2>2. PICK c \in Call : \/ Change(n, c) /\ UNCHANGED facts
                          \/ Dispatched(n, c, kind)
    BY <1>1, <1>2, <2>1, Submits
  <2>3. CallInv'
    BY <1>1, <1>2, Submits
  <2>4. n \notin Ids
    BY <1>1, <2>1 DEF CallTypes, Ids
  <2>5. UNCHANGED <<tree, envelope>> /\ stage' = "running"
    BY <1>2 DEF SubmitCall
  <2>6. FileInv'
    BY <1>1, <2>2, <2>4, <2>5, DispatchKeepsFiles
  <2> QED
    BY <2>3, <2>5, <2>6, EndsEarly
<1>3. ASSUME NEW p, NEW v, WriteDirectly(p, v)
      PROVE  CallInv' /\ FileInv' /\ Closed' /\ Found'
  <2>1. /\ UNCHANGED <<stage, outcome, deadline, calls, toolCalls, rejectedToolCalls, envelope, facts, orphan>>
        /\ Dsh /\ Dsh'
        /\ stage \in {"running", "draining", "terminating", "unconfirmed"} \/ orphan
    BY <1>1, <1>3 DEF WriteDirectly, counters, Dsh
  <2>2. CallInv'
    BY <1>1, <2>1, QuietCalls
  <2>3. FileInv'
    BY <1>1, <2>1 DEF FileInv, LastIsSealed, TreeIsSealed, TreeIsVerified, facts, Ids
  <2>4. Closed' /\ Found'
    BY <1>1, <2>1 DEF Closed, Found, Drained, Ids
  <2> QED
    BY <2>2, <2>3, <2>4
<1>4. ASSUME NEW how, EndProgram(how)
      PROVE  CallInv' /\ FileInv' /\ Closed' /\ Found'
  <2>1. /\ UNCHANGED <<calls, toolCalls, rejectedToolCalls, tree, envelope, facts>>
        /\ stage' = "draining"
    BY <1>4 DEF EndProgram, counters
  <2> QED
    BY <1>1, <2>1, QuietCalls, QuietFiles, EndsEarly
<1>5. ASSUME NEW n \in Ids, NEW p, CommandWrites(n, p)
      PROVE  CallInv' /\ FileInv' /\ Closed' /\ Found'
  <2>1. PICK c \in Call : Becomes(n, c, calls[n].at, calls[n].status, TRUE, calls[n].seal)
    BY <1>1, <1>5, Writes
  <2>2. CallInv' /\ calls[n].at = "running" /\ UNCHANGED stage
    BY <1>1, <1>5, Writes DEF CommandWrites
  <2>3. FileInv'
    BY <1>1, <1>5, <2>1, CommandKeepsFiles
  <2> QED
    BY <1>1, <2>2, <2>3, HeldUp
<1>6. ASSUME Deadline
      PROVE  CallInv' /\ FileInv' /\ Closed' /\ Found'
  <2>1. UNCHANGED <<calls, toolCalls, rejectedToolCalls, tree, owned, envelope, facts, orphan>>
    BY <1>6 DEF Deadline, counters, program
  <2>2. CallInv' /\ FileInv'
    BY <1>1, <2>1, QuietCalls, QuietFiles
  <2>3. CASE stage = "running"
    BY <1>6, <2>2, <2>3, EndsEarly DEF Deadline
  <2>4. CASE stage # "running"
    <3>1. UNCHANGED <<outcome, stage>> /\ deadline' = TRUE /\ stage # "over"
      BY <1>6, <2>4 DEF Deadline
    <3>2. Closed'
      BY <1>1, <2>1, <3>1 DEF Closed, Drained, Ids
    <3>3. Found'
      BY <1>1, <2>1, <3>1 DEF Found, Looked, DirectlyAffected, facts, Dsh
    <3> QED
      BY <2>2, <3>2, <3>3
  <2> QED
    BY <2>3, <2>4
<1> QED
  BY <1>2, <1>3, <1>4, <1>5, <1>6 DEF Environment

LEMMA StepFinish ==
    ASSUME IInv, Running, Finish
    PROVE  CallInv' /\ FileInv' /\ Closed' /\ Found'
<1>1. /\ CallInv /\ Types /\ FileTypes /\ FileInv /\ Closed /\ Found /\ UNCHANGED presentation
  BY DEF IInv, CallInv, FileInv, Running
<1>2. CallInv'
  <2>1. UNCHANGED <<calls, toolCalls, rejectedToolCalls>>
    BY DEF Finish, Drain, TerminateHost, Collect, RecordResult, SealResult, counters
  <2> QED
    BY <1>1, <2>1, QuietCalls
<1>3. Drained /\ Drained'
  <2>1. Drained
    BY <1>1 DEF Finish, Drain, TerminateHost, Collect, RecordResult, SealResult, Closed
  <2>2. UNCHANGED calls
    BY DEF Finish, Drain, TerminateHost, Collect, RecordResult, SealResult
  <2> QED
    BY <2>1, <2>2 DEF Drained, Ids
<1>4. Closed'
  BY <1>3 DEF Closed
<1>5. CASE Drain \/ TerminateHost
  <2>1. /\ UNCHANGED <<calls, tree, envelope, facts>>
        /\ stage' \in {"terminating", "collecting", "unconfirmed"}
    BY <1>5 DEF Drain, TerminateHost
  <2> QED
    BY <1>1, <1>2, <1>4, <2>1, QuietFiles DEF Found
<1>6. CASE Collect
  <2>1. PICK s, a : /\ s = IF outcome = "returned" THEN "ok" ELSE "error"
                    /\ a = IF outcome # "returned" /\ deadline THEN {} ELSE DirectlyAffected
    OBVIOUS
  <2>2. envelope' = [envelope EXCEPT !.status = s, !.affected = a]
    BY <1>6, <2>1 DEF Collect
  <2>3. envelope'.status = s /\ envelope'.affected = a
    BY <1>1, <2>2 DEF FileTypes, Envelope
  <2>4. /\ UNCHANGED <<outcome, deadline, calls, tree, owned, facts, orphan>>
        /\ stage' = "recording"
    BY <1>6 DEF Collect, program
  <2>5. Found'
    BY <1>1, <2>1, <2>3, <2>4 DEF Found, Looked, DirectlyAffected, Dsh
  <2>6. FileInv'
    <3>1. CASE Dsh
      BY <1>1, <2>4, <3>1 DEF FileInv, LastIsSealed, TreeIsSealed, TreeIsVerified, facts, Ids, Dsh
    <3>2. CASE ~Dsh
      <4>1. envelope'.affected = envelope.affected
        BY <1>1, <2>1, <2>3, <3>2 DEF DirectlyAffected, FileInv, TreeIsSealed
      <4> QED
        BY <1>1, <2>4, <4>1, QuietFiles
    <3> QED
      BY <3>1, <3>2
  <2> QED
    BY <1>2, <1>4, <2>5, <2>6
<1>7. CASE RecordResult
  <2>1. /\ UNCHANGED <<outcome, deadline, calls, tree, owned, envelope, orphan>>
        /\ stage = "recording"
        /\ stage' = IF envelope.affected # {} /\ ~deadline THEN "sealing" ELSE "over"
    BY <1>7 DEF RecordResult, program
  <2>2. CASE envelope.affected = {}
    <3>1. UNCHANGED facts
      BY <1>7, <2>2 DEF RecordResult
    <3>2. FileInv'
      BY <1>1, <2>1, <3>1, QuietFiles
    <3>3. Found'
      BY <1>1, <2>1, <2>2 DEF Found, Looked, DirectlyAffected, Dsh
    <3> QED
      BY <1>2, <1>4, <3>2, <3>3
  <2>3. CASE envelope.affected # {}
    <3>1. /\ lastMutation' = 0
          /\ obligation' = IF envelope.status = "ok" THEN "verification-due" ELSE obligation
      BY <1>7, <2>3 DEF RecordResult, LogMutation
    <3>2. Dsh /\ Dsh'
      BY <1>1, <2>3 DEF FileInv, TreeIsSealed, Dsh
    <3>3. FileInv'
      BY <3>1, <3>2 DEF FileInv, LastIsSealed, TreeIsSealed, TreeIsVerified
    <3>4. Found'
      BY <1>1, <2>1, <2>3, <3>1 DEF Found, Looked, Dsh
    <3> QED
      BY <1>2, <1>4, <3>3, <3>4
  <2> QED
    BY <2>2, <2>3
<1>8. CASE SealResult
  <2>1. /\ UNCHANGED <<outcome, deadline, calls, tree, owned, facts, orphan>>
        /\ stage = "sealing" /\ stage' = "over"
        /\ envelope' = [envelope EXCEPT !.seal = tree]
    BY <1>8 DEF SealResult, program
  <2>2. envelope'.affected = envelope.affected /\ envelope'.seal = tree
    BY <1>1, <2>1 DEF FileTypes, Envelope
  <2>3. FileInv'
    BY <1>1, <2>1, <2>2, QuietFiles
  <2>4. Found'
    BY <1>1, <2>1, <2>2 DEF Found, Looked, DirectlyAffected, facts, Dsh
  <2> QED
    BY <1>2, <1>4, <2>3, <2>4
<1> QED
  BY <1>5, <1>6, <1>7, <1>8 DEF Finish

------------------------------------------------------------------------------
(* The theorems.                                                           *)

LEMMA InitInv ==
    ASSUME Init, BoundsAssumption, NoneAssumption
    PROVE  IInv
<1>1. calls = <<>> /\ Ids = {} /\ Len(calls) = 0
  BY DEF Init, Ids
<1>2. Types /\ CallTypes
  <2>1. MaxDirectWrites \in Nat /\ MaxCalls \in Nat
    BY DEF BoundsAssumption
  <2>2. Types
    <3>1. /\ presentation \in {"code", "dsh-compatible"} /\ stage = "running" /\ outcome = "none"
          /\ ~deadline /\ ~orphan /\ toolCalls = 0 /\ rejectedToolCalls = 0 /\ terminal = "none"
          /\ directWrites = 0
      BY DEF Init
    <3>2. deadline \in BOOLEAN /\ orphan \in BOOLEAN
      BY DEF Init
    <3> QED
      BY <2>1, <3>1, <3>2 DEF Types, Stages, Outcomes, Terminals
  <2>3. calls \in Seq(Call)
    BY <1>1
  <2> QED
    BY <1>1, <2>1, <2>2, <2>3 DEF CallTypes
<1>3. FileTypes
  <2>1. Original \in Contents
    BY DEF Original, Contents, BoundsAssumption
  <2>2. tree \in Trees /\ owned \in [Paths -> Contents \cup {None}]
    BY <2>1 DEF Init, Untouched, Trees
  <2>3. envelope \in Envelope
    BY DEF Init, Envelope
  <2> QED
    BY <2>2, <2>3 DEF Init, FileTypes
<1>4. Ledger /\ BudgetReserved
  <2>1. \A S : Results(S) = {}
    BY <1>1 DEF Results
  <2>2. Uncounted = {} /\ Cardinality({}) = 0
    BY <1>1, FS_EmptySet DEF Uncounted
  <2>3. toolCalls = 0 /\ rejectedToolCalls = 0 /\ MaxToolCalls \in Nat
    BY DEF Init, BoundsAssumption
  <2> QED
    BY <2>1, <2>2, <2>3 DEF Ledger, LedgerToolCalls, LedgerRejectedToolCalls, BudgetReserved
<1>5. CallsFit /\ InSubmissionOrder /\ PendingLast
  BY <1>1 DEF CallsFit, InSubmissionOrder, PendingLast
<1>6. FileInv
  BY DEF Init, FileInv, LastIsSealed, TreeIsSealed, TreeIsVerified, NoneAssumption, Contents
<1>7. Closed /\ Found /\ OwnResult
  BY DEF Init, Closed, Found, OwnResult, NoneAssumption, Contents, BoundsAssumption
<1> QED
  BY <1>2, <1>3, <1>4, <1>5, <1>6, <1>7 DEF IInv, FileInv

LEMMA StepOwn ==
    ASSUME IInv, BoundsAssumption, NoneAssumption, Next
    PROVE  OwnResult'
<1> SUFFICES ASSUME lastMutation' = 0
             PROVE  stage' \in {"sealing", "over"} /\ envelope'.affected # {}
  BY DEF OwnResult
<1>1. /\ OwnResult /\ Closed /\ Running /\ envelope \in Envelope
      /\ 0 \notin Ids /\ Len(calls) + 1 # 0
  BY Numbers DEF IInv, FileTypes, Next, CallTypes
<1>2. CASE RecordResult
  BY <1>1, <1>2 DEF RecordResult, OwnResult, facts
<1>3. CASE SealResult
  <2>1. envelope'.affected = envelope.affected /\ lastMutation = 0 /\ stage' = "over"
    BY <1>1, <1>3 DEF SealResult, Envelope, facts
  <2> QED
    BY <1>1, <2>1 DEF OwnResult
<1>4. CASE Drain \/ TerminateHost \/ Collect \/ \E how : EndProgram(how)
  BY <1>1, <1>4 DEF Drain, TerminateHost, Collect, EndProgram, OwnResult, facts
<1>5. CASE Deadline
  BY <1>1, <1>5 DEF Deadline, OwnResult, facts
<1>6. CASE \/ \E n \in Ids : StartCall(n)
           \/ \E kind, path : SubmitCall(kind, path)
  <2>1. PICK n, kind, path : /\ Dispatch(n, kind, path) \/ UNCHANGED facts
                             /\ n \in Ids \/ n = Len(calls) + 1
    BY <1>6 DEF StartCall, SubmitCall
  <2>2. lastMutation = 0 /\ UNCHANGED <<stage, envelope>>
    <3>1. lastMutation = 0
      BY <1>1, <2>1 DEF Dispatch, facts
    <3> QED
      BY <1>6, <3>1 DEF StartCall, SubmitCall
  <2> QED
    BY <1>1, <2>2 DEF OwnResult
<1>7. CASE \E n \in Ids : WriteFile(n) \/ RejectMutation(n) \/ CaptureSurface(n)
  <2>1. PICK n \in Ids : UNCHANGED facts \/ \E status : LogMutation(n, status)
    BY <1>7 DEF WriteFile, RejectMutation, CaptureSurface, ReturnMutation
  <2>2. lastMutation = 0
    BY <1>1, <2>1 DEF LogMutation, facts
  <2>3. UNCHANGED <<stage, envelope>>
    BY <1>7 DEF WriteFile, RejectMutation, CaptureSurface
  <2> QED
    BY <1>1, <2>2, <2>3 DEF OwnResult
<1>8. CASE \E n \in Ids : ClassifyMalformed(n)
  <2>1. PICK n \in Ids : ClassifyMalformed(n)
    BY <1>8
  <2>2. calls[n].at = "pending" /\ lastMutation = 0
    BY <2>1 DEF ClassifyMalformed, First, facts
  <2> QED
    BY <1>1, <2>2 DEF OwnResult, Closed, Drained
<1>9. CASE \/ \E n \in Ids : \/ AbandonCall(n) \/ DeliverReply(n) \/ LeaveQueue(n) \/ BeginWrite(n)
                           \/ SealMutation(n) \/ LoseCommand(n)
                           \/ \E status : ReturnOther(n, status)
                           \/ \E p : CommandWrites(n, p)
           \/ \E p, v : WriteDirectly(p, v)
  <2>1. lastMutation = 0 /\ UNCHANGED <<stage, envelope>>
    BY <1>9 DEF AbandonCall, DeliverReply, LeaveQueue, BeginWrite, SealMutation, LoseCommand,
       ReturnOther, CommandWrites, WriteDirectly, facts
  <2> QED
    BY <1>1, <2>1 DEF OwnResult
<1> QED
  BY <1>2, <1>3, <1>4, <1>5, <1>6, <1>7, <1>8, <1>9 DEF Next, Environment, Nested, Finish

LEMMA StepInv ==
    ASSUME IInv, BoundsAssumption, NoneAssumption, Next
    PROVE  IInv'
<1>1. Types' /\ FileTypes'
  BY StepTypes, StepFileTypes DEF IInv
<1>2. CallInv' /\ FileInv' /\ Closed' /\ Found'
  BY StepEnvironment, StepNested, StepFinish DEF Next
<1>3. OwnResult'
  BY StepOwn
<1> QED
  BY <1>1, <1>2, <1>3 DEF IInv, CallInv, FileInv

LEMMA StutterInv ==
    ASSUME IInv, UNCHANGED vars
    PROVE  IInv'
<1>1. CallInv' /\ FileInv'
  BY QuietCalls, QuietFiles DEF IInv, CallInv, FileInv, vars, counters
<1>2. Types' /\ FileTypes'
  BY DEF IInv, Types, FileTypes, vars, counters, facts, program
<1>3. Closed' /\ Found' /\ OwnResult'
  BY DEF IInv, Closed, Found, OwnResult, Looked, Drained, DirectlyAffected, Ids, Dsh, vars, facts, program
<1> QED
  BY <1>1, <1>2, <1>3 DEF IInv, CallInv, FileInv

\* The inductive invariant holds throughout every composition.
THEOREM Invariance == Spec => []IInv
<1>1. Init => IInv
  BY InitInv, BoundsAssumption, NoneAssumption
<1>2. IInv /\ [Next]_vars => IInv'
  BY StepInv, StutterInv, BoundsAssumption, NoneAssumption
<1> QED
  BY <1>1, <1>2, PTL DEF Spec

\* What is charged, to either budget, is at most the calls that were made.
LEMMA ChargedOnce ==
    ASSUME CallTypes, Ledger, MaxCalls \in Nat
    PROVE  toolCalls + rejectedToolCalls <= MaxCalls
<1> DEFINE A == Results({"ok", "error"})
           R == Results({"rejected", "refused"})
<1>1. A \in SUBSET Ids /\ R \in SUBSET Ids /\ A \cap R = {}
  BY DEF Results
<1>2. toolCalls = Cardinality(A) /\ rejectedToolCalls = Cardinality(R)
  BY DEF Ledger, LedgerToolCalls, LedgerRejectedToolCalls
<1> HIDE DEF A, R
<1>3. /\ IsFiniteSet(A) /\ IsFiniteSet(R) /\ A \cup R \in SUBSET Ids
      /\ Cardinality(A) \in Nat /\ Cardinality(R) \in Nat
  BY <1>1, Finite
<1>4. Cardinality(A \cup R) = Cardinality(A) + Cardinality(R) - Cardinality(A \cap R)
  BY <1>3, FS_Union
<1>5. Cardinality(A \cap R) = 0
  BY <1>1, FS_EmptySet
<1>6. Cardinality(A \cup R) <= Len(calls) /\ Len(calls) <= MaxCalls /\ Len(calls) \in Nat
  BY <1>3, Finite DEF CallTypes
<1> QED
  BY <1>2, <1>3, <1>4, <1>5, <1>6

\* The variables have their types, and no nested call is counted twice, whichever
\* budget it is charged to.
THEOREM TypeCorrect == Spec => []TypeOK
<1>1. IInv => TypeOK
  <2> SUFFICES ASSUME IInv
               PROVE  TypeOK
    OBVIOUS
  <2>1. toolCalls + rejectedToolCalls <= MaxCalls
    BY ChargedOnce, BoundsAssumption DEF IInv, BoundsAssumption
  <2> QED
    BY <2>1 DEF IInv, Types, FileTypes, CallTypes, TypeOK
<1> QED
  BY <1>1, Invariance, PTL

\* However many calls are under way, the accepted ones stay within the budget, and
\* the record of a composition has each result in the counter that was charged.
THEOREM Accounted == Spec => []CallsAreAccounted
<1>1. IInv => CallsAreAccounted
  <2> SUFFICES ASSUME IInv
               PROVE  CallsAreAccounted
    OBVIOUS
  <2>1. Cardinality(Uncounted) \in Nat
    BY Finite DEF IInv, Uncounted
  <2>2. BudgetHolds
    BY <2>1, BoundsAssumption DEF IInv, Types, BudgetReserved, BudgetHolds, BoundsAssumption
  <2> QED
    BY <2>2 DEF IInv, Ledger, LedgerAgrees, CallsAreAccounted
<1> QED
  BY <1>1, Invariance, PTL

\* Calls that exclude each other run in the order in which the program made them.
THEOREM Ordered == Spec => []InSubmissionOrder
<1>1. IInv => InSubmissionOrder
  BY DEF IInv
<1> QED
  BY <1>1, Invariance, PTL

\* What the record says of the worktree at the end of the action is so: its last
\* checkpoint is the worktree, and a verification that stands is of this worktree.
THEOREM Known == Spec => []WorktreeIsKnown
<1>1. IInv => WorktreeIsKnown
  <2> SUFFICES ASSUME IInv, stage = "over", ~orphan, ~Unattributed
               PROVE  /\ ~deadline /\ ~RefusedMutation =>
                           /\ Checkpoint # None
                           /\ \A p \in Paths : tree[p] = Checkpoint[p] \/ Restored(p)
                      /\ outcome = "returned" /\ obligation = "none" /\ verified # None =>
                           \A p \in Paths : tree[p] = verified[p] \/ Restored(p)
    BY DEF WorktreeIsKnown, Resumable, VerificationIsCurrent, RefusedMutation
  <2>1. /\ tree \in Trees /\ Untouched \in Trees /\ None \notin Trees
        /\ Closed /\ Found /\ OwnResult /\ LastIsSealed /\ TreeIsSealed /\ TreeIsVerified
    <3>1. Original \in Contents
      BY BoundsAssumption DEF Original, Contents, BoundsAssumption
    <3> QED
      BY <3>1, NoneAssumption DEF IInv, FileTypes, Untouched, Trees, NoneAssumption
  <2>2. lastMutation \notin {None, 0} =>
          /\ lastMutation \in Ids /\ calls[lastMutation].at # "logged"
          /\ ~RefusedMutation => calls[lastMutation].seal \in Trees
    BY <2>1 DEF Closed, Drained, LastIsSealed, RefusedMutation
  <2>3. ASSUME Dsh, DirectlyAffected = {}
        PROVE  \A p \in Paths : Restored(p)
    BY <2>3 DEF DirectlyAffected, Restored
  <2>4. ASSUME ~deadline, ~RefusedMutation
        PROVE  /\ Checkpoint # None
               /\ \A p \in Paths : tree[p] = Checkpoint[p] \/ Restored(p)
    <3>1. CASE Dsh /\ lastMutation = 0
      <4>1. envelope.seal = tree
        BY <2>1, <2>4, <3>1 DEF Found, Looked, OwnResult
      <4>2. Checkpoint = tree
        BY <3>1, <4>1, NoneAssumption, BoundsAssumption DEF Checkpoint, NoneAssumption, Contents, BoundsAssumption
      <4> QED
        BY <2>1, <4>2
    <3>2. CASE Dsh /\ lastMutation # 0
      <4>1. Checkpoint # None
        BY <2>1, <2>2, <2>4, <3>2 DEF Checkpoint
      <4>2. DirectlyAffected = {}
        BY <2>1, <2>4, <3>2 DEF Found, Looked
      <4> QED
        BY <2>3, <3>2, <4>1, <4>2
    <3>3. CASE ~Dsh
      <4>1. /\ lastMutation # 0
            /\ IF lastMutation = None THEN tree = Untouched
               ELSE calls[lastMutation].at = "logged" \/ calls[lastMutation].seal = tree
        BY <2>1, <2>4, <3>3 DEF TreeIsSealed
      <4>2. Checkpoint = tree
        BY <2>2, <4>1 DEF Checkpoint
      <4> QED
        BY <2>1, <4>2
    <3> QED
      BY <3>1, <3>2, <3>3
  <2>5. ASSUME outcome = "returned", obligation = "none", verified # None
        PROVE  \A p \in Paths : tree[p] = verified[p] \/ Restored(p)
    <3>1. CASE Dsh
      <4>1. DirectlyAffected = {}
        BY <2>1, <2>5, <3>1 DEF Found, Looked
      <4> QED
        BY <2>3, <3>1, <4>1
    <3>2. CASE ~Dsh
      BY <2>1, <2>5, <3>2 DEF TreeIsVerified
    <3> QED
      BY <3>1, <3>2
  <2> QED
    BY <2>4, <2>5
<1> QED
  BY <1>1, Invariance, PTL
==============================================================================
