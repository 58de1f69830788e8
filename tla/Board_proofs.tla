----------------------------- MODULE Board_proofs -----------------------------
(***************************************************************************)
(* Proofs about the board: BoardSync, its files and its copies, for any    *)
(* number of pages beside the command, and any number of edits and         *)
(* mishaps, and TaskBoard, the page and its flows, for any tasks, layouts  *)
(* and links, and any number of events and flows.                          *)
(***************************************************************************)
EXTENDS BoardSync, TaskBoard, FiniteSetTheorems, SequenceTheorems, WellFoundedInduction, TLAPS

(***************************************************************************)
(* The files and their copies: revisions are not given out twice, and a    *)
(* save that is accepted keeps what the revision it replaces had, unless   *)
(* its page was misled.                                                    *)
(***************************************************************************)
Boards == SUBSET Edits
Work == [stage : {"idle", "asked", "board", "meta", "notify"}, board : Boards,
         expected : Nat, next : Nat, misled : BOOLEAN]
Message == [type : {"snapshot", "update"}, board : Boards, rev : Nat]
Reply == [type : {"none", "saved", "conflict"}, rev : Nat]
Flight == [on : BOOLEAN, same : BOOLEAN, refetch : Nat]
Page == [board : Boards, rev : Nat, applied : BOOLEAN, snapshot : BOOLEAN, visible : BOOLEAN,
         refreshing : BOOLEAN, query : Nat, flight : Flight, queued : BOOLEAN,
         skip : BOOLEAN, dirty : BOOLEAN, timer : BOOLEAN, misled : BOOLEAN, unbroken : BOOLEAN,
         missed : BOOLEAN]

FileTypes ==
    /\ boardFile \in Boards /\ metaFile \in Nat /\ lock \in Writers \cup {Nobody}
    /\ work \in [Writers -> Work]
    /\ saved \in Seq(Boards) /\ metaFile + 1 = Len(saved)
    /\ spent \in [edits : Nat, mishaps : Nat, untold : BOOLEAN]

\* Whatever was read or sent is of a revision that there is.
LoadFits(l, top) ==
    /\ l \in Load /\ l.rev <= top
    /\ l.kind = "snapshot" => l.to \in Browsers
    /\ l.kind = "query" => l.to \in Browsers /\ l.id > 0

ReadTypes ==
    /\ hub \in [Browsers -> {"off", "loading", "on"}]
    /\ \A l \in loads : LoadFits(l, metaFile)
    /\ stream \in [Browsers -> Seq(Message)]
    /\ \A b \in Browsers : \A i \in 1 .. Len(stream[b]) : stream[b][i].rev <= metaFile

PageTypes ==
    /\ ui \in [Browsers -> Page]
    /\ reply \in [Browsers -> Reply]

\* A writer in the section holds the lock and has the next revision.
Section(w) ==
    work[w].stage \in {"board", "meta"} => lock = w /\ work[w].next = metaFile + 1

\* A page that saves has a board, and no debounce runs beside the save.
Settled(x) ==
    /\ x.flight.on => ~x.timer
    /\ x.flight.on \/ x.timer => x.applied

\* One save at a time: asked, in the section, or answered.
OneSave(b) ==
    /\ work[b].stage # "notify"
    /\ Settled(ui[b])
    /\ (work[b].stage # "idle" \/ reply[b].type # "none") => ui[b].flight.on /\ ui[b].flight.refetch = 0
    /\ work[b].stage # "idle" => reply[b].type = "none"

Has(seen, rev) == rev < metaFile \/ saved[rev + 1] \subseteq seen

\* A page that holds the newest revision has all of it, and so does the save it
\* asks for; a page that has moved on since will be refused.
PageIsWhole(b) ==
    /\ ui[b].rev <= metaFile
    /\ ui[b].misled \/ Has(ui[b].board, ui[b].rev)
    /\ work[b].stage = "asked" =>
         /\ work[b].expected <= metaFile
         /\ work[b].misled \/ Has(work[b].board, work[b].expected)
         /\ work[b].expected = metaFile => ui[b].rev = metaFile /\ work[b].board \subseteq ui[b].board
    /\ work[b].stage \in {"board", "meta"} =>
         /\ work[b].misled \/ Has(work[b].board, metaFile)
         /\ ui[b].rev = metaFile /\ work[b].board \subseteq ui[b].board
    /\ reply[b].type # "none" => reply[b].rev <= metaFile
    /\ reply[b].type = "saved" =>
         /\ ui[b].rev + 1 >= reply[b].rev
         /\ ui[b].misled \/ Has(ui[b].board, reply[b].rev)

AnswersAgree ==
    \A p \in answers : p[1] \in 1 .. metaFile /\ p[2] = saved[p[1] + 1]

IInv ==
    /\ FileTypes /\ ReadTypes /\ PageTypes /\ AnswersAgree
    /\ \A w \in Writers : Section(w)
    /\ \A b \in Browsers : OneSave(b) /\ PageIsWhole(b)

------------------------------------------------------------------------------
(* What the operators of the page keep.                                    *)

\* What the steps of a page that do not take over a board leave as it is.
SameBoard(x, y) ==
    /\ y.board = x.board /\ y.rev = x.rev /\ (y.misled <=> x.misled)
    /\ (y.applied <=> x.applied)

SameFlight(x, y) == y.flight = x.flight /\ y.query = x.query

LEMMA EffectKeeps ==
    ASSUME NEW x \in Page
    PROVE  /\ Effect(x) \in Page
           /\ SameBoard(x, Effect(x)) /\ SameFlight(x, Effect(x))
           /\ (Effect(x).flight.on => ~Effect(x).timer)
           /\ (Effect(x).timer => Effect(x).applied)
<1>1. PICK t \in BOOLEAN, q \in BOOLEAN, k \in BOOLEAN :
         /\ Effect(x) = [x EXCEPT !.timer = t, !.queued = q, !.skip = k]
         /\ t => x.applied /\ ~x.flight.on
  <2>1. CASE ~(x.applied /\ x.visible /\ ~x.refreshing)
    <3>1. Effect(x) = [x EXCEPT !.timer = FALSE, !.queued = x.queued, !.skip = x.skip]
      BY <2>1 DEF Effect, Page
    <3> QED
      BY <3>1 DEF Page
  <2>2. CASE x.applied /\ x.visible /\ ~x.refreshing /\ x.flight.on
    <3>1. Effect(x) = [x EXCEPT !.timer = FALSE, !.queued = TRUE, !.skip = x.skip]
      BY <2>2 DEF Effect, Page
    <3> QED
      BY <3>1 DEF Page
  <2>3. CASE x.applied /\ x.visible /\ ~x.refreshing /\ ~x.flight.on /\ x.skip
    <3>1. Effect(x) = [x EXCEPT !.timer = FALSE, !.queued = x.queued, !.skip = FALSE]
      BY <2>3 DEF Effect, Page
    <3> QED
      BY <3>1 DEF Page
  <2>4. CASE x.applied /\ x.visible /\ ~x.refreshing /\ ~x.flight.on /\ ~x.skip
    <3>1. Effect(x) = [x EXCEPT !.timer = x.dirty, !.queued = x.queued, !.skip = x.skip]
      BY <2>4 DEF Effect, Page
    <3> QED
      BY <2>4, <3>1 DEF Page
  <2> QED
    BY <2>1, <2>2, <2>3, <2>4
<1> QED
  BY <1>1 DEF SameBoard, SameFlight, Page

LEMMA StartRefreshKeeps ==
    ASSUME NEW x \in Page
    PROVE  /\ StartRefresh(x) \in Page
           /\ SameBoard(x, StartRefresh(x)) /\ StartRefresh(x).flight = x.flight
           /\ StartRefresh(x).query > 0
           /\ (StartRefresh(x).timer <=> x.timer)
<1>1. PICK n \in Nat : n = x.query + 1 /\ n > 0
  BY DEF Page
<1>2. StartRefresh(x) = [x EXCEPT !.refreshing = TRUE, !.query = n, !.missed = FALSE]
  BY <1>1 DEF StartRefresh
<1>3. StartRefresh(x) \in Page
  BY <1>1, <1>2 DEF Page
<1>4. /\ SameBoard(x, StartRefresh(x)) /\ StartRefresh(x).flight = x.flight
      /\ StartRefresh(x).query > 0 /\ (StartRefresh(x).timer <=> x.timer)
  BY <1>1, <1>2 DEF SameBoard, Page
<1> QED
  BY <1>3, <1>4

LEMMA SettleKeeps ==
    ASSUME NEW x \in Page, NEW changed \in BOOLEAN, x.timer => x.applied
    PROVE  /\ Settle(x, changed) \in Page
           /\ SameBoard(x, Settle(x, changed))
           /\ Settle(x, changed).flight = NoFlight
           /\ Settle(x, changed).query = x.query
           /\ Settled(Settle(x, changed))
<1> DEFINE y == [x EXCEPT !.flight = NoFlight, !.queued = FALSE]
<1>1. /\ y \in Page /\ SameBoard(x, y) /\ y.flight = NoFlight /\ y.query = x.query
      /\ (y.timer <=> x.timer) /\ (y.applied <=> x.applied) /\ ~NoFlight.on
  BY DEF SameBoard, Page, NoFlight, Flight
<1>2. Settle(x, changed) \in {y, Effect(y)}
  BY DEF Settle
<1>3. /\ Effect(y) \in Page /\ SameBoard(y, Effect(y)) /\ SameFlight(y, Effect(y))
      /\ (Effect(y).timer => Effect(y).applied)
  BY <1>1, EffectKeeps
<1>4. CASE Settle(x, changed) = y
  BY <1>1, <1>4 DEF Settled
<1>5. CASE Settle(x, changed) = Effect(y)
  BY <1>1, <1>3, <1>5 DEF Settled, SameBoard, SameFlight
<1> QED
  BY <1>2, <1>4, <1>5

\* A state that is applied is the board of the page; one that is not changes nothing.
LEMMA ApplyKeeps ==
    ASSUME NEW x \in Page, NEW m, m.board \in Boards, m.rev \in Nat
    PROVE  /\ Apply(x, m) \in Page
           /\ Apply(x, m).query = x.query
           /\ (Apply(x, m).flight.on <=> x.flight.on)
           /\ Apply(x, m).flight.refetch = x.flight.refetch
           /\ (Apply(x, m).timer <=> x.timer)
           /\ \/ Apply(x, m) = x
              \/ /\ ~x.applied \/ x.rev < m.rev
                 /\ Apply(x, m).board = m.board /\ Apply(x, m).rev = m.rev
                 /\ Apply(x, m).applied /\ (Apply(x, m).misled <=> ~Whole(m))
<1>1. CASE x.applied /\ m.rev <= x.rev
  BY <1>1 DEF Apply
<1>2. CASE ~(x.applied /\ m.rev <= x.rev)
  <2>1. PICK t \in BOOLEAN : t <=> ~Whole(m)
    OBVIOUS
  <2>2. x.rev \in Nat /\ (~x.applied \/ x.rev < m.rev)
    BY <1>2 DEF Page
  <2>3. Apply(x, m) = [x EXCEPT !.board = m.board, !.rev = m.rev, !.applied = TRUE,
                                !.skip = TRUE, !.dirty = FALSE,
                                !.flight = [x.flight EXCEPT !.same = FALSE], !.misled = t]
    BY <1>2, <2>1 DEF Apply, Page, Flight
  <2>4. [x.flight EXCEPT !.same = FALSE] \in Flight
    BY DEF Page, Flight
  <2>5. Apply(x, m) \in Page
    BY <2>3, <2>4 DEF Page
  <2>6. /\ Apply(x, m).query = x.query /\ (Apply(x, m).timer <=> x.timer)
        /\ Apply(x, m).flight = [x.flight EXCEPT !.same = FALSE]
        /\ Apply(x, m).board = m.board /\ Apply(x, m).rev = m.rev
        /\ Apply(x, m).applied /\ (Apply(x, m).misled <=> ~Whole(m))
    BY <2>1, <2>3 DEF Page
  <2>7. /\ (Apply(x, m).flight.on <=> x.flight.on)
        /\ Apply(x, m).flight.refetch = x.flight.refetch
    BY <2>6 DEF Page, Flight
  <2> QED
    BY <2>2, <2>5, <2>6, <2>7
<1> QED
  BY <1>1, <1>2

\* The state received, and the effect it runs.
LEMMA AppliedKeeps ==
    ASSUME NEW x \in Page, NEW m, m.board \in Boards, m.rev \in Nat, Settled(x)
    PROVE  /\ Applied(x, m) \in Page
           /\ SameBoard(Apply(x, m), Applied(x, m))
           /\ (Applied(x, m).flight.on <=> x.flight.on)
           /\ Applied(x, m).flight.refetch = x.flight.refetch
           /\ Settled(Applied(x, m))
<1> DEFINE z == Apply(x, m)
<1>1. /\ z \in Page /\ (z.flight.on <=> x.flight.on) /\ z.flight.refetch = x.flight.refetch
      /\ z = x \/ z.applied
  BY ApplyKeeps
<1>2. z.flight.on => z.applied
  BY <1>1 DEF Settled
<1>3. CASE z = x
  <2>1. Applied(x, m) = x
    BY <1>3 DEF Applied
  <2> QED
    BY <1>3, <2>1 DEF SameBoard
<1>4. CASE z # x
  <2>1. Applied(x, m) = Effect(z)
    BY <1>4 DEF Applied
  <2> HIDE DEF z
  <2>2. Effect(z) \in Page /\ SameBoard(z, Effect(z)) /\ SameFlight(z, Effect(z))
        /\ (Effect(z).flight.on => ~Effect(z).timer) /\ (Effect(z).timer => Effect(z).applied)
    BY <1>1, EffectKeeps
  <2>3. Settled(Effect(z))
    BY <1>2, <2>2 DEF Settled, SameBoard, SameFlight
  <2>4. /\ (Effect(z).flight.on <=> x.flight.on) /\ Effect(z).flight.refetch = x.flight.refetch
    BY <1>1, <2>2 DEF SameFlight
  <2>5. SameBoard(Apply(x, m), Effect(z))
    BY <2>2 DEF z
  <2> QED
    BY <2>1, <2>2, <2>3, <2>4, <2>5
<1> QED
  BY <1>3, <1>4

------------------------------------------------------------------------------
(* The files.                                                              *)

\* The history of the board only grows.
Grown ==
    /\ metaFile' \in Nat /\ metaFile <= metaFile'
    /\ \A n \in 0 .. metaFile : saved'[n + 1] = saved[n + 1]

LEMMA NotAWriter == Nobody \notin Writers /\ Cli \in Writers /\ Browsers \subseteq Writers /\ Cli \notin Browsers
  BY BrowsersAssumption DEF Writers

LEMMA AnEdit ==
    ASSUME FileTypes, SpendEdit
    PROVE  NewEdit \in Edits /\ spent' \in [edits : Nat, mishaps : Nat, untold : BOOLEAN]
  BY BoundsAssumption DEF FileTypes, SpendEdit, NewEdit, Edits

LEMMA AMishap ==
    ASSUME FileTypes, Mishap
    PROVE  spent' \in [edits : Nat, mishaps : Nat, untold : BOOLEAN]
  BY DEF FileTypes, Mishap

\* The last write of a section adds the next revision.
LEMMA WriteMetaGrows ==
    ASSUME FileTypes, NEW w \in Writers, Section(w), WriteMeta(w)
    PROVE  /\ metaFile' = metaFile + 1 /\ saved' \in Seq(Boards) /\ Len(saved') = metaFile + 2
           /\ saved'[metaFile + 2] = work[w].board
           /\ \A n \in 0 .. metaFile : saved'[n + 1] = saved[n + 1]
           /\ lock = w /\ lock' = Nobody
           /\ answers' = answers \cup {<<metaFile + 1, work[w].board>>}
<1>1. /\ work[w].board \in Boards /\ saved \in Seq(Boards) /\ Len(saved) = metaFile + 1
      /\ metaFile \in Nat
  BY DEF FileTypes, Work
<1>2. /\ metaFile' = metaFile + 1 /\ saved' = Append(saved, work[w].board)
      /\ lock = w /\ lock' = Nobody
      /\ answers' = answers \cup {<<metaFile + 1, work[w].board>>}
  BY DEF WriteMeta, Section
<1>3. /\ saved' \in Seq(Boards) /\ Len(saved') = metaFile + 2
      /\ saved'[metaFile + 2] = work[w].board
      /\ \A n \in 0 .. metaFile : saved'[n + 1] = saved[n + 1]
  BY <1>1, <1>2
<1> QED
  BY <1>2, <1>3

LEMMA StepFiles ==
    ASSUME FileTypes, PageTypes, AnswersAgree, \A w \in Writers : Section(w),
           \A b \in Browsers : OneSave(b), [Next]_vars
    PROVE  FileTypes' /\ Grown /\ AnswersAgree' /\ \A w \in Writers : Section(w)'
<1> USE NotAWriter
<1>n. metaFile \in Nat /\ \A w \in Writers : work[w] \in Work
  BY DEF FileTypes
<1>u. ASSUME UNCHANGED <<metaFile, saved, answers>>
      PROVE  Grown /\ AnswersAgree'
  BY <1>u, <1>n DEF Grown, AnswersAgree
<1>k. ASSUME UNCHANGED <<boardFile, metaFile, saved, lock>>,
             work' \in [Writers -> Work], spent' \in [edits : Nat, mishaps : Nat, untold : BOOLEAN]
      PROVE  FileTypes'
  BY <1>k DEF FileTypes
<1>f. ASSUME UNCHANGED files, spent' \in [edits : Nat, mishaps : Nat, untold : BOOLEAN]
      PROVE  FileTypes' /\ Grown /\ AnswersAgree' /\ \A w \in Writers : Section(w)'
  <2>1. FileTypes'
    BY <1>f, <1>k DEF FileTypes, files
  <2>2. \A w \in Writers : Section(w)'
    BY <1>f DEF Section, files
  <2> QED
    BY <1>f, <1>u, <2>1, <2>2 DEF files
<1>s. spent \in [edits : Nat, mishaps : Nat, untold : BOOLEAN]
  BY DEF FileTypes
<1>i. IdleWork \in Work
  BY DEF IdleWork, Work, Boards
<1>1. CASE UNCHANGED vars
  BY <1>1, <1>f, <1>s DEF vars, files
<1>2. CASE CliNotify
  <2>1. work' = [work EXCEPT ![Cli] = IdleWork]
        /\ UNCHANGED <<boardFile, metaFile, lock, spent, saved, answers>>
    BY <1>2 DEF CliNotify
  <2>2. work' \in [Writers -> Work]
    BY <2>1, <1>i DEF FileTypes
  <2>3. \A w \in Writers : Section(w)'
    BY <2>1 DEF Section, IdleWork, FileTypes
  <2> QED
    BY <2>1, <2>2, <2>3, <1>k, <1>s, <1>u
<1>3. ASSUME NEW w \in Writers, WriteBoard(w)
      PROVE  FileTypes' /\ Grown /\ AnswersAgree' /\ \A x \in Writers : Section(x)'
  <2>1. /\ work[w].stage = "board"
        /\ boardFile' = work[w].board /\ work' = [work EXCEPT ![w] = [@ EXCEPT !.stage = "meta"]]
        /\ UNCHANGED <<metaFile, lock, spent, saved, answers>>
    BY <1>3 DEF WriteBoard
  <2>2. [work[w] EXCEPT !.stage = "meta"] \in Work
    BY <1>n DEF Work
  <2>3. FileTypes'
    BY <2>1, <2>2, <1>n, <1>s DEF FileTypes, Work
  <2>4. \A x \in Writers : Section(x)'
    BY <2>1, <1>n DEF Section, FileTypes, Work
  <2> QED
    BY <2>1, <2>3, <2>4, <1>u
<1>4. ASSUME NEW w \in Writers, WriteMeta(w)
      PROVE  FileTypes' /\ Grown /\ AnswersAgree' /\ \A x \in Writers : Section(x)'
  <2>1. /\ metaFile' = metaFile + 1 /\ saved' \in Seq(Boards) /\ Len(saved') = metaFile + 2
        /\ saved'[metaFile + 2] = work[w].board
        /\ \A n \in 0 .. metaFile : saved'[n + 1] = saved[n + 1]
        /\ lock = w /\ lock' = Nobody
        /\ answers' = answers \cup {<<metaFile + 1, work[w].board>>}
    BY <1>4, WriteMetaGrows
  <2>2. PICK e \in Work : /\ work' = [work EXCEPT ![w] = e]
                          /\ e.stage \in {"idle", "notify"}
    <3>1. CASE w = Cli
      <4>1. [work[w] EXCEPT !.stage = "notify"] \in Work
        BY <1>n DEF Work
      <4>2. work' = [work EXCEPT ![w] = [work[w] EXCEPT !.stage = "notify"]]
        BY <1>4, <3>1 DEF WriteMeta
      <4> QED
        BY <4>1, <4>2, <1>n DEF Work
    <3>2. CASE w # Cli
      BY <1>4, <3>2, <1>i DEF WriteMeta, IdleWork
    <3> QED
      BY <3>1, <3>2
  <2>3. boardFile' = boardFile /\ spent' = spent
    BY <1>4 DEF WriteMeta
  <2>4. FileTypes'
    BY <2>1, <2>2, <2>3, <1>n, <1>s DEF FileTypes
  <2>5. Grown
    BY <2>1, <1>n DEF Grown
  <2>6. AnswersAgree'
    <3> SUFFICES ASSUME NEW p \in answers'
                 PROVE  p[1] \in 1 .. metaFile' /\ p[2] = saved'[p[1] + 1]
      BY DEF AnswersAgree
    <3>1. CASE p \in answers
      <4>1. p[1] \in 1 .. metaFile /\ p[2] = saved[p[1] + 1]
        BY <3>1 DEF AnswersAgree
      <4> QED
        BY <4>1, <2>1, <1>n
    <3>2. CASE p = <<metaFile + 1, work[w].board>>
      <4>1. p[1] = metaFile + 1 /\ p[2] = work[w].board
        BY <3>2
      <4> QED
        BY <4>1, <2>1, <1>n
    <3> QED
      BY <2>1, <3>1, <3>2
  <2>7. ASSUME NEW x \in Writers
        PROVE  Section(x)'
    <3>1. CASE x = w
      BY <2>2, <3>1 DEF Section, FileTypes
    <3>2. CASE x # w
      BY <2>1, <2>2, <3>2 DEF Section, FileTypes
    <3> QED
      BY <3>1, <3>2
  <2> QED
    BY <2>4, <2>5, <2>6, <2>7
<1>5. ASSUME NEW b \in Browsers, Persist(b)
      PROVE  FileTypes' /\ Grown /\ AnswersAgree' /\ \A x \in Writers : Section(x)'
  <2>1. PICK e \in Work : work' = [work EXCEPT ![b] = e] /\ e.stage = "asked"
    <3>1. ui[b].board \in Boards /\ ui[b].rev \in Nat /\ ui[b].misled \in BOOLEAN
      BY DEF PageTypes, Page
    <3>2. [IdleWork EXCEPT !.stage = "asked", !.board = ui[b].board,
                           !.expected = ui[b].rev, !.misled = ui[b].misled] \in Work
      BY <3>1, <1>i DEF Work
    <3> QED
      BY <1>5, <3>2 DEF Persist, IdleWork
  <2>2. UNCHANGED <<boardFile, metaFile, lock, spent, saved, answers>>
    BY <1>5 DEF Persist
  <2>3. \A w \in Writers : Section(w)'
    BY <2>1, <2>2 DEF Section, FileTypes
  <2>4. work' \in [Writers -> Work]
    BY <2>1 DEF FileTypes
  <2> QED
    BY <2>2, <2>3, <2>4, <1>k, <1>s, <1>u
<1>6. ASSUME NEW b \in Browsers, SaveArrives(b)
      PROVE  FileTypes' /\ Grown /\ AnswersAgree' /\ \A x \in Writers : Section(x)'
  <2>1. /\ work[b].stage = "asked" /\ lock = Nobody
        /\ UNCHANGED <<boardFile, metaFile, spent, saved, answers>>
    BY <1>6 DEF SaveArrives, LockFree
  <2>2. \A x \in Writers : work[x].stage \notin {"board", "meta"}
    BY <2>1 DEF Section
  <2>3. CASE /\ lock' = b
             /\ work' = [work EXCEPT ![b].stage = "board", ![b].next = metaFile + 1]
    <3>n. PICK n \in Nat : n = metaFile + 1
      BY <1>n
    <3>1. [work[b] EXCEPT !.stage = "board", !.next = n] \in Work
      BY <1>n, <3>n DEF Work
    <3>2. work' = [work EXCEPT ![b] = [work[b] EXCEPT !.stage = "board", !.next = metaFile + 1]]
      BY <2>3 DEF FileTypes
    <3>3. FileTypes'
      BY <2>1, <2>3, <3>n, <3>1, <3>2 DEF FileTypes
    <3>4. \A x \in Writers : Section(x)'
      BY <2>1, <2>2, <2>3, <3>2, <1>n DEF Section, FileTypes, Work
    <3> QED
      BY <2>1, <3>3, <3>4, <1>u
  <2>4. CASE work' = [work EXCEPT ![b] = IdleWork] /\ lock' = lock
    <3>1. work' \in [Writers -> Work]
      BY <2>4, <1>i DEF FileTypes
    <3>2. \A x \in Writers : Section(x)'
      BY <2>1, <2>2, <2>4 DEF Section, FileTypes, IdleWork
    <3> QED
      BY <2>1, <2>4, <3>1, <3>2, <1>k, <1>s, <1>u
  <2> QED
    BY <1>6, <2>3, <2>4 DEF SaveArrives
<1>7. CASE CliMutate
  <2>1. /\ lock = Nobody /\ lock' = Cli
        /\ UNCHANGED <<boardFile, metaFile, saved, answers>>
    BY <1>7 DEF CliMutate, LockFree
  <2>2. NewEdit \in Edits /\ spent' \in [edits : Nat, mishaps : Nat, untold : BOOLEAN]
    BY <1>7, AnEdit DEF CliMutate
  <2>3. PICK e \in Work : work' = [work EXCEPT ![Cli] = e] /\ e.next = metaFile + 1
    <3>1. boardFile \cup {NewEdit} \in Boards
      BY <2>2 DEF Boards, FileTypes
    <3>2. PICK n \in Nat : n = metaFile + 1
      BY <1>n
    <3>3. [IdleWork EXCEPT !.stage = "board", !.board = boardFile \cup {NewEdit},
                           !.next = n] \in Work
      BY <3>1, <3>2, <1>i DEF Work
    <3> QED
      BY <1>7, <3>2, <3>3 DEF CliMutate, IdleWork
  <2>4. FileTypes'
    BY <2>1, <2>2, <2>3 DEF FileTypes
  <2>5. \A x \in Writers : Section(x)'
    BY <2>1, <2>3 DEF Section, FileTypes
  <2> QED
    BY <2>1, <2>4, <2>5, <1>u
<1>8. CASE CliKilled
  <2>1. /\ work' = [work EXCEPT ![Cli] = IdleWork]
        /\ lock' = IF lock = Cli THEN Nobody ELSE lock
        /\ UNCHANGED <<boardFile, metaFile, saved, answers>>
    BY <1>8 DEF CliKilled
  <2>2. spent' \in [edits : Nat, mishaps : Nat, untold : BOOLEAN]
    <3>1. PICK t \in BOOLEAN : t <=> (spent.untold \/ work[Cli].stage = "notify")
      OBVIOUS
    <3>2. PICK n \in Nat : n = spent.mishaps + 1
      BY <1>s
    <3>3. spent' = [spent EXCEPT !.mishaps = n, !.untold = t]
      BY <1>8, <1>s, <3>1, <3>2 DEF CliKilled
    <3> QED
      BY <1>s, <3>2, <3>3
  <2>3. FileTypes'
    BY <2>1, <2>2, <1>i DEF FileTypes
  <2>4. \A x \in Writers : Section(x)'
    BY <2>1 DEF Section, FileTypes, IdleWork
  <2> QED
    BY <2>1, <2>3, <2>4, <1>u
<1>9. ASSUME NEW b \in Browsers, SaveLost(b)
      PROVE  FileTypes' /\ Grown /\ AnswersAgree' /\ \A x \in Writers : Section(x)'
  <2>1. /\ work' = [work EXCEPT ![b] = IdleWork]
        /\ UNCHANGED <<boardFile, metaFile, lock, saved, answers>>
    BY <1>9 DEF SaveLost
  <2>2. work' \in [Writers -> Work] /\ spent' \in [edits : Nat, mishaps : Nat, untold : BOOLEAN]
    BY <1>9, <2>1, <1>i, AMishap DEF SaveLost, FileTypes
  <2>3. \A x \in Writers : Section(x)'
    BY <2>1 DEF Section, FileTypes, IdleWork
  <2> QED
    BY <2>1, <2>2, <2>3, <1>k, <1>u
<1>10. ASSUME NEW l \in loads,
              LoadBoard(l) \/ LoadMeta(l) \/ SendSnapshot(l) \/ SendUpdate(l) \/ Refreshed(l)
       PROVE  UNCHANGED <<files, spent>>
  BY <1>10 DEF LoadBoard, LoadMeta, SendSnapshot, SendUpdate, Refreshed
<1>11. ASSUME NEW b \in Browsers, Connect(b) \/ Receive(b) \/ Saved(b) \/ Refused(b) \/ Show(b)
       PROVE  UNCHANGED <<files, spent>>
  BY <1>11 DEF Connect, Receive, Saved, Refused, Show
<1>12. ASSUME NEW b \in Browsers, Edit(b) \/ Hide(b) \/ Break(b)
       PROVE  UNCHANGED files /\ spent' \in [edits : Nat, mishaps : Nat, untold : BOOLEAN]
  BY <1>12, AnEdit, AMishap DEF Edit, Hide, Break
<1>13. ASSUME NEW l \in loads, UpdateFails(l) \/ SnapshotFails(l) \/ RefreshFails(l)
       PROVE  UNCHANGED files /\ spent' \in [edits : Nat, mishaps : Nat, untold : BOOLEAN]
  BY <1>13, AMishap DEF UpdateFails, SnapshotFails, RefreshFails
<1> QED
  BY <1>1, <1>2, <1>3, <1>4, <1>5, <1>6, <1>7, <1>8, <1>9, <1>10, <1>11, <1>12, <1>13, <1>f, <1>s
     DEF Next, Proceeds, Happens

------------------------------------------------------------------------------
(* Reads and streams.                                                      *)

\* A query, and a broadcast, are reads that have seen nothing yet.
LEMMA NewReadsFit ==
    ASSUME NEW x \in Page, x.query > 0, NEW b \in Browsers, NEW rev \in Nat, Grown,
           FileTypes
    PROVE  /\ \A l \in Query(b, x) : LoadFits(l, metaFile')
           /\ \A l \in Broadcast(rev) : LoadFits(l, metaFile')
<1>1. {} \in Boards /\ x.query \in Nat /\ 0 <= metaFile'
  BY DEF Boards, Page, Grown, FileTypes
<1>2. ASSUME NEW l \in Query(b, x)
      PROVE  LoadFits(l, metaFile')
  BY <1>1, <1>2 DEF Query, LoadFits, Load, Boards, Revisions
<1>3. ASSUME NEW l \in Broadcast(rev)
      PROVE  LoadFits(l, metaFile')
  BY <1>1, <1>3 DEF Broadcast, LoadFits, Load, Boards, Revisions
<1> QED
  BY <1>2, <1>3

LEMMA OldReadsFit ==
    ASSUME NEW l, LoadFits(l, metaFile), Grown, FileTypes
    PROVE  LoadFits(l, metaFile')
  BY DEF LoadFits, Grown, FileTypes, Load, Revisions

\* A message that is appended, and the rest of a stream.
StreamFits(s, top) == s \in Seq(Message) /\ \A i \in 1 .. Len(s) : s[i].rev <= top

LEMMA StreamsFit ==
    ASSUME NEW s, NEW top \in Nat, StreamFits(s, top)
    PROVE  /\ \A m \in Message : m.rev <= top => StreamFits(Append(s, m), top)
           /\ s # <<>> => Head(s) \in Message /\ Head(s).rev <= top /\ StreamFits(Tail(s), top)
           /\ \A t \in Nat : top <= t => StreamFits(s, t)
<1>1. ASSUME NEW m \in Message, m.rev <= top
      PROVE  StreamFits(Append(s, m), top)
  <2>1. Append(s, m) \in Seq(Message) /\ Len(Append(s, m)) = Len(s) + 1
        /\ \A i \in 1 .. Len(s) + 1 : Append(s, m)[i] = IF i = Len(s) + 1 THEN m ELSE s[i]
    BY DEF StreamFits
  <2> QED
    BY <1>1, <2>1 DEF StreamFits
<1>2. ASSUME s # <<>>
      PROVE  Head(s) \in Message /\ Head(s).rev <= top /\ StreamFits(Tail(s), top)
  <2>1. /\ Tail(s) \in Seq(Message) /\ Len(Tail(s)) = Len(s) - 1 /\ Len(s) \in Nat
        /\ Head(s) = s[1] /\ s[1] \in Message /\ Len(s) > 0
        /\ \A i \in 1 .. Len(s) - 1 : Tail(s)[i] = s[i + 1]
    BY <1>2 DEF StreamFits
  <2> QED
    BY <2>1 DEF StreamFits
<1>3. ASSUME NEW t \in Nat, top <= t
      PROVE  StreamFits(s, t)
  <2>1. \A i \in 1 .. Len(s) : s[i] \in Message
    BY DEF StreamFits
  <2>2. \A i \in 1 .. Len(s) : s[i].rev \in Nat
    BY <2>1 DEF Message
  <2> QED
    BY <1>3, <2>2 DEF StreamFits
<1> QED
  BY <1>1, <1>2, <1>3

LEMMA StepReads ==
    ASSUME FileTypes, ReadTypes, PageTypes, Grown, [Next]_vars, \A b \in Browsers : OneSave(b)
    PROVE  ReadTypes'
<1>n. metaFile \in Nat /\ metaFile' \in Nat /\ metaFile <= metaFile' /\ boardFile \in Boards
  BY DEF FileTypes, Grown
<1>l. \A l \in loads : LoadFits(l, metaFile) /\ LoadFits(l, metaFile')
  BY OldReadsFit DEF ReadTypes
<1>s. \A b \in Browsers : StreamFits(stream[b], metaFile) /\ StreamFits(stream[b], metaFile')
  <2>1. \A b \in Browsers : StreamFits(stream[b], metaFile)
    BY DEF ReadTypes, StreamFits
  <2> QED
    BY <2>1, <1>n, StreamsFit
<1>h. ASSUME UNCHANGED <<hub, stream>>, \A l \in loads' : LoadFits(l, metaFile')
      PROVE  ReadTypes'
  <2>1. \A b \in Browsers : \A i \in 1 .. Len(stream'[b]) : stream'[b][i].rev <= metaFile'
    BY <1>h, <1>s DEF StreamFits
  <2> QED
    BY <1>h, <2>1 DEF ReadTypes
<1>t. ASSUME hub' \in [Browsers -> {"off", "loading", "on"}], \A l \in loads' : LoadFits(l, metaFile'),
             stream' \in [Browsers -> Seq(Message)],
             \A b \in Browsers : StreamFits(stream'[b], metaFile')
      PROVE  ReadTypes'
  BY <1>t DEF ReadTypes, StreamFits
<1>1. CASE UNCHANGED vars
  BY <1>1, <1>h, <1>l DEF vars
<1>2. ASSUME NEW b \in Browsers, SaveArrives(b) \/ Edit(b) \/ Hide(b) \/ SaveLost(b) \/ Persist(b)
                                 \/ Saved(b)
      PROVE  UNCHANGED <<hub, stream, loads>>
  BY <1>2 DEF SaveArrives, Edit, Hide, SaveLost, Persist, Saved
<1>3. ASSUME CliMutate \/ CliKilled \/ \E w \in Writers : WriteBoard(w)
      PROVE  UNCHANGED <<hub, stream, loads>>
  BY <1>3 DEF CliMutate, CliKilled, WriteBoard
<1>4. ASSUME NEW w \in Writers, WriteMeta(w) \/ CliNotify
      PROVE  ReadTypes'
  <2>1. PICK x \in Writers : loads' \subseteq loads \cup Broadcast(work[x].next)
    BY <1>4, NotAWriter DEF WriteMeta, CliNotify
  <2>2. \A l \in Broadcast(work[x].next) : LoadFits(l, metaFile')
    <3>1. work[x].next \in Nat
      BY DEF FileTypes, Work
    <3>2. {} \in Boards /\ 0 <= metaFile'
      BY <1>n DEF Boards
    <3> QED
      BY <3>1, <3>2 DEF Broadcast, LoadFits, Load, Boards, Revisions
  <2>3. UNCHANGED <<hub, stream>>
    BY <1>4 DEF WriteMeta, CliNotify
  <2> QED
    BY <1>h, <1>l, <2>1, <2>2, <2>3
<1>5. ASSUME NEW l \in loads, LoadBoard(l)
      PROVE  ReadTypes'
  <2>1. LoadFits([l EXCEPT !.stage = "board", !.board = boardFile], metaFile')
    BY <1>5, <1>l, <1>n DEF LoadFits, Load, Boards
  <2>2. /\ loads' = (loads \ {l}) \cup {[l EXCEPT !.stage = "board", !.board = boardFile]}
        /\ UNCHANGED <<hub, stream>>
    BY <1>5 DEF LoadBoard
  <2> QED
    BY <1>h, <1>l, <2>1, <2>2
<1>6. ASSUME NEW l \in loads, LoadMeta(l)
      PROVE  ReadTypes'
  <2>1. /\ loads' = (loads \ {l}) \cup {[l EXCEPT !.stage = "ready", !.rev = metaFile]}
        /\ UNCHANGED <<hub, stream>>
    BY <1>6 DEF LoadMeta
  <2>2. LoadFits([l EXCEPT !.stage = "ready", !.rev = metaFile], metaFile')
    BY <1>6, <1>l, <1>n DEF LoadFits, Load, Revisions
  <2> QED
    BY <1>h, <1>l, <2>1, <2>2
<1>7. ASSUME NEW b \in Browsers, Connect(b)
      PROVE  ReadTypes'
  <2>1. /\ hub' = [hub EXCEPT ![b] = "loading"] /\ stream' = stream
        /\ loads' = loads \cup {[kind |-> "snapshot", to |-> b, id |-> 0, stage |-> "board",
                                 board |-> boardFile, rev |-> 0]}
    BY <1>7 DEF Connect
  <2>2. LoadFits([kind |-> "snapshot", to |-> b, id |-> 0, stage |-> "board",
                  board |-> boardFile, rev |-> 0], metaFile')
    BY <1>n DEF LoadFits, Load, Boards, Revisions
  <2>3. \A l \in loads' : LoadFits(l, metaFile')
    BY <1>l, <2>1, <2>2
  <2>4. hub' \in [Browsers -> {"off", "loading", "on"}]
    BY <2>1 DEF ReadTypes
  <2>5. stream' \in [Browsers -> Seq(Message)] /\ \A c \in Browsers : StreamFits(stream'[c], metaFile')
    BY <1>s, <2>1 DEF ReadTypes
  <2> QED
    BY <1>t, <2>3, <2>4, <2>5
<1>8. ASSUME NEW l \in loads, SendSnapshot(l)
      PROVE  ReadTypes'
  <2> DEFINE m == [type |-> "snapshot", board |-> l.board, rev |-> l.rev]
  <2>1. /\ l.to \in Browsers
        /\ loads' = loads \ {l} /\ hub' = [hub EXCEPT ![l.to] = "on"]
        /\ stream' = [stream EXCEPT ![l.to] = Append(@, m)]
    BY <1>8, <1>l DEF SendSnapshot, LoadFits
  <2>2. m \in Message /\ m.rev <= metaFile'
    BY <1>l, <1>n DEF LoadFits, Load, Message, Boards, Revisions
  <2>3. \A c \in Browsers : StreamFits(stream'[c], metaFile')
    <3>1. StreamFits(Append(stream[l.to], m), metaFile')
      BY <1>n, <1>s, <2>1, <2>2, StreamsFit
    <3> QED
      BY <1>s, <2>1, <3>1 DEF ReadTypes
  <2>4. hub' \in [Browsers -> {"off", "loading", "on"}]
    BY <2>1 DEF ReadTypes
  <2>5. stream' \in [Browsers -> Seq(Message)]
    BY <2>1, <2>2 DEF ReadTypes
  <2> QED
    BY <1>t, <1>l, <2>1, <2>3, <2>4, <2>5
<1>9. ASSUME NEW l \in loads, SendUpdate(l)
      PROVE  ReadTypes'
  <2> DEFINE m == [type |-> "update", board |-> l.board, rev |-> l.rev]
  <2>1. /\ loads' = loads \ {l} /\ hub' = hub
        /\ stream' = [b \in Browsers |-> IF b \in Registered THEN Append(stream[b], m) ELSE stream[b]]
    BY <1>9 DEF SendUpdate
  <2>2. m \in Message /\ m.rev <= metaFile'
    BY <1>l, <1>n DEF LoadFits, Load, Message, Boards, Revisions
  <2>3. \A c \in Browsers : StreamFits(Append(stream[c], m), metaFile')
    BY <1>n, <1>s, <2>2, StreamsFit
  <2>4. \A c \in Browsers : StreamFits(stream'[c], metaFile')
    BY <1>s, <2>1, <2>3
  <2>5. stream' \in [Browsers -> Seq(Message)]
    BY <2>1, <2>4 DEF StreamFits
  <2>6. hub' \in [Browsers -> {"off", "loading", "on"}]
    BY <2>1 DEF ReadTypes
  <2> QED
    BY <1>t, <1>l, <2>1, <2>4, <2>5, <2>6
<1>10. ASSUME NEW b \in Browsers, Break(b)
       PROVE  ReadTypes'
  <2>1. /\ hub' = [hub EXCEPT ![b] = "off"] /\ stream' = [stream EXCEPT ![b] = <<>>]
        /\ loads' \subseteq loads
    BY <1>10 DEF Break
  <2>2. <<>> \in Seq(Message) /\ StreamFits(<<>>, metaFile')
    BY DEF StreamFits
  <2>3. \A c \in Browsers : StreamFits(stream'[c], metaFile')
    BY <1>s, <2>1, <2>2 DEF ReadTypes
  <2>4. hub' \in [Browsers -> {"off", "loading", "on"}]
    BY <2>1 DEF ReadTypes
  <2>5. stream' \in [Browsers -> Seq(Message)]
    BY <2>1, <2>2 DEF ReadTypes
  <2> QED
    BY <1>t, <1>l, <2>1, <2>3, <2>4, <2>5
<1>q. ASSUME NEW b \in Browsers, NEW x \in Page, x.query > 0
      PROVE  \A l \in Query(b, x) : LoadFits(l, metaFile')
  BY <1>q, <1>n, NewReadsFit
<1>11. ASSUME NEW b \in Browsers, Receive(b)
       PROVE  ReadTypes'
  <2>1. /\ stream[b] # <<>> /\ stream' = [stream EXCEPT ![b] = Tail(@)] /\ hub' = hub
    BY <1>11 DEF Receive
  <2>2. /\ Head(stream[b]) \in Message /\ StreamFits(Tail(stream[b]), metaFile')
    BY <1>n, <1>s, <2>1, StreamsFit
  <2> DEFINE m == Head(stream[b])
             x == [Applied(ui[b], m) EXCEPT !.snapshot = @ \/ m.type = "snapshot"]
             y == Effect(StartRefresh(x))
  <2>3. x \in Page
    <3>1. m.board \in Boards /\ m.rev \in Nat /\ ui[b] \in Page
      BY <2>2 DEF Message, PageTypes
    <3>2. Applied(ui[b], m) \in Page
      BY <3>1, AppliedKeeps DEF OneSave
    <3>3. PICK t \in BOOLEAN : t <=> (Applied(ui[b], m).snapshot \/ m.type = "snapshot")
      OBVIOUS
    <3>4. x = [Applied(ui[b], m) EXCEPT !.snapshot = t]
      BY <3>2, <3>3 DEF Page
    <3> QED
      BY <3>2, <3>3, <3>4 DEF Page
  <2>4. y \in Page /\ y.query > 0
    BY <2>3, StartRefreshKeeps, EffectKeeps DEF SameFlight
  <2>5. loads' \subseteq loads \cup Query(b, y)
    BY <1>11 DEF Receive
  <2>6. \A l \in loads' : LoadFits(l, metaFile')
    BY <1>l, <1>q, <2>4, <2>5
  <2>7. \A c \in Browsers : StreamFits(stream'[c], metaFile')
    BY <1>s, <2>1, <2>2 DEF ReadTypes
  <2>8. stream' \in [Browsers -> Seq(Message)] /\ hub' \in [Browsers -> {"off", "loading", "on"}]
    BY <2>1, <2>2 DEF ReadTypes, StreamFits
  <2> QED
    BY <1>t, <2>6, <2>7, <2>8
<1>12. ASSUME NEW b \in Browsers, Refused(b)
       PROVE  ReadTypes'
  <2> DEFINE z == [ui[b] EXCEPT !.rev = reply[b].rev, !.misled = TRUE]
  <2>1. z \in Page
    BY DEF PageTypes, Page, Reply
  <2>2. StartRefresh(z) \in Page /\ StartRefresh(z).query > 0
    BY <2>1, StartRefreshKeeps
  <2>3. loads' = loads \cup Query(b, StartRefresh(z)) /\ UNCHANGED <<hub, stream>>
    BY <1>12 DEF Refused
  <2> QED
    BY <1>h, <1>l, <1>q, <2>2, <2>3
<1>13. ASSUME NEW b \in Browsers, Show(b)
       PROVE  ReadTypes'
  <2> DEFINE x == Effect([ui[b] EXCEPT !.visible = TRUE])
             y == Effect(StartRefresh(x))
  <2>1. [ui[b] EXCEPT !.visible = TRUE] \in Page
    BY DEF PageTypes, Page
  <2>2. x \in Page
    BY <2>1, EffectKeeps
  <2>3. y \in Page /\ y.query > 0
    BY <2>2, StartRefreshKeeps, EffectKeeps DEF SameFlight
  <2>4. loads' \subseteq loads \cup Query(b, y) /\ UNCHANGED <<hub, stream>>
    BY <1>13 DEF Show
  <2> QED
    BY <1>h, <1>l, <1>q, <2>3, <2>4
<1>14. ASSUME NEW l \in loads,
              Refreshed(l) \/ UpdateFails(l) \/ SnapshotFails(l) \/ RefreshFails(l)
       PROVE  ReadTypes'
  <2>1. loads' = loads \ {l} /\ UNCHANGED <<hub, stream>>
    BY <1>14 DEF Refreshed, UpdateFails, SnapshotFails, RefreshFails
  <2> QED
    BY <1>h, <1>l, <2>1
<1>15. ASSUME UNCHANGED <<hub, stream, loads>>
       PROVE  ReadTypes'
  BY <1>15, <1>h, <1>l
<1> QED
  BY <1>1, <1>2, <1>3, <1>4, <1>5, <1>6, <1>7, <1>8, <1>9, <1>10, <1>11, <1>12, <1>13, <1>14,
     <1>15, NotAWriter DEF Next, Proceeds, Happens

------------------------------------------------------------------------------
(* The pages.                                                              *)

\* A page that has not taken over another board, and has not saved.
Near(x, y) ==
    /\ x.board \subseteq y.board /\ y.rev = x.rev /\ (y.misled <=> x.misled)
    /\ (y.flight.on <=> x.flight.on) /\ y.flight.refetch = x.flight.refetch
    /\ Settled(y)

PageInv(b) == OneSave(b) /\ PageIsWhole(b)

LEMMA NearKept ==
    ASSUME FileTypes, PageTypes, Grown, NEW b \in Browsers, PageInv(b),
           Near(ui[b], ui'[b]), work'[b] = work[b], reply'[b] = reply[b],
           metaFile' = metaFile \/ work[b].stage \notin {"board", "meta"}
    PROVE  PageInv(b)'
<1> DEFINE x == ui[b]
           y == ui'[b]
<1>n. /\ metaFile \in Nat /\ metaFile' \in Nat /\ metaFile <= metaFile'
      /\ \A n \in 0 .. metaFile : saved'[n + 1] = saved[n + 1]
      /\ x.rev \in Nat /\ work[b].expected \in Nat /\ reply[b].rev \in Nat
  BY NotAWriter DEF FileTypes, PageTypes, Grown, Page, Work, Reply
<1>x. /\ x.board \subseteq y.board /\ y.rev = x.rev /\ (y.misled <=> x.misled)
      /\ (y.flight.on <=> x.flight.on) /\ y.flight.refetch = x.flight.refetch
      /\ Settled(y)
  BY DEF Near
<1>h. ASSUME NEW s1, NEW s2, s1 \subseteq s2, NEW rev \in Nat, rev <= metaFile,
             rev < metaFile \/ saved[rev + 1] \subseteq s1
      PROVE  rev < metaFile' \/ saved'[rev + 1] \subseteq s2
  BY <1>h, <1>n
<1>1. OneSave(b)'
  BY <1>x DEF PageInv, OneSave
<1>2. y.rev <= metaFile' /\ (y.misled \/ y.rev < metaFile' \/ saved'[y.rev + 1] \subseteq y.board)
  BY <1>n, <1>x, <1>h DEF PageInv, PageIsWhole, Has
<1>3. work[b].stage = "asked" =>
         /\ work[b].expected <= metaFile'
         /\ \/ work[b].misled \/ work[b].expected < metaFile'
            \/ saved'[work[b].expected + 1] \subseteq work[b].board
         /\ work[b].expected = metaFile' => y.rev = metaFile' /\ work[b].board \subseteq y.board
  BY <1>n, <1>x, <1>h DEF PageInv, PageIsWhole, Has
<1>4. work[b].stage \in {"board", "meta"} =>
         /\ \/ work[b].misled \/ metaFile' < metaFile'
            \/ saved'[metaFile' + 1] \subseteq work[b].board
         /\ y.rev = metaFile' /\ work[b].board \subseteq y.board
  <2> SUFFICES ASSUME work[b].stage \in {"board", "meta"}
               PROVE  /\ work[b].misled \/ saved'[metaFile' + 1] \subseteq work[b].board
                      /\ y.rev = metaFile' /\ work[b].board \subseteq y.board
    OBVIOUS
  <2>1. metaFile' = metaFile /\ saved'[metaFile + 1] = saved[metaFile + 1] /\ ~(metaFile < metaFile)
    BY <1>n
  <2>2. /\ work[b].misled \/ metaFile < metaFile \/ saved[metaFile + 1] \subseteq work[b].board
        /\ x.rev = metaFile /\ work[b].board \subseteq x.board
    BY DEF PageInv, PageIsWhole, Has
  <2> QED
    BY <1>x, <2>1, <2>2
<1>5. reply[b].type # "none" => reply[b].rev <= metaFile'
  BY <1>n DEF PageInv, PageIsWhole
<1>6. reply[b].type = "saved" =>
         /\ y.rev + 1 >= reply[b].rev
         /\ y.misled \/ reply[b].rev < metaFile' \/ saved'[reply[b].rev + 1] \subseteq y.board
  BY <1>n, <1>x, <1>h DEF PageInv, PageIsWhole, Has
<1>7. PageIsWhole(b)'
  BY <1>2, <1>3, <1>4, <1>5, <1>6 DEF PageIsWhole, Has
<1> QED
  BY <1>1, <1>7 DEF PageInv

\* A state that is taken over leaves the page whole or misled, and the save that is
\* under way out of date.
TakesOver(x, m, y) ==
    /\ ~x.applied \/ x.rev < m.rev
    /\ y.board = m.board /\ y.rev = m.rev /\ (y.misled <=> ~Whole(m))

LEMMA TakenOver ==
    ASSUME FileTypes, PageTypes, NEW b \in Browsers, PageInv(b), NEW m,
           m.rev \in Nat, m.rev <= metaFile, TakesOver(ui[b], m, ui'[b]), Settled(ui'[b]),
           UNCHANGED <<metaFile, saved>>, work'[b] = work[b], reply'[b] = reply[b],
           work[b].stage # "idle" \/ reply[b].type # "none" =>
               ui'[b].flight.on /\ ui'[b].flight.refetch = 0
    PROVE  PageInv(b)'
<1> DEFINE x == ui[b]
           y == ui'[b]
<1>n. metaFile \in Nat /\ x.rev \in Nat /\ work[b].expected \in Nat /\ reply[b].rev \in Nat
  BY NotAWriter DEF FileTypes, PageTypes, Page, Work, Reply
<1>x. /\ y.board = m.board /\ y.rev = m.rev
      /\ y.misled \/ saved[m.rev + 1] \subseteq m.board
  BY DEF TakesOver, Whole
<1>1. OneSave(b)'
  BY DEF PageInv, OneSave
<1>2. work[b].stage # "idle" \/ reply[b].type # "none" => x.rev < m.rev
  BY DEF PageInv, OneSave, Settled, TakesOver
<1>3. y.rev <= metaFile /\ (y.misled \/ y.rev < metaFile \/ saved[y.rev + 1] \subseteq y.board)
  BY <1>x
<1>4. work[b].stage = "asked" =>
         /\ work[b].expected <= metaFile
         /\ work[b].misled \/ Has(work[b].board, work[b].expected)
         /\ work[b].expected # metaFile
  BY <1>2, <1>n DEF PageInv, PageIsWhole
<1>5. work[b].stage \notin {"board", "meta"}
  BY <1>2, <1>n DEF PageInv, PageIsWhole
<1>6. reply[b].type # "none" => reply[b].rev <= metaFile
  BY DEF PageInv, PageIsWhole
<1>7. reply[b].type = "saved" =>
         /\ y.rev + 1 >= reply[b].rev
         /\ y.misled \/ reply[b].rev < metaFile \/ saved[reply[b].rev + 1] \subseteq y.board
  <2> SUFFICES ASSUME reply[b].type = "saved"
               PROVE  /\ y.rev + 1 >= reply[b].rev
                      /\ y.misled \/ reply[b].rev < metaFile \/ saved[reply[b].rev + 1] \subseteq y.board
    OBVIOUS
  <2>1. x.rev < m.rev /\ x.rev + 1 >= reply[b].rev
    BY <1>2 DEF PageInv, PageIsWhole
  <2>2. CASE reply[b].rev = metaFile
    BY <1>n, <1>x, <2>1, <2>2
  <2>3. CASE reply[b].rev < metaFile
    BY <1>n, <1>x, <2>1, <2>3
  <2> QED
    BY <1>6, <1>n, <2>2, <2>3
<1>8. PageIsWhole(b)'
  BY <1>3, <1>4, <1>5, <1>6, <1>7 DEF PageIsWhole, Has
<1> QED
  BY <1>1, <1>8 DEF PageInv

\* A page without a save, and what it believes of a revision.
LEMMA WithoutSave ==
    ASSUME NEW b \in Browsers, metaFile \in Nat,
           work'[b].stage = "idle", reply'[b].type = "none", Settled(ui'[b]),
           UNCHANGED <<metaFile, saved>>,
           ui'[b].rev <= metaFile, ui'[b].misled \/ Has(ui'[b].board, ui'[b].rev)
    PROVE  PageInv(b)'
<1>1. OneSave(b)'
  BY DEF OneSave
<1>2. PageIsWhole(b)'
  BY DEF PageIsWhole, Has
<1> QED
  BY <1>1, <1>2 DEF PageInv

\* What each step makes of the page it is about.  OwnPage is the page's part of a
\* step; the other pages are left alone.
OwnPage(b, y) == ui' = [ui EXCEPT ![b] = y] /\ y \in Page

LEMMA PageStays ==
    ASSUME PageTypes, NEW b \in Browsers, PageInv(b), NEW y \in Page,
           SameBoard(ui[b], y), y.flight.on <=> ui[b].flight.on,
           y.flight.refetch = ui[b].flight.refetch, Settled(y), OwnPage(b, y)
    PROVE  Near(ui[b], ui'[b])
  BY DEF Near, SameBoard, OwnPage, PageTypes

LEMMA EffectSettles ==
    ASSUME NEW x \in Page, x.flight.on => x.applied
    PROVE  /\ Effect(x) \in Page /\ SameBoard(x, Effect(x)) /\ SameFlight(x, Effect(x))
           /\ Settled(Effect(x))
  BY EffectKeeps DEF Settled, SameBoard, SameFlight

\* Editing, hiding, showing and breaking.
LEMMA StepNear ==
    ASSUME FileTypes, PageTypes, NEW b \in Browsers, PageInv(b),
           Edit(b) \/ Hide(b) \/ Show(b) \/ Break(b)
    PROVE  \E y \in Page : OwnPage(b, y) /\ Near(ui[b], ui'[b])
<1>p. /\ ui[b] \in Page /\ ui \in [Browsers -> Page] /\ Settled(ui[b])
      /\ ui[b].flight.on => ui[b].applied
  BY DEF PageTypes, PageInv, OneSave, Settled
<1>1. CASE Edit(b)
  <2>1. PICK e \in Edits : e = NewEdit
    BY <1>1, AnEdit DEF Edit
  <2> DEFINE z == [ui[b] EXCEPT !.board = ui[b].board \cup {e}, !.dirty = TRUE,
                                !.flight = [ui[b].flight EXCEPT !.same = FALSE]]
  <2>2. [ui[b].flight EXCEPT !.same = FALSE] \in Flight
        /\ ([ui[b].flight EXCEPT !.same = FALSE].on <=> ui[b].flight.on)
        /\ [ui[b].flight EXCEPT !.same = FALSE].refetch = ui[b].flight.refetch
    BY <1>p DEF Page, Flight
  <2>3. ui[b].board \cup {e} \in Boards
    BY <1>p DEF Page, Boards
  <2>4. /\ z \in Page /\ z.board = ui[b].board \cup {e} /\ z.rev = ui[b].rev
        /\ (z.misled <=> ui[b].misled) /\ (z.applied <=> ui[b].applied)
        /\ z.flight = [ui[b].flight EXCEPT !.same = FALSE]
    BY <1>p, <2>2, <2>3 DEF Page
  <2>5. ui' = [ui EXCEPT ![b] = Effect(z)]
    <3>1. z = [ui[b] EXCEPT !.board = @ \cup {e}, !.dirty = TRUE, !.flight.same = FALSE]
      BY <1>p DEF Page, Flight
    <3>2. ui' = [ui EXCEPT ![b] = Effect([ui[b] EXCEPT !.board = @ \cup {e}, !.dirty = TRUE,
                                                       !.flight.same = FALSE])]
      BY <1>1, <2>1 DEF Edit
    <3> QED
      BY <3>1, <3>2
  <2>6. /\ Effect(z) \in Page /\ SameBoard(z, Effect(z)) /\ SameFlight(z, Effect(z))
        /\ Settled(Effect(z))
    BY <1>p, <2>2, <2>4, EffectSettles
  <2>7. Near(ui[b], Effect(z))
    BY <2>2, <2>4, <2>6 DEF Near, SameBoard, SameFlight
  <2>8. ui'[b] = Effect(z)
    BY <1>p, <2>5
  <2> QED
    BY <2>5, <2>6, <2>7, <2>8 DEF OwnPage
<1>2. CASE Hide(b)
  <2> DEFINE z == [ui[b] EXCEPT !.visible = FALSE]
  <2>1. z \in Page /\ SameBoard(ui[b], z) /\ z.flight = ui[b].flight
    BY <1>p DEF Page, SameBoard
  <2>2. ui' = [ui EXCEPT ![b] = Effect(z)]
    BY <1>2 DEF Hide
  <2>3. /\ Effect(z) \in Page /\ SameBoard(z, Effect(z)) /\ SameFlight(z, Effect(z))
        /\ Settled(Effect(z))
    BY <1>p, <2>1, EffectSettles DEF SameBoard
  <2>4. OwnPage(b, Effect(z)) /\ SameBoard(ui[b], Effect(z)) /\ Effect(z).flight = ui[b].flight
    BY <2>1, <2>2, <2>3 DEF OwnPage, SameBoard, SameFlight
  <2> QED
    BY <2>3, <2>4, PageStays
<1>3. CASE Show(b)
  <2> DEFINE z == [ui[b] EXCEPT !.visible = TRUE]
             x == Effect(z)
             y == Effect(StartRefresh(x))
  <2>1. z \in Page /\ SameBoard(ui[b], z) /\ z.flight = ui[b].flight
    BY <1>p DEF Page, SameBoard
  <2>2. /\ x \in Page /\ SameBoard(z, x) /\ SameFlight(z, x) /\ Settled(x)
    BY <1>p, <2>1, EffectSettles DEF SameBoard
  <2>3. SameBoard(ui[b], x) /\ x.flight = ui[b].flight
    BY <2>1, <2>2 DEF SameBoard, SameFlight
  <2>4. /\ StartRefresh(x) \in Page /\ SameBoard(x, StartRefresh(x))
        /\ StartRefresh(x).flight = x.flight
    BY <2>2, StartRefreshKeeps
  <2>5. StartRefresh(x).flight.on => StartRefresh(x).applied
    BY <1>p, <2>3, <2>4 DEF SameBoard
  <2>6. /\ y \in Page /\ SameBoard(StartRefresh(x), y) /\ SameFlight(StartRefresh(x), y)
        /\ Settled(y)
    BY <2>4, <2>5, EffectSettles
  <2>7. SameBoard(ui[b], y) /\ y.flight = ui[b].flight
    BY <2>3, <2>4, <2>6 DEF SameBoard, SameFlight
  <2>8. CASE ui' = [ui EXCEPT ![b] = x]
    <3>1. OwnPage(b, x)
      BY <2>2, <2>8 DEF OwnPage
    <3> QED
      BY <2>2, <2>3, <3>1, PageStays
  <2>9. CASE ui' = [ui EXCEPT ![b] = y]
    <3>1. OwnPage(b, y)
      BY <2>6, <2>9 DEF OwnPage
    <3> QED
      BY <2>6, <2>7, <3>1, PageStays
  <2> QED
    BY <1>3, <2>8, <2>9 DEF Show
<1>4. CASE Break(b)
  <2> DEFINE y == [ui[b] EXCEPT !.unbroken = FALSE]
  <2>1. /\ y \in Page /\ SameBoard(ui[b], y) /\ y.flight = ui[b].flight
        /\ (y.timer <=> ui[b].timer) /\ (y.applied <=> ui[b].applied)
    BY <1>p DEF Page, SameBoard
  <2>2. OwnPage(b, y)
    BY <1>4, <2>1 DEF Break, OwnPage
  <2>3. Settled(y)
    BY <1>p, <2>1 DEF Settled
  <2> QED
    BY <2>1, <2>2, <2>3, PageStays
<1> QED
  BY <1>1, <1>2, <1>3, <1>4

\* A message of the stream, or the answer to a refresh, is taken over or ignored.
LEMMA AppliedOrNear ==
    ASSUME FileTypes, PageTypes, NEW b \in Browsers, PageInv(b),
           NEW m, m.board \in Boards, m.rev \in Nat, m.rev <= metaFile,
           NEW y \in Page, OwnPage(b, y), SameBoard(Apply(ui[b], m), y), Settled(y),
           y.flight.on <=> ui[b].flight.on, y.flight.refetch = ui[b].flight.refetch,
           UNCHANGED <<metaFile, saved>>, work'[b] = work[b], reply'[b] = reply[b]
    PROVE  PageInv(b)'
<1>p. ui[b] \in Page /\ ui'[b] = y
  BY DEF PageTypes, OwnPage
<1>1. \/ Apply(ui[b], m) = ui[b]
      \/ /\ ~ui[b].applied \/ ui[b].rev < m.rev
         /\ Apply(ui[b], m).board = m.board /\ Apply(ui[b], m).rev = m.rev
         /\ (Apply(ui[b], m).misled <=> ~Whole(m))
  BY <1>p, ApplyKeeps
<1>g. Grown
  BY DEF Grown, FileTypes
<1>2. CASE Apply(ui[b], m) = ui[b]
  <2>1. Near(ui[b], ui'[b])
    BY <1>2, <1>p DEF Near, SameBoard
  <2> QED
    BY <1>g, <2>1, NearKept
<1>3. CASE /\ ~ui[b].applied \/ ui[b].rev < m.rev
           /\ Apply(ui[b], m).board = m.board /\ Apply(ui[b], m).rev = m.rev
           /\ (Apply(ui[b], m).misled <=> ~Whole(m))
  <2>1. TakesOver(ui[b], m, ui'[b])
    BY <1>3, <1>p DEF TakesOver, SameBoard
  <2>2. work[b].stage # "idle" \/ reply[b].type # "none" =>
            ui'[b].flight.on /\ ui'[b].flight.refetch = 0
    BY <1>p DEF PageInv, OneSave
  <2> QED
    BY <1>p, <2>1, <2>2, TakenOver
<1> QED
  BY <1>1, <1>2, <1>3

LEMMA ReceiveKeeps ==
    ASSUME FileTypes, PageTypes, ReadTypes, NEW b \in Browsers, PageInv(b), Receive(b)
    PROVE  PageInv(b)' /\ \E y \in Page : OwnPage(b, y)
<1> DEFINE m == Head(stream[b])
           z == Apply(ui[b], m)
           a == Applied(ui[b], m)
           x == [Applied(ui[b], m) EXCEPT !.snapshot = @ \/ m.type = "snapshot"]
           q == StartRefresh(x)
           y == Effect(q)
<1>1. m \in Message /\ m.rev <= metaFile
  <2>1. stream[b] # <<>> /\ StreamFits(stream[b], metaFile) /\ metaFile \in Nat
    BY DEF Receive, ReadTypes, StreamFits, FileTypes
  <2> QED
    BY <2>1, StreamsFit
<1>2. m.board \in Boards /\ m.rev \in Nat
  BY <1>1 DEF Message
<1>p. ui[b] \in Page /\ Settled(ui[b])
  BY DEF PageTypes, PageInv, OneSave
<1>3. /\ a \in Page /\ SameBoard(z, a) /\ (a.flight.on <=> ui[b].flight.on)
      /\ a.flight.refetch = ui[b].flight.refetch /\ Settled(a)
  BY <1>2, <1>p, AppliedKeeps
<1>5. x \in Page /\ SameBoard(a, x) /\ x.flight = a.flight /\ Settled(x)
  <2>1. PICK t \in BOOLEAN : t <=> (a.snapshot \/ m.type = "snapshot")
    OBVIOUS
  <2>2. x = [a EXCEPT !.snapshot = t]
    BY <1>3, <2>1 DEF Page
  <2> HIDE DEF a, x
  <2>3. /\ x \in Page /\ SameBoard(a, x) /\ x.flight = a.flight /\ (x.timer <=> a.timer)
        /\ (x.applied <=> a.applied)
    BY <1>3, <2>1, <2>2 DEF Page, SameBoard
  <2> QED
    BY <1>3, <2>3 DEF Settled
<1>6. q \in Page /\ SameBoard(x, q) /\ q.flight = x.flight
  <2> HIDE DEF x
  <2> QED
    BY <1>5, StartRefreshKeeps
<1>7. y \in Page /\ SameBoard(q, y) /\ SameFlight(q, y) /\ Settled(y)
  <2>1. q.flight.on => q.applied
    BY <1>5, <1>6 DEF Settled, SameBoard
  <2> HIDE DEF q
  <2> QED
    BY <1>6, <2>1, EffectSettles
<1>8. /\ SameBoard(z, x) /\ x.flight = a.flight
      /\ SameBoard(z, y) /\ y.flight = a.flight
  BY <1>3, <1>5, <1>6, <1>7 DEF SameBoard, SameFlight
<1>9. /\ ui' = [ui EXCEPT ![b] = x] \/ ui' = [ui EXCEPT ![b] = y]
      /\ UNCHANGED <<metaFile, saved, work, reply>>
  BY DEF Receive, files
<1>10. ASSUME NEW w \in Page, ui' = [ui EXCEPT ![b] = w], SameBoard(z, w), w.flight = a.flight,
              Settled(w)
       PROVE  PageInv(b)' /\ \E v \in Page : OwnPage(b, v)
  <2>1. OwnPage(b, w)
    BY <1>10 DEF OwnPage
  <2>2. (w.flight.on <=> ui[b].flight.on) /\ w.flight.refetch = ui[b].flight.refetch
    BY <1>3, <1>10
  <2> HIDE DEF m
  <2> QED
    BY <1>1, <1>2, <1>9, <1>10, <2>1, <2>2, AppliedOrNear
<1> HIDE DEF x, y, z, a
<1> QED
  BY <1>5, <1>7, <1>8, <1>9, <1>10

\* The answer to a refresh may also end the save that waited for it.
LEMMA RefreshedKeeps ==
    ASSUME FileTypes, PageTypes, ReadTypes, NEW l \in loads, Refreshed(l),
           l.to \in Browsers, PageInv(l.to)
    PROVE  PageInv(l.to)' /\ \E y \in Page : OwnPage(l.to, y)
<1> DEFINE b == l.to
           z == [Apply(ui[b], l) EXCEPT !.refreshing = FALSE]
           x == IF l.id = ui[b].query THEN z ELSE ui[b]
           t == Settle(x, x # ui[b])
           y == Effect(x)
<1>1. l.board \in Boards /\ l.rev \in Nat /\ l.rev <= metaFile /\ l.id > 0 /\ l.id \in Nat
  BY DEF Refreshed, ReadTypes, LoadFits, Load, Boards, Revisions
<1>p. ui[b] \in Page /\ Settled(ui[b])
  BY DEF PageTypes, PageInv, OneSave
<1>2. /\ Apply(ui[b], l) \in Page /\ (Apply(ui[b], l).flight.on <=> ui[b].flight.on)
      /\ Apply(ui[b], l).flight.refetch = ui[b].flight.refetch
      /\ (Apply(ui[b], l).timer <=> ui[b].timer)
      /\ ui[b].applied => Apply(ui[b], l).applied
  BY <1>1, <1>p, ApplyKeeps
<1>3. /\ z \in Page /\ SameBoard(Apply(ui[b], l), z) /\ z.flight = Apply(ui[b], l).flight
      /\ (z.timer <=> Apply(ui[b], l).timer) /\ (z.applied <=> Apply(ui[b], l).applied)
  BY <1>2 DEF Page, SameBoard
<1>4. /\ x \in Page /\ (x.flight.on <=> ui[b].flight.on)
      /\ x.flight.refetch = ui[b].flight.refetch /\ Settled(x)
  BY <1>2, <1>3, <1>p DEF Settled
<1>5. SameBoard(Apply(ui[b], l), x) \/ SameBoard(ui[b], x)
  BY <1>3 DEF SameBoard
<1>6. /\ UNCHANGED <<metaFile, saved, work, reply>>
      /\ ui' = [ui EXCEPT ![b] = IF x.flight.on /\ x.flight.refetch = l.id THEN t
                                 ELSE IF x # ui[b] THEN y ELSE x]
  BY DEF Refreshed, files
<1>7. /\ y \in Page /\ SameBoard(x, y) /\ y.flight = x.flight /\ Settled(y)
  <2>1. x.flight.on => x.applied
    BY <1>4 DEF Settled
  <2> HIDE DEF x
  <2> QED
    BY <1>4, <2>1, EffectSettles DEF SameFlight
<1>8. t \in Page /\ SameBoard(x, t) /\ Settled(t)
  <2>1. x.timer => x.applied
    BY <1>4 DEF Settled
  <2>2. PICK c \in BOOLEAN : c = (x # ui[b])
    OBVIOUS
  <2>3. t = Settle(x, c)
    BY <2>2
  <2> HIDE DEF x, t
  <2> QED
    BY <1>4, <2>1, <2>2, <2>3, SettleKeeps
<1>g. Grown
  BY <1>6 DEF Grown, FileTypes
\* The page keeps its save, if it has one.
<1>9. ASSUME NEW w \in Page, ui' = [ui EXCEPT ![b] = w], SameBoard(x, w), Settled(w),
             w.flight.on <=> ui[b].flight.on, w.flight.refetch = ui[b].flight.refetch
      PROVE  PageInv(b)' /\ \E v \in Page : OwnPage(b, v)
  <2>1. OwnPage(b, w) /\ ui'[b] = w
    BY <1>9 DEF OwnPage, PageTypes
  <2>2. CASE SameBoard(Apply(ui[b], l), x)
    <3>1. SameBoard(Apply(ui[b], l), w)
      BY <1>9, <2>2 DEF SameBoard
    <3> QED
      BY <1>1, <1>6, <1>9, <2>1, <3>1, AppliedOrNear
  <2>3. CASE SameBoard(ui[b], x)
    <3>1. Near(ui[b], ui'[b])
      BY <1>9, <2>1, <2>3 DEF Near, SameBoard
    <3> QED
      BY <1>6, <1>g, <2>1, <3>1, NearKept
  <2> QED
    BY <1>5, <2>2, <2>3
<1>10. CASE x.flight.on /\ x.flight.refetch = l.id
  <2>1. work[b].stage = "idle" /\ reply[b].type = "none"
    BY <1>1, <1>4, <1>10 DEF PageInv, OneSave
  <2>2. OwnPage(b, t) /\ ui'[b] = t
    BY <1>6, <1>8, <1>10 DEF OwnPage, PageTypes
  <2>3. metaFile \in Nat /\ ui[b].rev \in Nat
    BY <1>p DEF FileTypes, Page
  <2>4. ui[b].rev <= metaFile /\ (ui[b].misled \/ Has(ui[b].board, ui[b].rev))
    BY DEF PageInv, PageIsWhole
  <2>5. \/ SameBoard(ui[b], x)
        \/ x.board = l.board /\ x.rev = l.rev /\ (x.misled <=> ~Whole(l))
    BY <1>1, <1>p, <1>5, ApplyKeeps DEF SameBoard
  <2>6. t.rev <= metaFile /\ (t.misled \/ Has(t.board, t.rev))
    <3> HIDE DEF x, t
    <3> QED
      BY <1>1, <1>8, <2>4, <2>5 DEF SameBoard, Whole, Has
  <2>7. work'[b].stage = "idle" /\ reply'[b].type = "none"
    BY <1>6, <2>1
  <2> HIDE DEF t
  <2> QED
    BY <1>6, <1>8, <2>2, <2>3, <2>6, <2>7, WithoutSave
<1>11. CASE ~(x.flight.on /\ x.flight.refetch = l.id)
  <2>1. CASE x # ui[b]
    <3>1. ui' = [ui EXCEPT ![b] = y]
      BY <1>6, <1>11, <2>1
    <3>2. y.flight = x.flight
      BY <1>7
    <3> HIDE DEF x, y
    <3> QED
      BY <1>4, <1>7, <1>9, <3>1, <3>2
  <2>2. CASE x = ui[b]
    <3>1. ui' = [ui EXCEPT ![b] = x]
      BY <1>6, <1>11, <2>2
    <3>2. SameBoard(x, x)
      BY DEF SameBoard
    <3> HIDE DEF x
    <3> QED
      BY <1>4, <1>9, <3>1, <3>2
  <2> QED
    BY <2>1, <2>2
<1> QED
  BY <1>10, <1>11

\* A read that fails leaves the board of its page, and the save that waited for it
\* ends.
LEMMA RefreshFailsKeeps ==
    ASSUME FileTypes, PageTypes, ReadTypes, NEW l \in loads, RefreshFails(l),
           l.to \in Browsers, PageInv(l.to)
    PROVE  PageInv(l.to)' /\ \E y \in Page : OwnPage(l.to, y)
<1> DEFINE b == l.to
           newest == l.id = ui[b].query
           z == [ui[b] EXCEPT !.refreshing = FALSE, !.missed = TRUE]
           x == IF newest THEN z ELSE ui[b]
           t == Settle(x, newest)
           y == Effect(x)
<1>1. l.id > 0 /\ l.id \in Nat
  BY DEF RefreshFails, ReadTypes, LoadFits, Load
<1>p. ui[b] \in Page /\ Settled(ui[b])
  BY DEF PageTypes, PageInv, OneSave
<1>3. /\ z \in Page /\ SameBoard(ui[b], z) /\ z.flight = ui[b].flight
      /\ (z.timer <=> ui[b].timer) /\ (z.applied <=> ui[b].applied)
  BY <1>p DEF Page, SameBoard
<1>4. x \in Page /\ SameBoard(ui[b], x) /\ x.flight = ui[b].flight /\ Settled(x)
  BY <1>3, <1>p DEF Settled, SameBoard
<1>6. /\ UNCHANGED <<metaFile, saved, work, reply>>
      /\ ui' = [ui EXCEPT ![b] = IF x.flight.on /\ x.flight.refetch = l.id THEN t
                                 ELSE IF newest THEN y ELSE x]
  BY DEF RefreshFails, files
<1>7. /\ y \in Page /\ SameBoard(x, y) /\ y.flight = x.flight /\ Settled(y)
  <2>1. x.flight.on => x.applied
    BY <1>4 DEF Settled
  <2> HIDE DEF x
  <2> QED
    BY <1>4, <2>1, EffectSettles DEF SameFlight
<1>8. t \in Page /\ SameBoard(x, t) /\ Settled(t)
  <2>1. x.timer => x.applied
    BY <1>4 DEF Settled
  <2>2. PICK c \in BOOLEAN : c = newest
    OBVIOUS
  <2>3. t = Settle(x, c)
    BY <2>2
  <2> HIDE DEF x, t, newest
  <2> QED
    BY <1>4, <2>1, <2>2, <2>3, SettleKeeps
<1>g. Grown
  BY <1>6 DEF Grown, FileTypes
<1>9. ASSUME NEW w \in Page, ui' = [ui EXCEPT ![b] = w], SameBoard(x, w), Settled(w),
             w.flight = x.flight
      PROVE  PageInv(b)' /\ \E v \in Page : OwnPage(b, v)
  <2>1. OwnPage(b, w) /\ ui'[b] = w
    BY <1>9 DEF OwnPage, PageTypes
  <2> HIDE DEF x
  <2>2. Near(ui[b], ui'[b])
    BY <1>4, <1>9, <2>1 DEF Near, SameBoard
  <2> QED
    BY <1>6, <1>g, <2>1, <2>2, NearKept
<1>10. CASE x.flight.on /\ x.flight.refetch = l.id
  <2>1. work[b].stage = "idle" /\ reply[b].type = "none"
    BY <1>1, <1>4, <1>10 DEF PageInv, OneSave
  <2>2. OwnPage(b, t) /\ ui'[b] = t
    BY <1>6, <1>8, <1>10 DEF OwnPage, PageTypes
  <2>3. metaFile \in Nat
    BY DEF FileTypes
  <2>4. ui[b].rev <= metaFile /\ (ui[b].misled \/ Has(ui[b].board, ui[b].rev))
    BY DEF PageInv, PageIsWhole
  <2>6. t.rev <= metaFile /\ (t.misled \/ Has(t.board, t.rev))
    <3> HIDE DEF x, t
    <3> QED
      BY <1>4, <1>8, <2>4 DEF SameBoard, Has
  <2>7. work'[b].stage = "idle" /\ reply'[b].type = "none"
    BY <1>6, <2>1
  <2> HIDE DEF t
  <2> QED
    BY <1>6, <1>8, <2>2, <2>3, <2>6, <2>7, WithoutSave
<1>11. CASE ~(x.flight.on /\ x.flight.refetch = l.id)
  <2>1. ui' = [ui EXCEPT ![b] = y] \/ ui' = [ui EXCEPT ![b] = x]
    BY <1>6, <1>11
  <2>2. SameBoard(x, x)
    BY DEF SameBoard
  <2> HIDE DEF x, y
  <2> QED
    BY <1>4, <1>7, <1>9, <2>1, <2>2
<1> QED
  BY <1>10, <1>11

\* A page that is only marked as having missed a read.
LEMMA MarkedKeeps ==
    ASSUME FileTypes, PageTypes, NEW b \in Browsers, PageInv(b), NEW t \in BOOLEAN,
           ui'[b] = [ui[b] EXCEPT !.missed = t], UNCHANGED <<metaFile, saved, work, reply>>
    PROVE  PageInv(b)' /\ ui'[b] \in Page
<1>p. ui[b] \in Page /\ Settled(ui[b])
  BY DEF PageTypes, PageInv, OneSave
<1>1. /\ ui'[b] \in Page /\ SameBoard(ui[b], ui'[b]) /\ ui'[b].flight = ui[b].flight
      /\ (ui'[b].timer <=> ui[b].timer) /\ (ui'[b].applied <=> ui[b].applied)
  BY <1>p DEF Page, SameBoard
<1>2. Near(ui[b], ui'[b])
  BY <1>p, <1>1 DEF Near, SameBoard, Settled
<1>g. Grown
  BY DEF Grown, FileTypes
<1> QED
  BY <1>1, <1>2, <1>g, NearKept

LEMMA SnapshotFailsKeeps ==
    ASSUME FileTypes, PageTypes, NEW l \in loads, SnapshotFails(l), l.to \in Browsers, PageInv(l.to)
    PROVE  PageInv(l.to)' /\ \E y \in Page : OwnPage(l.to, y)
<1> DEFINE y == [ui[l.to] EXCEPT !.missed = TRUE]
<1>1. /\ ui' = [ui EXCEPT ![l.to] = y] /\ UNCHANGED <<metaFile, saved, work, reply>>
  BY DEF SnapshotFails, files
<1>2. ui'[l.to] = y
  BY <1>1 DEF PageTypes
<1>3. PageInv(l.to)' /\ ui'[l.to] \in Page
  BY <1>1, <1>2, MarkedKeeps
<1> QED
  BY <1>1, <1>2, <1>3 DEF OwnPage

LEMMA UpdateFailsKeeps ==
    ASSUME FileTypes, PageTypes, \A b \in Browsers : PageInv(b), NEW l \in loads, UpdateFails(l)
    PROVE  ui' \in [Browsers -> Page] /\ \A b \in Browsers : PageInv(b)'
<1>1. /\ ui' = [b \in Browsers |-> [ui[b] EXCEPT !.missed = @ \/ b \in Registered]]
      /\ UNCHANGED <<metaFile, saved, work, reply>>
  BY DEF UpdateFails, files
<1>2. ASSUME NEW b \in Browsers
      PROVE  PageInv(b)' /\ ui'[b] \in Page
  <2>1. PICK t \in BOOLEAN : t <=> (ui[b].missed \/ b \in Registered)
    OBVIOUS
  <2>2. ui'[b] = [ui[b] EXCEPT !.missed = t]
    <3>1. ui[b].missed \in BOOLEAN /\ ui'[b] = [ui[b] EXCEPT !.missed = ui[b].missed \/ b \in Registered]
      BY <1>1 DEF PageTypes, Page
    <3>2. (ui[b].missed \/ b \in Registered) = t
      BY <2>1
    <3> QED
      BY <3>1, <3>2
  <2> QED
    BY <1>1, <2>1, <2>2, MarkedKeeps
<1> QED
  BY <1>1, <1>2

\* A save carries the board and the revision of its page.
LEMMA PersistKeeps ==
    ASSUME FileTypes, PageTypes, NEW b \in Browsers, PageInv(b), Persist(b)
    PROVE  PageInv(b)' /\ \E y \in Page : OwnPage(b, y)
<1> DEFINE f == [on |-> TRUE, same |-> TRUE, refetch |-> 0]
           y == [ui[b] EXCEPT !.timer = FALSE, !.flight = f]
           k == [IdleWork EXCEPT !.stage = "asked", !.board = ui[b].board,
                                 !.expected = ui[b].rev, !.misled = ui[b].misled]
<1>p. ui[b] \in Page /\ metaFile \in Nat
  BY DEF PageTypes, FileTypes
<1>1. f \in Flight /\ f.on /\ f.refetch = 0
  BY DEF Flight
<1>2. /\ y \in Page /\ SameBoard(ui[b], y) /\ y.flight = f /\ ~y.timer
  BY <1>p, <1>1 DEF Page, SameBoard
<1>3. /\ ui[b].timer /\ ui' = [ui EXCEPT ![b] = y] /\ work'[b] = k
      /\ UNCHANGED <<metaFile, saved, reply>>
  BY <1>p, NotAWriter DEF Persist, PageTypes, FileTypes
<1>4. ui[b].applied /\ work[b].stage = "idle" /\ reply[b].type = "none"
  BY <1>3 DEF PageInv, OneSave, Settled
<1>5. /\ k.stage = "asked" /\ k.board = ui[b].board /\ k.expected = ui[b].rev
      /\ (k.misled <=> ui[b].misled)
  BY DEF IdleWork
<1>6. OwnPage(b, y) /\ ui'[b] = y
  BY <1>2, <1>3 DEF OwnPage, PageTypes
<1>7. OneSave(b)'
  <2>1. y.flight.on /\ y.flight.refetch = 0 /\ ~y.timer /\ y.applied
    BY <1>1, <1>2, <1>4 DEF SameBoard
  <2>2. reply'[b].type = "none" /\ work'[b].stage = "asked" /\ ui'[b] = y
    BY <1>3, <1>4, <1>5, <1>6
  <2> HIDE DEF y
  <2> QED
    BY <2>1, <2>2 DEF OneSave, Settled
<1>8. ui[b].rev <= metaFile /\ (ui[b].misled \/ Has(ui[b].board, ui[b].rev))
  BY DEF PageInv, PageIsWhole
<1>9. PageIsWhole(b)'
  <2> HIDE DEF k, y
  <2> QED
    BY <1>2, <1>3, <1>4, <1>5, <1>6, <1>8 DEF PageIsWhole, Has, SameBoard
<1> QED
  BY <1>2, <1>6, <1>7, <1>9 DEF PageInv

LEMMA SavedKeeps ==
    ASSUME FileTypes, PageTypes, NEW b \in Browsers, PageInv(b), Saved(b)
    PROVE  PageInv(b)' /\ \E y \in Page : OwnPage(b, y)
<1>p. ui[b] \in Page /\ metaFile \in Nat /\ reply[b].rev \in Nat
  BY DEF PageTypes, FileTypes, Reply
<1>1. PICK d \in BOOLEAN : d = ~ui[b].flight.same
  OBVIOUS
<1>2. PICK c \in BOOLEAN : c = (ui[b].rev # reply[b].rev)
  OBVIOUS
<1> DEFINE z == [ui[b] EXCEPT !.dirty = d, !.rev = reply[b].rev]
           y == Settle(z, c)
<1>3. /\ z \in Page /\ z.board = ui[b].board /\ z.rev = reply[b].rev
      /\ (z.misled <=> ui[b].misled) /\ (z.timer <=> ui[b].timer) /\ (z.applied <=> ui[b].applied)
  BY <1>p, <1>1 DEF Page
<1>4. /\ reply[b].type = "saved" /\ ui' = [ui EXCEPT ![b] = y]
      /\ reply'[b].type = "none" /\ UNCHANGED <<metaFile, saved, work>>
  BY <1>1, <1>2 DEF Saved, files, PageTypes
<1>5. y \in Page /\ SameBoard(z, y) /\ Settled(y)
  <2>1. z.timer => z.applied
    BY <1>3 DEF PageInv, OneSave, Settled
  <2> HIDE DEF z
  <2> QED
    BY <1>2, <1>3, <2>1, SettleKeeps
<1>6. OwnPage(b, y) /\ ui'[b] = y
  BY <1>4, <1>5 DEF OwnPage, PageTypes
<1>7. work[b].stage = "idle"
  BY <1>4 DEF PageInv, OneSave
<1>8. /\ reply[b].rev <= metaFile
      /\ ui[b].misled \/ Has(ui[b].board, reply[b].rev)
  BY <1>4 DEF PageInv, PageIsWhole
<1>9. y.rev <= metaFile /\ (y.misled \/ Has(y.board, y.rev))
  <2> HIDE DEF y, z
  <2> QED
    BY <1>3, <1>5, <1>8 DEF SameBoard
<1>10. work'[b].stage = "idle"
  BY <1>4, <1>7
<1> HIDE DEF y
<1> QED
  BY <1>p, <1>4, <1>5, <1>6, <1>9, <1>10, WithoutSave

\* A refused page takes over a revision and is misled.
LEMMA RefusedKeeps ==
    ASSUME FileTypes, PageTypes, NEW b \in Browsers, PageInv(b), Refused(b)
    PROVE  PageInv(b)' /\ \E y \in Page : OwnPage(b, y)
<1>p. ui[b] \in Page /\ metaFile \in Nat /\ reply[b].rev \in Nat
  BY DEF PageTypes, FileTypes, Reply
<1> DEFINE z == [ui[b] EXCEPT !.rev = reply[b].rev, !.misled = TRUE]
           x == StartRefresh(z)
           v == [x EXCEPT !.flight.refetch = x.query]
           y == Effect(v)
<1>1. /\ z \in Page /\ z.rev = reply[b].rev /\ z.misled /\ z.flight = ui[b].flight
      /\ (z.applied <=> ui[b].applied)
  BY <1>p DEF Page
<1>2. x \in Page /\ SameBoard(z, x) /\ x.flight = z.flight
  <2> HIDE DEF z
  <2> QED
    BY <1>1, StartRefreshKeeps
<1>3. v \in Page /\ SameBoard(x, v) /\ (v.flight.on <=> x.flight.on)
  <2> HIDE DEF x
  <2>1. x.flight \in Flight /\ x.query \in Nat
    BY <1>2 DEF Page
  <2>2. v = [x EXCEPT !.flight = [x.flight EXCEPT !.refetch = x.query]]
    BY <1>2 DEF Page, Flight
  <2>3. /\ [x.flight EXCEPT !.refetch = x.query] \in Flight
        /\ ([x.flight EXCEPT !.refetch = x.query].on <=> x.flight.on)
    BY <2>1 DEF Flight
  <2> QED
    BY <1>2, <2>2, <2>3 DEF Page, SameBoard
<1>4. y \in Page /\ SameBoard(v, y) /\ Settled(y)
  <2>1. v.flight.on => v.applied
    BY <1>1, <1>2, <1>3 DEF SameBoard, PageInv, OneSave, Settled
  <2> HIDE DEF v
  <2> QED
    BY <1>3, <2>1, EffectSettles
<1>5. /\ reply[b].type = "conflict" /\ ui' = [ui EXCEPT ![b] = y]
      /\ reply'[b].type = "none" /\ UNCHANGED <<metaFile, saved, work>>
  BY DEF Refused, files, PageTypes
<1>6. OwnPage(b, y) /\ ui'[b] = y
  BY <1>4, <1>5 DEF OwnPage, PageTypes
<1>7. work[b].stage = "idle" /\ reply[b].rev <= metaFile
  BY <1>5 DEF PageInv, OneSave, PageIsWhole
<1>8. y.rev <= metaFile /\ y.misled
  <2> HIDE DEF x, v, y, z
  <2> QED
    BY <1>1, <1>2, <1>3, <1>4, <1>7 DEF SameBoard
<1>9. work'[b].stage = "idle"
  BY <1>5, <1>7
<1> HIDE DEF y
<1> QED
  BY <1>p, <1>4, <1>5, <1>6, <1>8, <1>9, WithoutSave

LEMMA SaveLostKeeps ==
    ASSUME FileTypes, PageTypes, NEW b \in Browsers, PageInv(b), SaveLost(b)
    PROVE  PageInv(b)' /\ \E y \in Page : OwnPage(b, y)
<1> DEFINE y == Settle(ui[b], FALSE)
<1>p. ui[b] \in Page /\ metaFile \in Nat /\ b \in Writers
  BY NotAWriter DEF PageTypes, FileTypes
<1>1. y \in Page /\ SameBoard(ui[b], y) /\ Settled(y)
  BY <1>p, SettleKeeps DEF PageInv, OneSave, Settled
<1>2. /\ ui' = [ui EXCEPT ![b] = y] /\ reply'[b].type = "none" /\ work'[b] = IdleWork
      /\ UNCHANGED <<metaFile, saved>>
  BY <1>p DEF SaveLost, PageTypes, FileTypes
<1>3. OwnPage(b, y) /\ ui'[b] = y /\ work'[b].stage = "idle"
  <2>1. IdleWork.stage = "idle"
    BY DEF IdleWork
  <2> HIDE DEF y
  <2> QED
    BY <1>1, <1>2, <2>1 DEF OwnPage, PageTypes
<1>4. y.rev <= metaFile /\ (y.misled \/ Has(y.board, y.rev))
  BY <1>1 DEF SameBoard, PageInv, PageIsWhole
<1> HIDE DEF y
<1> QED
  BY <1>p, <1>1, <1>2, <1>3, <1>4, WithoutSave

\* A save is accepted when its revision is the newest: then its page has not moved on.
LEMMA SaveArrivesKeeps ==
    ASSUME FileTypes, PageTypes, NEW b \in Browsers, PageInv(b), SaveArrives(b)
    PROVE  PageInv(b)'
<1>p. work[b] \in Work /\ metaFile \in Nat /\ b \in Writers
  BY NotAWriter DEF FileTypes
<1>1. /\ work[b].stage = "asked" /\ UNCHANGED <<metaFile, saved, ui>>
  BY DEF SaveArrives
<1>2. /\ work[b].misled \/ Has(work[b].board, work[b].expected)
      /\ work[b].expected = metaFile => ui[b].rev = metaFile /\ work[b].board \subseteq ui[b].board
      /\ ui[b].rev <= metaFile /\ (ui[b].misled \/ Has(ui[b].board, ui[b].rev))
      /\ reply[b].type = "none"
  BY <1>1 DEF PageInv, OneSave, PageIsWhole
<1>3. CASE /\ work[b].expected = metaFile
           /\ work' = [work EXCEPT ![b].stage = "board", ![b].next = metaFile + 1]
           /\ reply' = reply
  <2>1. /\ work'[b].stage = "board" /\ work'[b].board = work[b].board
        /\ (work'[b].misled <=> work[b].misled)
    BY <1>3, <1>p DEF FileTypes, Work
  <2>2. OneSave(b)'
    BY <1>1, <1>3, <2>1 DEF PageInv, OneSave
  <2>3. PageIsWhole(b)'
    BY <1>1, <1>2, <1>3, <2>1 DEF PageIsWhole, Has
  <2> QED
    BY <2>2, <2>3 DEF PageInv
<1>4. CASE /\ work' = [work EXCEPT ![b] = IdleWork]
           /\ reply' = [reply EXCEPT ![b] = [type |-> "conflict", rev |-> metaFile]]
  <2>1. work'[b].stage = "idle" /\ reply'[b].type = "conflict" /\ reply'[b].rev = metaFile
    BY <1>4, <1>p DEF FileTypes, PageTypes, IdleWork
  <2>2. OneSave(b)'
    BY <1>1, <2>1 DEF PageInv, OneSave
  <2>3. PageIsWhole(b)'
    BY <1>p, <1>1, <1>2, <2>1 DEF PageIsWhole, Has
  <2> QED
    BY <2>2, <2>3 DEF PageInv
<1> QED
  BY <1>3, <1>4 DEF SaveArrives, IsCurrent

LEMMA WriteBoardKeeps ==
    ASSUME FileTypes, PageTypes, NEW b \in Browsers, PageInv(b), WriteBoard(b)
    PROVE  PageInv(b)'
<1>p. work[b] \in Work /\ b \in Writers
  BY NotAWriter DEF FileTypes
<1>1. /\ work[b].stage = "board" /\ work' = [work EXCEPT ![b] = [@ EXCEPT !.stage = "meta"]]
      /\ UNCHANGED <<metaFile, saved, ui, reply>>
  BY DEF WriteBoard
<1>2. /\ work'[b].stage = "meta" /\ work'[b].board = work[b].board
      /\ (work'[b].misled <=> work[b].misled)
  BY <1>p, <1>1 DEF FileTypes, Work
<1>3. OneSave(b)'
  BY <1>1, <1>2 DEF PageInv, OneSave
<1>4. PageIsWhole(b)'
  BY <1>1, <1>2 DEF PageInv, PageIsWhole, Has
<1> QED
  BY <1>3, <1>4 DEF PageInv

\* What is saved is in the board of the page, which has one revision to catch up.
LEMMA WriteMetaKeeps ==
    ASSUME FileTypes, PageTypes, NEW b \in Browsers, Section(b), PageInv(b), WriteMeta(b)
    PROVE  PageInv(b)'
<1>p. metaFile \in Nat /\ b \in Writers /\ b # Cli
  BY NotAWriter DEF FileTypes
<1>1. /\ metaFile' = metaFile + 1 /\ saved'[metaFile + 2] = work[b].board
  BY <1>p, WriteMetaGrows
<1>2. /\ work[b].stage = "meta" /\ work'[b].stage = "idle" /\ ui' = ui
      /\ reply'[b].type = "saved" /\ reply'[b].rev = work[b].next /\ work[b].next = metaFile + 1
  BY <1>p DEF WriteMeta, Section, FileTypes, PageTypes, IdleWork
<1>3. ui[b].rev = metaFile /\ work[b].board \subseteq ui[b].board
  BY <1>2 DEF PageInv, PageIsWhole
<1>4. OneSave(b)'
  BY <1>2 DEF PageInv, OneSave
<1>5. metaFile < metaFile' /\ metaFile <= metaFile' /\ (metaFile + 1) + 1 = metaFile + 2
  BY <1>p, <1>1
<1>6. PageIsWhole(b)'
  BY <1>p, <1>1, <1>2, <1>3, <1>5 DEF PageIsWhole, Has
<1> QED
  BY <1>4, <1>6 DEF PageInv

------------------------------------------------------------------------------
(* The invariant.                                                          *)

\* The steps of the page b, and those that are of no page.
PageStep(b) ==
    \/ Edit(b) \/ Hide(b) \/ Show(b) \/ Break(b) \/ SaveLost(b)
    \/ Connect(b) \/ Receive(b) \/ Persist(b) \/ SaveArrives(b) \/ Saved(b) \/ Refused(b)
    \/ WriteBoard(b) \/ WriteMeta(b)
    \/ \E l \in loads : l.to = b /\ (Refreshed(l) \/ RefreshFails(l) \/ SnapshotFails(l))

OtherStep ==
    \/ CliMutate \/ CliKilled \/ CliNotify \/ WriteBoard(Cli) \/ WriteMeta(Cli)
    \/ \E l \in loads : LoadBoard(l) \/ LoadMeta(l) \/ SendSnapshot(l) \/ SendUpdate(l)

LEMMA StepKinds ==
    ASSUME ReadTypes, Next
    PROVE  \/ OtherStep
           \/ \E b \in Browsers : PageStep(b)
           \/ \E l \in loads : UpdateFails(l)
<1>1. ASSUME NEW l \in loads, Refreshed(l) \/ RefreshFails(l) \/ SnapshotFails(l)
      PROVE  \E b \in Browsers : PageStep(b)
  <2>1. l.to \in Browsers
    BY <1>1 DEF Refreshed, RefreshFails, SnapshotFails, ReadTypes, LoadFits
  <2> QED
    BY <1>1, <2>1 DEF PageStep
<1>2. ASSUME NEW w \in Writers, WriteBoard(w) \/ WriteMeta(w)
      PROVE  OtherStep \/ \E b \in Browsers : PageStep(b)
  BY <1>2 DEF Writers, OtherStep, PageStep
<1>3. ASSUME NEW b \in Browsers,
             \/ Edit(b) \/ Hide(b) \/ Show(b) \/ Break(b) \/ SaveLost(b)
             \/ Connect(b) \/ Receive(b) \/ Persist(b) \/ SaveArrives(b) \/ Saved(b) \/ Refused(b)
      PROVE  PageStep(b)
  BY <1>3 DEF PageStep
<1>4. ASSUME NEW l \in loads, LoadBoard(l) \/ LoadMeta(l) \/ SendSnapshot(l) \/ SendUpdate(l)
      PROVE  OtherStep
  BY <1>4 DEF OtherStep
<1>5. ASSUME CliMutate \/ CliKilled \/ CliNotify
      PROVE  OtherStep
  BY <1>5 DEF OtherStep
<1> QED
  BY <1>1, <1>2, <1>3, <1>4, <1>5 DEF Next, Proceeds, Happens

LEMMA OwnStep ==
    ASSUME FileTypes, PageTypes, ReadTypes, Grown, NEW b \in Browsers, Section(b), PageInv(b),
           PageStep(b)
    PROVE  /\ PageInv(b)'
           /\ (\E y \in Page : OwnPage(b, y)) \/ ui' = ui
<1>1. CASE Edit(b) \/ Hide(b) \/ Show(b) \/ Break(b)
  <2>1. \E y \in Page : OwnPage(b, y) /\ Near(ui[b], ui'[b])
    BY <1>1, StepNear
  <2>2. UNCHANGED <<work, reply, metaFile>>
    BY <1>1 DEF Edit, Hide, Show, Break, files
  <2> QED
    BY <2>1, <2>2, NearKept
<1>2. CASE Connect(b)
  <2>1. UNCHANGED <<work, reply, metaFile, ui>>
    BY <1>2 DEF Connect, files
  <2>2. Near(ui[b], ui'[b])
    BY <2>1 DEF Near, PageInv, OneSave
  <2> QED
    BY <2>1, <2>2, NearKept
<1>3. CASE SaveArrives(b) \/ WriteBoard(b) \/ WriteMeta(b)
  <2>1. ui' = ui
    BY <1>3 DEF SaveArrives, WriteBoard, WriteMeta
  <2> QED
    BY <1>3, <2>1, SaveArrivesKeeps, WriteBoardKeeps, WriteMetaKeeps
<1>4. CASE \E l \in loads : l.to = b /\ (Refreshed(l) \/ RefreshFails(l) \/ SnapshotFails(l))
  BY <1>4, RefreshedKeeps, RefreshFailsKeeps, SnapshotFailsKeeps
<1> QED
  BY <1>1, <1>2, <1>3, <1>4, SaveLostKeeps, ReceiveKeeps, PersistKeeps, SavedKeeps,
     RefusedKeeps DEF PageStep

\* A step of one page leaves the save and the answer of the others alone.
LEMMA OneWriter ==
    ASSUME FileTypes, PageTypes
    PROVE  /\ \A b \in Browsers : PageStep(b) =>
                 \A c \in Browsers \ {b} : work'[c] = work[c] /\ reply'[c] = reply[c]
           /\ OtherStep => \A c \in Browsers :
                 work'[c] = work[c] /\ reply'[c] = reply[c] /\ ui'[c] = ui[c]
<1>1. ASSUME NEW b \in Browsers, PageStep(b), NEW c \in Browsers \ {b}
      PROVE  work'[c] = work[c] /\ reply'[c] = reply[c]
  <2>p. b \in Writers /\ c \in Writers /\ b # Cli
    BY NotAWriter
  <2>1. CASE \/ Edit(b) \/ Hide(b) \/ Show(b) \/ Break(b) \/ Connect(b) \/ Receive(b)
             \/ \E l \in loads : l.to = b /\ (Refreshed(l) \/ RefreshFails(l) \/ SnapshotFails(l))
    BY <2>1 DEF Edit, Hide, Show, Break, Connect, Receive, Refreshed, RefreshFails, SnapshotFails,
                files
  <2>2. CASE SaveLost(b) \/ Saved(b) \/ Refused(b)
    BY <2>2, <2>p DEF SaveLost, Saved, Refused, files, FileTypes, PageTypes
  <2>3. CASE Persist(b) \/ SaveArrives(b) \/ WriteBoard(b)
    BY <2>3, <2>p DEF Persist, SaveArrives, WriteBoard, FileTypes, PageTypes
  <2>4. CASE WriteMeta(b)
    BY <2>4, <2>p DEF WriteMeta, FileTypes, PageTypes
  <2> QED
    BY <1>1, <2>1, <2>2, <2>3, <2>4 DEF PageStep
<1>2. ASSUME OtherStep, NEW c \in Browsers
      PROVE  work'[c] = work[c] /\ reply'[c] = reply[c] /\ ui'[c] = ui[c]
  <2>p. Cli \in Writers /\ c \in Writers /\ c # Cli
    BY NotAWriter
  <2>1. CASE CliMutate \/ CliKilled \/ CliNotify \/ WriteBoard(Cli)
    BY <2>1, <2>p DEF CliMutate, CliKilled, CliNotify, WriteBoard, FileTypes
  <2>2. CASE WriteMeta(Cli)
    BY <2>2, <2>p DEF WriteMeta, FileTypes
  <2>3. CASE \E l \in loads : LoadBoard(l) \/ LoadMeta(l) \/ SendSnapshot(l) \/ SendUpdate(l)
    BY <2>3 DEF LoadBoard, LoadMeta, SendSnapshot, SendUpdate, files
  <2> QED
    BY <1>2, <2>1, <2>2, <2>3 DEF OtherStep
<1> QED
  BY <1>1, <1>2

\* Only the last write of a section adds a revision.
LEMMA OnlySectionsWrite ==
    ASSUME Next
    PROVE  UNCHANGED <<metaFile, saved>> \/ \E w \in Writers : WriteMeta(w)
<1>1. ASSUME CliMutate \/ CliKilled \/ CliNotify \/ \E w \in Writers : WriteBoard(w)
      PROVE  UNCHANGED <<metaFile, saved>>
  BY <1>1 DEF CliMutate, CliKilled, CliNotify, WriteBoard
<1>2. ASSUME NEW l \in loads,
             \/ LoadBoard(l) \/ LoadMeta(l) \/ SendSnapshot(l) \/ SendUpdate(l) \/ Refreshed(l)
             \/ UpdateFails(l) \/ SnapshotFails(l) \/ RefreshFails(l)
      PROVE  UNCHANGED <<metaFile, saved>>
  BY <1>2 DEF LoadBoard, LoadMeta, SendSnapshot, SendUpdate, Refreshed, UpdateFails, SnapshotFails,
              RefreshFails, files
<1>3. ASSUME NEW b \in Browsers,
             \/ Connect(b) \/ Receive(b) \/ Persist(b) \/ SaveArrives(b) \/ Saved(b) \/ Refused(b)
             \/ Edit(b) \/ Hide(b) \/ Show(b) \/ Break(b) \/ SaveLost(b)
      PROVE  UNCHANGED <<metaFile, saved>>
  BY <1>3 DEF Connect, Receive, Persist, SaveArrives, Saved, Refused, Edit, Hide, Show, Break,
              SaveLost, files
<1> QED
  BY <1>1, <1>2, <1>3 DEF Next, Proceeds, Happens

LEMMA StepReplies == FileTypes /\ PageTypes /\ [Next]_vars => reply' \in [Browsers -> Reply]
<1> SUFFICES ASSUME FileTypes, PageTypes, [Next]_vars PROVE reply' \in [Browsers -> Reply]
  OBVIOUS
<1>r. reply \in [Browsers -> Reply] /\ metaFile \in Nat
  BY DEF PageTypes, FileTypes
<1>1. CASE UNCHANGED vars
  BY <1>1, <1>r DEF vars
<1>2. ASSUME NEW b \in Browsers, SaveArrives(b)
      PROVE  reply' \in [Browsers -> Reply]
  <2>1. [type |-> "conflict", rev |-> metaFile] \in Reply
    BY <1>r DEF Reply
  <2> QED
    BY <1>2, <1>r, <2>1 DEF SaveArrives
<1>3. ASSUME NEW w \in Writers, WriteMeta(w)
      PROVE  reply' \in [Browsers -> Reply]
  <2>1. [type |-> "saved", rev |-> work[w].next] \in Reply
    BY DEF FileTypes, Work, Reply
  <2>2. reply' = reply \/ (w \in Browsers /\ reply' = [reply EXCEPT ![w] = [type |-> "saved", rev |-> work[w].next]])
    BY <1>3 DEF WriteMeta, Writers
  <2> QED
    BY <1>r, <2>1, <2>2
<1>4. ASSUME NEW b \in Browsers, Saved(b) \/ Refused(b) \/ SaveLost(b)
      PROVE  reply' \in [Browsers -> Reply]
  <2>1. [type |-> "none", rev |-> 0] \in Reply
    BY DEF Reply
  <2> QED
    BY <1>4, <1>r, <2>1 DEF Saved, Refused, SaveLost
<1>5. ASSUME NEW b \in Browsers,
             Connect(b) \/ Receive(b) \/ Persist(b) \/ Edit(b) \/ Hide(b) \/ Show(b) \/ Break(b)
      PROVE  reply' = reply
  BY <1>5 DEF Connect, Receive, Persist, Edit, Hide, Show, Break
<1>6. ASSUME NEW l \in loads,
             \/ LoadBoard(l) \/ LoadMeta(l) \/ SendSnapshot(l) \/ SendUpdate(l) \/ Refreshed(l)
             \/ UpdateFails(l) \/ SnapshotFails(l) \/ RefreshFails(l)
      PROVE  reply' = reply
  BY <1>6 DEF LoadBoard, LoadMeta, SendSnapshot, SendUpdate, Refreshed, UpdateFails, SnapshotFails,
              RefreshFails
<1>7. ASSUME CliMutate \/ CliKilled \/ CliNotify \/ \E w \in Writers : WriteBoard(w)
      PROVE  reply' = reply
  BY <1>7 DEF CliMutate, CliKilled, CliNotify, WriteBoard
<1> QED
  BY <1>1, <1>2, <1>3, <1>4, <1>5, <1>6, <1>7, <1>r DEF Next, Proceeds, Happens

LEMMA StepPages ==
    ASSUME FileTypes, PageTypes, ReadTypes, Grown, \A w \in Writers : Section(w),
           \A b \in Browsers : PageInv(b), [Next]_vars
    PROVE  PageTypes' /\ \A b \in Browsers : PageInv(b)'
<1>r. reply' \in [Browsers -> Reply] /\ ui \in [Browsers -> Page]
  BY StepReplies DEF PageTypes
<1>same. ASSUME NEW c \in Browsers, ui'[c] = ui[c], work'[c] = work[c], reply'[c] = reply[c],
                metaFile' = metaFile \/ work[c].stage \notin {"board", "meta"}
         PROVE  PageInv(c)'
  <2>1. Near(ui[c], ui'[c])
    BY <1>same DEF Near, PageInv, OneSave
  <2> QED
    BY <1>same, <2>1, NearKept
<1>m. ASSUME NEW c \in Browsers, Next, metaFile' # metaFile, ~WriteMeta(c)
      PROVE  work[c].stage \notin {"board", "meta"}
  <2>1. PICK w \in Writers : WriteMeta(w)
    BY <1>m, OnlySectionsWrite
  <2>2. lock = w /\ w # c
    BY <1>m, <2>1, WriteMetaGrows
  <2> QED
    BY <2>2, NotAWriter DEF Section
<1>1. CASE UNCHANGED vars
  BY <1>1, <1>r, <1>same DEF vars, PageTypes
<1>2. CASE Next /\ OtherStep
  <2>1. ASSUME NEW c \in Browsers
        PROVE  PageInv(c)' /\ ui'[c] = ui[c]
    <3>1. work'[c] = work[c] /\ reply'[c] = reply[c] /\ ui'[c] = ui[c]
      BY <1>2, OneWriter
    <3>2. metaFile' = metaFile \/ work[c].stage \notin {"board", "meta"}
      <4>1. CASE WriteMeta(c)
        BY <4>1, <3>1, NotAWriter DEF WriteMeta, FileTypes, IdleWork
      <4> QED
        BY <1>2, <1>m, <4>1
    <3> QED
      BY <1>same, <3>1, <3>2
  <2>2. ui' = ui
    BY <1>2 DEF OtherStep, CliMutate, CliKilled, CliNotify, WriteBoard, WriteMeta, LoadBoard,
                LoadMeta, SendSnapshot, SendUpdate
  <2> QED
    BY <1>r, <2>1, <2>2 DEF PageTypes
<1>3. ASSUME Next, NEW b \in Browsers, PageStep(b)
      PROVE  PageTypes' /\ \A c \in Browsers : PageInv(c)'
  <2>1. PageInv(b)' /\ ((\E y \in Page : OwnPage(b, y)) \/ ui' = ui)
    BY <1>3, NotAWriter, OwnStep
  <2>2. ui' \in [Browsers -> Page] /\ \A c \in Browsers \ {b} : ui'[c] = ui[c]
    BY <1>r, <2>1 DEF OwnPage
  <2>3. ASSUME NEW c \in Browsers \ {b}
        PROVE  PageInv(c)'
    <3>1. work'[c] = work[c] /\ reply'[c] = reply[c] /\ ui'[c] = ui[c]
      BY <1>3, <2>2, OneWriter
    <3>2. metaFile' = metaFile \/ work[c].stage \notin {"board", "meta"}
      <4>1. CASE WriteMeta(c)
        BY <4>1, <3>1, NotAWriter DEF WriteMeta, FileTypes, IdleWork
      <4> QED
        BY <1>3, <1>m, <4>1
    <3> QED
      BY <1>same, <3>1, <3>2
  <2> QED
    BY <1>r, <2>1, <2>2, <2>3 DEF PageTypes
<1>4. ASSUME NEW l \in loads, UpdateFails(l)
      PROVE  PageTypes' /\ \A c \in Browsers : PageInv(c)'
  <2>1. ui' \in [Browsers -> Page] /\ \A b \in Browsers : PageInv(b)'
    BY <1>4, UpdateFailsKeeps
  <2> QED
    BY <1>r, <2>1 DEF PageTypes
<1> QED
  BY <1>1, <1>2, <1>3, <1>4, StepKinds

LEMMA InitInv == Init => IInv
<1> SUFFICES ASSUME Init PROVE IInv
  OBVIOUS
<1>1. /\ {} \in Boards /\ IdleWork \in Work /\ NoFlight \in Flight
      /\ [type |-> "none", rev |-> 0] \in Reply
  BY DEF Boards, IdleWork, Work, NoFlight, Flight, Reply
<1>2. NewPage \in Page
  BY <1>1 DEF NewPage, Page
<1>3. FileTypes
  <2>1. <<{}>> \in Seq(Boards) /\ Len(<<{}>>) = 1
    BY <1>1
  <2> QED
    BY <1>1, <2>1 DEF Init, FileTypes
<1>4. ReadTypes
  BY DEF Init, ReadTypes
<1>5. PageTypes
  BY <1>1, <1>2 DEF Init, PageTypes
<1>6. AnswersAgree /\ \A w \in Writers : Section(w)
  BY DEF Init, AnswersAgree, Section, IdleWork
<1>7. ASSUME NEW b \in Browsers
      PROVE  OneSave(b) /\ PageIsWhole(b)
  <2>1. /\ work[b].stage = "idle" /\ reply[b].type = "none"
        /\ ui[b].rev = 0 /\ ui[b].board = {} /\ ~ui[b].timer /\ ~ui[b].flight.on
        /\ metaFile = 0 /\ saved[1] = {}
    BY NotAWriter DEF Init, IdleWork, NewPage, NoFlight
  <2>2. Has(ui[b].board, ui[b].rev) /\ ui[b].rev <= metaFile
    BY <2>1 DEF Has
  <2> QED
    BY <2>1, <2>2 DEF OneSave, Settled, PageIsWhole
<1> QED
  BY <1>3, <1>4, <1>5, <1>6, <1>7 DEF IInv

LEMMA StepInv == IInv /\ [Next]_vars => IInv'
<1> SUFFICES ASSUME IInv, [Next]_vars PROVE IInv'
  OBVIOUS
<1>1. /\ FileTypes /\ ReadTypes /\ PageTypes /\ AnswersAgree /\ \A w \in Writers : Section(w)
      /\ \A b \in Browsers : PageInv(b) /\ OneSave(b)
  BY DEF IInv, PageInv
<1>2. FileTypes' /\ Grown /\ AnswersAgree' /\ \A w \in Writers : Section(w)'
  BY <1>1, StepFiles
<1>3. ReadTypes'
  BY <1>1, <1>2, StepReads
<1>4. PageTypes' /\ \A b \in Browsers : PageInv(b)'
  BY <1>1, <1>2, StepPages
<1> QED
  BY <1>2, <1>3, <1>4 DEF IInv, PageInv

\* Every state of the board, its writers and its pages satisfies the inductive
\* invariant.
THEOREM Invariance == Spec => []IInv
<1>1. Init => IInv
  BY InitInv
<1>2. IInv /\ [Next]_vars => IInv'
  BY StepInv
<1> QED
  BY <1>1, <1>2, PTL DEF Spec

\* The values of the variables; a page has at most one save under way, and no
\* debounce beside it.
THEOREM TypeCorrect == Spec => []TypeOK
<1>1. IInv => TypeOK
  <2> SUFFICES ASSUME IInv PROVE TypeOK
    OBVIOUS
  <2>1. FileTypes /\ ReadTypes /\ PageTypes /\ (\A w \in Writers : Section(w))
        /\ \A b \in Browsers : OneSave(b)
    BY DEF IInv
  <2>2. /\ boardFile \subseteq Edits /\ metaFile \in Revisions /\ lock \in Writers \cup {Nobody}
        /\ metaFile + 1 = Len(saved) /\ hub \in [Browsers -> {"off", "loading", "on"}]
    BY <2>1 DEF FileTypes, ReadTypes, Boards, Revisions
  <2>3. loads \subseteq Load
    BY <2>1 DEF ReadTypes, LoadFits
  <2>4. \A w \in Writers : /\ work[w].stage \in {"idle", "asked", "board", "meta", "notify"}
                           /\ work[w].board \subseteq Edits
                           /\ work[w].stage \in {"board", "meta"} => lock = w
    BY <2>1 DEF FileTypes, Work, Boards, Section
  <2>5. \A b \in Browsers : /\ ui[b].board \subseteq Edits /\ ui[b].rev \in Revisions
                            /\ ui[b].flight.on => ~ui[b].timer
                            /\ work[b].stage # "idle" => ui[b].flight.on
    BY <2>1 DEF PageTypes, Page, Boards, Revisions, OneSave, Settled
  <2> QED
    BY <2>2, <2>3, <2>4, <2>5 DEF TypeOK
<1> QED
  BY <1>1, Invariance, PTL

\* No two saves or mutations are answered with the same revision for different
\* boards.
THEOREM Revisioned == Spec => []OneBoardPerRevision
<1>1. IInv => OneBoardPerRevision
  BY DEF IInv, AnswersAgree, OneBoardPerRevision
<1> QED
  BY <1>1, Invariance, PTL

\* A save that is accepted keeps every edit of the revision it replaces, unless its
\* page was misled.
THEOREM SavesKeepEdits == Spec => StaleSavesAreRefused
<1> DEFINE Keeps == \A b \in Browsers :
              (work[b].stage = "meta" /\ saved' # saved /\ work'[b].stage = "idle" /\ ~work[b].misled)
                 => saved[Len(saved)] \subseteq saved'[Len(saved')]
<1>1. IInv /\ [Next]_vars => [Keeps]_vars
  <2> SUFFICES ASSUME IInv, Next PROVE Keeps
    OBVIOUS
  <2> SUFFICES ASSUME NEW b \in Browsers, work[b].stage = "meta", saved' # saved, ~work[b].misled
               PROVE  saved[Len(saved)] \subseteq saved'[Len(saved')]
    OBVIOUS
  <2>1. PICK w \in Writers : WriteMeta(w)
    BY OnlySectionsWrite
  <2>2. /\ FileTypes /\ Section(w) /\ Section(b) /\ PageIsWhole(b) /\ metaFile \in Nat
        /\ Len(saved) = metaFile + 1
    BY NotAWriter DEF IInv, FileTypes
  <2>3. lock = w /\ Len(saved') = metaFile + 2 /\ saved'[metaFile + 2] = work[w].board
    BY <2>1, <2>2, WriteMetaGrows
  <2>4. w = b
    BY <2>2, <2>3 DEF Section
  <2>5. saved[metaFile + 1] \subseteq work[b].board
    BY <2>2 DEF PageIsWhole, Has
  <2> QED
    BY <2>2, <2>3, <2>4, <2>5
<1> QED
  BY <1>1, Invariance, PTL DEF Spec, StaleSavesAreRefused

-----------------------------------------------------------------------------
(***************************************************************************)
(* The page and its flows: no agent works on a task once the flow that     *)
(* finished it is over, unless flows of the task crossed, a drop took      *)
(* another card in the place of the one that was dragged, or a stop or the *)
(* answer of a start failed.                                               *)
(***************************************************************************)

(***************************************************************************)
(* The columns of a board.                                                 *)
(***************************************************************************)
Distinct(s) == \A i, j \in DOMAIN s : s[i] = s[j] => i = j

PageBoards == [columns : [Columns -> Seq(Tasks)], links : SUBSET (Tasks \X Tasks)]

\* A task has one card at the most.
Tidy(b) ==
  /\ b \in PageBoards
  /\ \A c \in Columns : Distinct(b.columns[c])
  /\ \A c, d \in Columns : \A t \in Tasks :
       t \in Range(b.columns[c]) /\ t \in Range(b.columns[d]) => c = d

\* The members of a sequence, by their positions.
LEMMA Members ==
  ASSUME NEW S, NEW s \in Seq(S)
  PROVE  /\ Range(s) \subseteq S
         /\ \A x : x \in Range(s) <=> \E i \in 1 .. Len(s) : s[i] = x
         /\ \A x : Contains(s, x) <=> x \in Range(s)
  BY DEF Range, Contains

\* A card taken out of a column.
LEMMA RemovedAt ==
  ASSUME NEW S, NEW s \in Seq(S), Distinct(s), NEW i \in 1 .. Len(s)
  PROVE  /\ RemoveAt(s, i) \in Seq(S)
         /\ Len(RemoveAt(s, i)) = Len(s) - 1
         /\ Distinct(RemoveAt(s, i))
         /\ \A x : x \in Range(RemoveAt(s, i)) <=> x \in Range(s) /\ x # s[i]
<1> DEFINE a == SubSeq(s, 1, i - 1)
           z == SubSeq(s, i + 1, Len(s))
           r == RemoveAt(s, i)
           n == Len(s)
<1>1. n \in Nat /\ i \in Int /\ 1 <= i /\ i <= n /\ \A k \in 1 .. n : s[k] \in S
  OBVIOUS
<1>2. /\ a \in Seq(S) /\ Len(a) = i - 1 /\ \A k \in 1 .. i - 1 : a[k] = s[k]
  <2>1. \A k \in 1 .. i - 1 : s[k] \in S
    BY <1>1
  <2>2. 1 \in Int /\ i - 1 \in Int
    BY <1>1
  <2>3. /\ a \in Seq(S)
        /\ Len(a) = IF 1 <= i - 1 THEN (i - 1) - 1 + 1 ELSE 0
        /\ \A k \in 1 .. ((i - 1) - 1 + 1) : a[k] = s[1 + k - 1]
    BY <2>1, <2>2, SubSeqProperties
  <2> QED
    BY <2>3, <1>1
<1>3. /\ z \in Seq(S) /\ Len(z) = n - i /\ \A k \in 1 .. n - i : z[k] = s[i + k]
  <2>1. \A k \in i + 1 .. n : s[k] \in S
    BY <1>1
  <2>2. i + 1 \in Int /\ n \in Int
    BY <1>1
  <2>3. /\ z \in Seq(S)
        /\ Len(z) = IF i + 1 <= n THEN n - (i + 1) + 1 ELSE 0
        /\ \A k \in 1 .. (n - (i + 1) + 1) : z[k] = s[(i + 1) + k - 1]
    BY <2>1, <2>2, SubSeqProperties
  <2> QED
    BY <2>3, <1>1
<1>4. r = a \o z
  BY DEF RemoveAt
<1> HIDE DEF a, z
<1>5. /\ r \in Seq(S) /\ Len(r) = n - 1
      /\ \A k \in 1 .. n - 1 : r[k] = IF k <= i - 1 THEN a[k] ELSE z[k - (i - 1)]
  <2>1. /\ a \o z \in Seq(S) /\ Len(a \o z) = Len(a) + Len(z)
        /\ \A k \in 1 .. Len(a) + Len(z) :
             (a \o z)[k] = IF k <= Len(a) THEN a[k] ELSE z[k - Len(a)]
    BY <1>2, <1>3, ConcatProperties
  <2> HIDE DEF r, n
  <2>2. Len(a) + Len(z) = n - 1
    BY <1>1, <1>2, <1>3
  <2> QED
    BY <1>1, <1>2, <1>3, <1>4, <2>1, <2>2
<1> HIDE DEF r, n
<1>6. /\ DOMAIN r = 1 .. n - 1
      /\ \A k \in 1 .. n - 1 : r[k] = IF k < i THEN s[k] ELSE s[k + 1]
  <2>1. DOMAIN r = 1 .. n - 1
    BY <1>5, <1>1
  <2>2. ASSUME NEW k \in 1 .. n - 1 PROVE r[k] = IF k < i THEN s[k] ELSE s[k + 1]
    <3>1. CASE k < i
      BY <3>1, <1>1, <1>2, <1>5
    <3>2. CASE ~(k < i)
      <4>1. k - (i - 1) \in 1 .. n - i /\ i + (k - (i - 1)) = k + 1 /\ ~(k <= i - 1)
        BY <3>2, <1>1
      <4>2. z[k - (i - 1)] = s[k + 1]
        BY <4>1, <1>3
      <4> QED
        BY <4>1, <4>2, <3>2, <1>5
    <3> QED
      BY <3>1, <3>2
  <2> QED
    BY <2>1, <2>2
<1>7. DOMAIN s = 1 .. n
  BY DEF n
<1>8. Distinct(r)
  <2> SUFFICES ASSUME NEW j \in 1 .. n - 1, NEW k \in 1 .. n - 1, r[j] = r[k]
               PROVE  j = k
    BY <1>6 DEF Distinct
  <2>1. \A l, q \in 1 .. n : s[l] = s[q] => l = q
    BY <1>7 DEF Distinct
  <2>2. \A l \in 1 .. n - 1 : r[l] = s[IF l < i THEN l ELSE l + 1]
                               /\ (IF l < i THEN l ELSE l + 1) \in 1 .. n
    BY <1>1, <1>6
  <2>3. (IF j < i THEN j ELSE j + 1) = (IF k < i THEN k ELSE k + 1)
    BY <2>1, <2>2
  <2> QED
    BY <2>3, <1>1
<1>9. ASSUME NEW x PROVE x \in Range(r) <=> x \in Range(s) /\ x # s[i]
  <2>1. ASSUME x \in Range(r) PROVE x \in Range(s) /\ x # s[i]
    <3>1. PICK k \in 1 .. n - 1 : x = r[k]
      BY <2>1, <1>6 DEF Range
    <3>2. PICK j \in 1 .. n : x = s[j] /\ j # i
      BY <3>1, <1>1, <1>6
    <3> QED
      BY <3>2, <1>1, <1>7 DEF Range, Distinct
  <2>2. ASSUME x \in Range(s), x # s[i] PROVE x \in Range(r)
    <3>1. PICK j \in 1 .. n : x = s[j]
      BY <2>2, <1>7 DEF Range
    <3>2. j # i
      BY <3>1, <2>2
    <3>3. CASE j < i
      <4>1. j \in 1 .. n - 1 /\ r[j] = x
        BY <3>1, <3>3, <1>1, <1>6
      <4> QED
        BY <4>1, <1>6 DEF Range
    <3>4. CASE j > i
      <4>1. j - 1 \in 1 .. n - 1 /\ ~(j - 1 < i) /\ (j - 1) + 1 = j
        BY <3>4, <1>1
      <4>2. r[j - 1] = x
        BY <3>1, <4>1, <1>6
      <4> QED
        BY <4>1, <4>2, <1>6 DEF Range
    <3> QED
      BY <3>2, <3>3, <3>4, <1>1
  <2> QED
    BY <2>1, <2>2
<1> QED
  BY <1>5, <1>8, <1>9 DEF r, n

\* A card put into a column that does not have it.
LEMMA InsertedAt ==
  ASSUME NEW S, NEW s \in Seq(S), Distinct(s), NEW i \in 1 .. Len(s) + 1,
         NEW e \in S, e \notin Range(s)
  PROVE  /\ InsertAt(s, i, e) \in Seq(S)
         /\ Distinct(InsertAt(s, i, e))
         /\ \A x : x \in Range(InsertAt(s, i, e)) <=> x \in Range(s) \/ x = e
<1> DEFINE a == SubSeq(s, 1, i - 1)
           z == SubSeq(s, i, Len(s))
           h == a \o <<e>>
           r == InsertAt(s, i, e)
           n == Len(s)
<1>1. n \in Nat /\ i \in Int /\ 1 <= i /\ i <= n + 1 /\ \A k \in 1 .. n : s[k] \in S
  OBVIOUS
<1>2. /\ a \in Seq(S) /\ Len(a) = i - 1 /\ \A k \in 1 .. i - 1 : a[k] = s[k]
  <2>1. \A k \in 1 .. i - 1 : s[k] \in S
    BY <1>1
  <2>2. 1 \in Int /\ i - 1 \in Int
    BY <1>1
  <2>3. /\ a \in Seq(S)
        /\ Len(a) = IF 1 <= i - 1 THEN (i - 1) - 1 + 1 ELSE 0
        /\ \A k \in 1 .. ((i - 1) - 1 + 1) : a[k] = s[1 + k - 1]
    BY <2>1, <2>2, SubSeqProperties
  <2> QED
    BY <2>3, <1>1
<1>3. /\ z \in Seq(S) /\ Len(z) = n + 1 - i /\ \A k \in 1 .. n + 1 - i : z[k] = s[i + k - 1]
  <2>1. \A k \in i .. n : s[k] \in S
    BY <1>1
  <2>2. i \in Int /\ n \in Int
    BY <1>1
  <2>3. /\ z \in Seq(S)
        /\ Len(z) = IF i <= n THEN n - i + 1 ELSE 0
        /\ \A k \in 1 .. (n - i + 1) : z[k] = s[i + k - 1]
    BY <2>1, <2>2, SubSeqProperties
  <2> QED
    BY <2>3, <1>1
<1>4. r = h \o z
  BY DEF InsertAt
<1> HIDE DEF a, z
<1>5. /\ h \in Seq(S) /\ Len(h) = i
      /\ \A k \in 1 .. i : h[k] = IF k = i THEN e ELSE s[k]
  <2>1. <<e>> \in Seq(S) /\ Len(<<e>>) = 1 /\ <<e>>[1] = e
    OBVIOUS
  <2>2. /\ h \in Seq(S) /\ Len(h) = Len(a) + Len(<<e>>)
        /\ \A k \in 1 .. Len(a) + Len(<<e>>) :
             h[k] = IF k <= Len(a) THEN a[k] ELSE <<e>>[k - Len(a)]
    BY <1>2, <2>1, ConcatProperties
  <2> HIDE DEF h, n
  <2>3. Len(a) = i - 1 /\ i \in Nat
    BY <1>1, <1>2
  <2>4. Len(a) + Len(<<e>>) = i
    BY <2>1, <2>3
  <2>5. \A k \in 1 .. i : h[k] = IF k = i THEN e ELSE s[k]
    <3> SUFFICES ASSUME NEW k \in 1 .. i PROVE h[k] = IF k = i THEN e ELSE s[k]
      OBVIOUS
    <3>1. h[k] = IF k <= Len(a) THEN a[k] ELSE <<e>>[k - Len(a)]
      BY <2>2, <2>4
    <3>2. CASE k = i
      <4>1. ~(k <= Len(a)) /\ k - Len(a) = 1
        BY <3>2, <2>3
      <4> QED
        BY <3>1, <3>2, <4>1, <2>1
    <3>3. CASE k # i
      <4>1. k \in 1 .. i - 1 /\ k <= Len(a)
        BY <3>3, <2>3
      <4> QED
        BY <3>1, <3>3, <4>1, <1>2
    <3> QED
      BY <3>2, <3>3
  <2> QED
    BY <2>2, <2>4, <2>5
<1> HIDE DEF h
<1>6. /\ r \in Seq(S) /\ Len(r) = n + 1
      /\ \A k \in 1 .. n + 1 : r[k] = IF k <= i THEN h[k] ELSE z[k - i]
  <2>1. /\ h \o z \in Seq(S) /\ Len(h \o z) = Len(h) + Len(z)
        /\ \A k \in 1 .. Len(h) + Len(z) :
             (h \o z)[k] = IF k <= Len(h) THEN h[k] ELSE z[k - Len(h)]
    BY <1>3, <1>5, ConcatProperties
  <2> HIDE DEF r, n
  <2>2. Len(h) + Len(z) = n + 1
    BY <1>1, <1>3, <1>5
  <2> QED
    BY <1>4, <1>5, <2>1, <2>2
<1> HIDE DEF r, n
<1>7. /\ DOMAIN r = 1 .. n + 1
      /\ \A k \in 1 .. n + 1 : r[k] = IF k = i THEN e ELSE IF k < i THEN s[k] ELSE s[k - 1]
  <2>1. DOMAIN r = 1 .. n + 1
    BY <1>6, <1>1
  <2>2. ASSUME NEW k \in 1 .. n + 1
        PROVE  r[k] = IF k = i THEN e ELSE IF k < i THEN s[k] ELSE s[k - 1]
    <3>1. CASE k <= i
      BY <3>1, <1>1, <1>5, <1>6
    <3>2. CASE ~(k <= i)
      <4>1. k - i \in 1 .. n + 1 - i /\ i + (k - i) - 1 = k - 1 /\ k # i /\ ~(k < i)
        BY <3>2, <1>1
      <4>2. z[k - i] = s[k - 1]
        BY <4>1, <1>3
      <4> QED
        BY <4>1, <4>2, <3>2, <1>6
    <3> QED
      BY <3>1, <3>2
  <2> QED
    BY <2>1, <2>2
<1>8. DOMAIN s = 1 .. n
  BY DEF n
<1>9. ASSUME NEW x PROVE x \in Range(r) <=> x \in Range(s) \/ x = e
  <2>1. ASSUME x \in Range(r) PROVE x \in Range(s) \/ x = e
    <3>1. PICK k \in 1 .. n + 1 : x = r[k]
      BY <2>1, <1>7 DEF Range
    <3>2. x = e \/ \E j \in 1 .. n : x = s[j]
      BY <3>1, <1>1, <1>7
    <3> QED
      BY <3>2, <1>8 DEF Range
  <2>2. CASE x = e
    <3>1. i \in 1 .. n + 1 /\ r[i] = x
      BY <2>2, <1>1, <1>7
    <3> QED
      BY <2>2, <3>1, <1>7 DEF Range
  <2>3. ASSUME x \in Range(s) PROVE x \in Range(r)
    <3>1. PICK j \in 1 .. n : x = s[j]
      BY <2>3, <1>8 DEF Range
    <3>2. CASE j < i
      <4>1. j \in 1 .. n + 1 /\ r[j] = x
        BY <3>1, <3>2, <1>1, <1>7
      <4> QED
        BY <4>1, <1>7 DEF Range
    <3>3. CASE ~(j < i)
      <4>1. j + 1 \in 1 .. n + 1 /\ ~(j + 1 < i) /\ j + 1 # i /\ (j + 1) - 1 = j
        BY <3>3, <1>1
      <4>2. r[j + 1] = x
        BY <3>1, <4>1, <1>7
      <4> QED
        BY <4>1, <4>2, <1>7 DEF Range
    <3> QED
      BY <3>2, <3>3
  <2> QED
    BY <2>1, <2>2, <2>3
<1>10. Distinct(r)
  <2> SUFFICES ASSUME NEW j \in 1 .. n + 1, NEW k \in 1 .. n + 1, r[j] = r[k]
               PROVE  j = k
    BY <1>7 DEF Distinct
  <2>1. \A l \in 1 .. n : s[l] # e
    BY <1>8 DEF Range
  <2>2. \A l, q \in 1 .. n : s[l] = s[q] => l = q
    BY <1>8 DEF Distinct
  <2>3. \A l \in 1 .. n + 1 : l # i => r[l] = s[IF l < i THEN l ELSE l - 1]
                                      /\ (IF l < i THEN l ELSE l - 1) \in 1 .. n
    BY <1>1, <1>7
  <2>4. r[i] = e /\ i \in 1 .. n + 1
    BY <1>1, <1>7
  <2>5. j = i <=> k = i
    BY <2>1, <2>3, <2>4
  <2>6. CASE j # i
    <3>1. (IF j < i THEN j ELSE j - 1) = (IF k < i THEN k ELSE k - 1)
      BY <2>2, <2>3, <2>5, <2>6
    <3> QED
      BY <3>1, <2>5, <2>6, <1>1
  <2> QED
    BY <2>5, <2>6
<1> QED
  BY <1>6, <1>9, <1>10 DEF r

\* Where a task's card is.
LEMMA ColumnIs ==
  ASSUME NEW b, Tidy(b), NEW t \in Tasks
  PROVE  /\ ColumnOf(b, t) \in Columns \cup {"none"}
         /\ \A c \in Columns : ColumnOf(b, t) = c <=> t \in Range(b.columns[c])
<1>1. \A c \in Columns : b.columns[c] \in Seq(Tasks)
  BY DEF Tidy, PageBoards
<1>2. \A c \in Columns : Contains(b.columns[c], t) <=> t \in Range(b.columns[c])
  BY <1>1, Members
<1>3. "none" \notin Columns
  BY DEF Columns
<1>4. \A c, d \in Columns : t \in Range(b.columns[c]) /\ t \in Range(b.columns[d]) => c = d
  BY DEF Tidy
<1>5. CASE \E c \in Columns : Contains(b.columns[c], t)
  <2>1. ColumnOf(b, t) = CHOOSE c \in Columns : Contains(b.columns[c], t)
    BY <1>5, Zenon DEF ColumnOf
  <2>2. ColumnOf(b, t) \in Columns /\ Contains(b.columns[ColumnOf(b, t)], t)
    BY <1>5, <2>1, Zenon
  <2> QED
    BY <2>2, <1>2, <1>4, Zenon
<1>6. CASE ~ \E c \in Columns : Contains(b.columns[c], t)
  <2>1. ColumnOf(b, t) = "none"
    BY <1>6, Zenon DEF ColumnOf
  <2> QED
    BY <1>2, <1>3, <1>6, <2>1
<1> QED
  BY <1>5, <1>6

\* A card changes its column.
LEMMA Replaced ==
  ASSUME NEW b, Tidy(b), NEW x \in PageBoards, NEW t \in Tasks,
         NEW c \in Columns, NEW d \in Columns, c # d, t \in Range(b.columns[d]),
         \A k \in Columns \ {c, d} : x.columns[k] = b.columns[k],
         Distinct(x.columns[c]), Distinct(x.columns[d]),
         \A u : u \in Range(x.columns[c]) <=> u \in Range(b.columns[c]) \/ u = t,
         \A u : u \in Range(x.columns[d]) <=> u \in Range(b.columns[d]) /\ u # t
  PROVE  /\ Tidy(x)
         /\ ColumnOf(x, t) = c
         /\ \A u \in Tasks \ {t} : ColumnOf(x, u) = ColumnOf(b, u)
<1>1. \A k \in Columns : \A u \in Tasks \ {t} :
        u \in Range(x.columns[k]) <=> u \in Range(b.columns[k])
  <2> SUFFICES ASSUME NEW k \in Columns
               PROVE  \A u \in Tasks \ {t} :
                        u \in Range(x.columns[k]) <=> u \in Range(b.columns[k])
    BY Zenon
  <2>1. k = c \/ k = d \/ k \in Columns \ {c, d}
    OBVIOUS
  <2> QED
    BY <2>1
<1>2. \A k \in Columns : t \in Range(b.columns[k]) => k = d
  BY DEF Tidy
<1>3. \A k \in Columns : t \in Range(x.columns[k]) <=> k = c
  <2> SUFFICES ASSUME NEW k \in Columns PROVE t \in Range(x.columns[k]) <=> k = c
    BY Zenon
  <2>1. k = c \/ k = d \/ k \in Columns \ {c, d}
    OBVIOUS
  <2> QED
    BY <2>1, <1>2
<1>4. Tidy(x)
  <2>1. \A k \in Columns : Distinct(x.columns[k])
    <3> SUFFICES ASSUME NEW k \in Columns PROVE Distinct(x.columns[k])
      BY Zenon
    <3>1. k = c \/ k = d \/ k \in Columns \ {c, d}
      OBVIOUS
    <3> QED
      BY <3>1 DEF Tidy
  <2>2. ASSUME NEW k \in Columns, NEW l \in Columns, NEW u \in Tasks,
               u \in Range(x.columns[k]), u \in Range(x.columns[l])
        PROVE  k = l
    <3>1. CASE u = t
      BY <3>1, <2>2, <1>3
    <3>2. CASE u # t
      <4>1. u \in Range(b.columns[k]) /\ u \in Range(b.columns[l])
        BY <3>2, <2>2, <1>1
      <4> QED
        BY <4>1 DEF Tidy
    <3> QED
      BY <3>1, <3>2
  <2> QED
    BY <2>1, <2>2, Zenon DEF Tidy
<1>5. ColumnOf(x, t) = c
  BY <1>3, <1>4, ColumnIs
<1>6. ASSUME NEW u \in Tasks \ {t} PROVE ColumnOf(x, u) = ColumnOf(b, u)
  <2>1. \A k \in Columns : ColumnOf(x, u) = k <=> ColumnOf(b, u) = k
    BY <1>1, <1>4, ColumnIs
  <2>2. ColumnOf(x, u) \in Columns \cup {"none"} /\ ColumnOf(b, u) \in Columns \cup {"none"}
    BY <1>4, ColumnIs
  <2> QED
    BY <2>1, <2>2
<1> QED
  BY <1>4, <1>5, <1>6

\* Links change no column.
LEMMA RelinkedColumns ==
  ASSUME NEW b \in PageBoards
  PROVE  /\ Relinked(b) \in PageBoards
         /\ Relinked(b).columns = b.columns
<1>1. \A l \in b.links : Oriented(b, l) \in Tasks \X Tasks
  BY DEF PageBoards, Oriented
<1>2. {Oriented(b, l) : l \in {k \in b.links : Joins(b, k)}} \subseteq Tasks \X Tasks
  BY <1>1
<1> QED
  BY <1>2 DEF Relinked, PageBoards

\* Boards with the same cards in their columns.
LEMMA SameColumns ==
  ASSUME NEW b, Tidy(b), NEW x \in PageBoards, x.columns = b.columns
  PROVE  Tidy(x) /\ \A t \in Tasks : ColumnOf(x, t) = ColumnOf(b, t)
  BY DEF Tidy, ColumnOf

\* A card put at an end of a column that does not have it.
LEMMA Inserted ==
  ASSUME NEW s \in Seq(Tasks), Distinct(s), NEW t \in Tasks, t \notin Range(s),
         NEW top \in BOOLEAN
  PROVE  /\ Insert(s, t, top) \in Seq(Tasks)
         /\ Distinct(Insert(s, t, top))
         /\ \A u : u \in Range(Insert(s, t, top)) <=> u \in Range(s) \/ u = t
<1> DEFINE r == Insert(s, t, top)
           n == Len(s)
           at == IF top THEN 1 ELSE n + 1
<1>1. n \in Nat /\ DOMAIN s = 1 .. n /\ \A k \in 1 .. n : s[k] \in Tasks
  OBVIOUS
<1>2. /\ r \in Seq(Tasks) /\ DOMAIN r = 1 .. n + 1 /\ at \in 1 .. n + 1
      /\ \A k \in 1 .. n + 1 : r[k] = IF k = at THEN t ELSE IF k < at THEN s[k] ELSE s[k - 1]
  <2>1. CASE top
    <3>1. <<t>> \in Seq(Tasks) /\ Len(<<t>>) = 1 /\ <<t>>[1] = t
      OBVIOUS
    <3>2. r = <<t>> \o s
      BY <2>1 DEF Insert
    <3>3. /\ r \in Seq(Tasks) /\ Len(r) = 1 + n
          /\ \A k \in 1 .. 1 + n : r[k] = IF k <= 1 THEN <<t>>[k] ELSE s[k - 1]
      BY <3>1, <3>2, ConcatProperties
    <3> HIDE DEF r
    <3> QED
      BY <3>1, <3>3, <2>1, <1>1
  <2>2. CASE ~top
    <3>1. r = Append(s, t)
      BY <2>2 DEF Insert
    <3>2. /\ r \in Seq(Tasks) /\ Len(r) = n + 1
          /\ \A k \in 1 .. n : r[k] = s[k]
          /\ r[n + 1] = t
      BY <3>1, AppendProperties
    <3> HIDE DEF r
    <3> QED
      BY <3>2, <2>2, <1>1
  <2> QED
    BY <2>1, <2>2
<1> HIDE DEF r, at
<1>3. \A l \in 1 .. n : s[l] # t
  BY <1>1 DEF Range
<1>4. \A l, q \in 1 .. n : s[l] = s[q] => l = q
  BY <1>1 DEF Distinct
<1>5. \A l \in 1 .. n + 1 : l # at => r[l] = s[IF l < at THEN l ELSE l - 1]
                                      /\ (IF l < at THEN l ELSE l - 1) \in 1 .. n
  BY <1>1, <1>2
<1>6. Distinct(r)
  <2> SUFFICES ASSUME NEW j \in 1 .. n + 1, NEW k \in 1 .. n + 1, r[j] = r[k]
               PROVE  j = k
    BY <1>2 DEF Distinct
  <2>1. j = at <=> k = at
    BY <1>2, <1>3, <1>5
  <2>2. CASE j # at
    <3>1. (IF j < at THEN j ELSE j - 1) = (IF k < at THEN k ELSE k - 1)
      BY <1>4, <1>5, <2>1, <2>2
    <3> QED
      BY <3>1, <2>1, <2>2, <1>1, <1>2
  <2> QED
    BY <2>1, <2>2
<1>7. ASSUME NEW u PROVE u \in Range(r) <=> u \in Range(s) \/ u = t
  <2>1. ASSUME u \in Range(r) PROVE u \in Range(s) \/ u = t
    <3>1. PICK k \in 1 .. n + 1 : u = r[k]
      BY <2>1, <1>2 DEF Range
    <3> QED
      BY <3>1, <1>1, <1>2, <1>5 DEF Range
  <2>2. CASE u = t
    BY <2>2, <1>2 DEF Range
  <2>3. ASSUME u \in Range(s) PROVE u \in Range(r)
    <3>1. PICK j \in 1 .. n : u = s[j]
      BY <2>3, <1>1 DEF Range
    <3>2. CASE j < at
      <4>1. j \in 1 .. n + 1 /\ r[j] = u
        BY <3>1, <3>2, <1>1, <1>2
      <4> QED
        BY <4>1, <1>2 DEF Range
    <3>3. CASE ~(j < at)
      <4>1. j + 1 \in 1 .. n + 1 /\ ~(j + 1 < at) /\ j + 1 # at /\ (j + 1) - 1 = j
        BY <3>3, <1>1, <1>2
      <4>2. r[j + 1] = u
        BY <3>1, <4>1, <1>2
      <4> QED
        BY <4>1, <4>2, <1>2 DEF Range
    <3> QED
      BY <3>2, <3>3
  <2> QED
    BY <2>1, <2>2, <2>3
<1> QED
  BY <1>2, <1>6, <1>7 DEF r

\* The index of a task's card in its column.
LEMMA IndexIs ==
  ASSUME NEW b, Tidy(b), NEW t \in Tasks, ColumnOf(b, t) # "none"
  PROVE  /\ Index(b, t) \in 1 .. Len(b.columns[ColumnOf(b, t)])
         /\ b.columns[ColumnOf(b, t)][Index(b, t)] = t
<1> DEFINE s == b.columns[ColumnOf(b, t)]
           I == {i \in 1 .. Len(s) : s[i] = t}
<1>1. ColumnOf(b, t) \in Columns /\ s \in Seq(Tasks) /\ t \in Range(s)
  BY ColumnIs DEF Tidy, PageBoards
<1>2. PICK i \in 1 .. Len(s) : s[i] = t
  BY <1>1, Members
<1>3. I = {i}
  <2>1. Distinct(s)
    BY <1>1 DEF Tidy
  <2>2. DOMAIN s = 1 .. Len(s)
    BY <1>1
  <2> QED
    BY <1>2, <2>1, <2>2 DEF Distinct
<1>4. Index(b, t) = Min(I)
  BY <1>3, Zenon DEF Index, SelectInSeq
<1>5. Min(I) = i
  <2>1. \A y \in {i} : i <= y
    BY <1>2
  <2> HIDE DEF I
  <2> QED
    BY <1>3, <2>1 DEF Min
<1> QED
  BY <1>2, <1>4, <1>5

\* A card is moved to a column.
LEMMA Moved ==
  ASSUME NEW b, Tidy(b), NEW t \in Tasks, NEW c \in Columns, NEW top \in BOOLEAN
  PROVE  /\ Tidy(MoveTo(b, t, c, top))
         /\ ColumnOf(MoveTo(b, t, c, top), t) = IF ColumnOf(b, t) = "none" THEN "none" ELSE c
         /\ \A u \in Tasks \ {t} : ColumnOf(MoveTo(b, t, c, top), u) = ColumnOf(b, u)
<1> DEFINE d == ColumnOf(b, t)
           out == RemoveAt(b.columns[d], Index(b, t))
           in == Insert(b.columns[c], t, top \/ c = "trash")
           x == [b EXCEPT !.columns[d] = out, !.columns[c] = in]
<1>1. CASE d \in {c, "none"}
  <2>1. MoveTo(b, t, c, top) = b
    BY <1>1 DEF MoveTo
  <2> QED
    BY <1>1, <2>1
<1>2. CASE d \notin {c, "none"}
  <2>1. d \in Columns /\ c # d /\ t \in Range(b.columns[d]) /\ t \notin Range(b.columns[c])
    BY <1>2, ColumnIs
  <2>2. /\ b \in PageBoards
        /\ b.columns \in [Columns -> Seq(Tasks)]
        /\ Distinct(b.columns[c]) /\ Distinct(b.columns[d])
        /\ b.columns[c] \in Seq(Tasks) /\ b.columns[d] \in Seq(Tasks)
    BY <2>1 DEF Tidy, PageBoards
  <2>3. Index(b, t) \in 1 .. Len(b.columns[d]) /\ b.columns[d][Index(b, t)] = t
    BY <1>2, IndexIs
  <2>4. /\ out \in Seq(Tasks) /\ Distinct(out)
        /\ \A u : u \in Range(out) <=> u \in Range(b.columns[d]) /\ u # t
    BY <2>2, <2>3, RemovedAt
  <2>5. /\ in \in Seq(Tasks) /\ Distinct(in)
        /\ \A u : u \in Range(in) <=> u \in Range(b.columns[c]) \/ u = t
    <3>1. (top \/ c = "trash") \in BOOLEAN
      OBVIOUS
    <3> QED
      BY <3>1, <2>1, <2>2, Inserted
  <2>6. MoveTo(b, t, c, top) = Relinked(x)
    <3>1. MoveTo(b, t, c, top) =
            Relinked([b EXCEPT !.columns[d] = out,
                               !.columns[c] = Insert(@, t, top \/ c = "trash")])
      BY <1>2 DEF MoveTo
    <3>2. [b EXCEPT !.columns[d] = out,
                    !.columns[c] = Insert(@, t, top \/ c = "trash")] = x
      <4> HIDE DEF d, out
      <4> QED
        BY <2>1, <2>2 DEF PageBoards
    <3> QED
      BY <3>1, <3>2
  <2> HIDE DEF d, out, in
  <2>7. /\ x \in PageBoards
        /\ x.columns[c] = in /\ x.columns[d] = out
        /\ \A k \in Columns \ {c, d} : x.columns[k] = b.columns[k]
    BY <2>1, <2>2, <2>4, <2>5 DEF PageBoards
  <2> HIDE DEF x
  <2>8. Tidy(x) /\ ColumnOf(x, t) = c /\ \A u \in Tasks \ {t} : ColumnOf(x, u) = ColumnOf(b, u)
    BY <2>1, <2>4, <2>5, <2>7, Replaced
  <2>9. Relinked(x) \in PageBoards /\ Relinked(x).columns = x.columns
    BY <2>7, RelinkedColumns
  <2>10. Tidy(Relinked(x)) /\ \A u \in Tasks : ColumnOf(Relinked(x), u) = ColumnOf(x, u)
    BY <2>8, <2>9, SameColumns
  <2> QED
    BY <1>2, <2>6, <2>8, <2>10 DEF d
<1> QED
  BY <1>1, <1>2

\* The card at an index of a column is put into another one.
LEMMA Dragged ==
  ASSUME Tidy(board), drag.from \in Columns, drag.index \in 1 .. Len(board.columns[drag.from]),
         NEW to \in Columns, to # drag.from, NEW n \in 1 .. Len(board.columns[to]) + 1
  PROVE  /\ Card \in Tasks /\ ColumnOf(board, Card) = drag.from
         /\ Tidy(Reordered(to, n))
         /\ ColumnOf(Reordered(to, n), Card) = to
         /\ \A u \in Tasks \ {Card} : ColumnOf(Reordered(to, n), u) = ColumnOf(board, u)
<1> DEFINE b == board
           d == drag.from
           t == Card
           out == RemoveAt(b.columns[d], drag.index)
           in == InsertAt(b.columns[to], n, t)
           x == [b EXCEPT !.columns[d] = out, !.columns[to] = in]
<1>1. /\ b \in PageBoards
      /\ b.columns \in [Columns -> Seq(Tasks)]
      /\ Distinct(b.columns[to]) /\ Distinct(b.columns[d])
      /\ b.columns[to] \in Seq(Tasks) /\ b.columns[d] \in Seq(Tasks)
  BY DEF Tidy, PageBoards
<1>2. t \in Tasks /\ t = b.columns[d][drag.index]
  BY <1>1 DEF Card
<1>3. t \in Range(b.columns[d])
  BY <1>1, <1>2, Members
<1>4. ColumnOf(b, t) = d /\ t \notin Range(b.columns[to])
  BY <1>2, <1>3, ColumnIs
<1>5. /\ out \in Seq(Tasks) /\ Distinct(out)
      /\ \A u : u \in Range(out) <=> u \in Range(b.columns[d]) /\ u # t
  BY <1>1, <1>2, RemovedAt
<1>6. /\ in \in Seq(Tasks) /\ Distinct(in)
      /\ \A u : u \in Range(in) <=> u \in Range(b.columns[to]) \/ u = t
  BY <1>1, <1>2, <1>4, InsertedAt
<1>7. Reordered(to, n) = Relinked(x)
  <2>1. [b EXCEPT !.columns[d] = out, !.columns[to] = InsertAt(@, n, t)] = x
    <3> HIDE DEF t, out, d
    <3>1. to # d
      BY DEF d
    <3> QED
      BY <1>1, <3>1 DEF PageBoards
  <2>2. Reordered(to, n) = Relinked([b EXCEPT !.columns[d] = out, !.columns[to] = InsertAt(@, n, t)])
    BY DEF Reordered
  <2> QED
    BY <2>1, <2>2
<1>8. d \in Columns /\ to # d
  OBVIOUS
<1> HIDE DEF d, out, in, b, t
<1>9. /\ x \in PageBoards
      /\ x.columns[to] = in /\ x.columns[d] = out
      /\ \A k \in Columns \ {to, d} : x.columns[k] = b.columns[k]
  BY <1>1, <1>5, <1>6, <1>8 DEF PageBoards
<1> HIDE DEF x
<1>10. Tidy(x) /\ ColumnOf(x, t) = to /\ \A u \in Tasks \ {t} : ColumnOf(x, u) = ColumnOf(b, u)
  <2>1. Tidy(b)
    BY DEF b
  <2> QED
    BY <2>1, <1>2, <1>3, <1>5, <1>6, <1>8, <1>9, Replaced
<1>11. Relinked(x) \in PageBoards /\ Relinked(x).columns = x.columns
  BY <1>9, RelinkedColumns
<1>12. Tidy(Relinked(x)) /\ \A u \in Tasks : ColumnOf(Relinked(x), u) = ColumnOf(x, u)
  BY <1>10, <1>11, SameColumns
<1> QED
  BY <1>2, <1>4, <1>7, <1>10, <1>12 DEF b, t, d

\* A column gets its own cards in another order.
LEMMA Permuted ==
  ASSUME NEW b, Tidy(b), NEW c \in Columns, NEW s \in Seq(Tasks), Distinct(s),
         \A u : u \in Range(s) <=> u \in Range(b.columns[c]),
         NEW x, x = [b EXCEPT !.columns[c] = s]
  PROVE  Tidy(x) /\ \A u \in Tasks : ColumnOf(x, u) = ColumnOf(b, u)
<1>1. b \in PageBoards
  BY DEF Tidy
<1>2. /\ x \in PageBoards /\ x.columns[c] = s
      /\ \A k \in Columns \ {c} : x.columns[k] = b.columns[k]
  BY <1>1 DEF PageBoards
<1>3. ASSUME NEW k \in Columns
      PROVE  /\ Distinct(x.columns[k])
             /\ \A u : u \in Range(x.columns[k]) <=> u \in Range(b.columns[k])
  <2>1. CASE k = c
    BY <2>1, <1>2
  <2>2. CASE k # c
    BY <2>2, <1>2 DEF Tidy
  <2> QED
    BY <2>1, <2>2
<1>4. Tidy(x)
  <2>1. ASSUME NEW k \in Columns, NEW l \in Columns, NEW u \in Tasks,
               u \in Range(x.columns[k]), u \in Range(x.columns[l])
        PROVE  k = l
    BY <2>1, <1>3, Zenon DEF Tidy
  <2> QED
    BY <1>2, <1>3, <2>1, Zenon DEF Tidy
<1>5. ASSUME NEW u \in Tasks PROVE ColumnOf(x, u) = ColumnOf(b, u)
  <2>1. \A k \in Columns : ColumnOf(x, u) = k <=> ColumnOf(b, u) = k
    <3> SUFFICES ASSUME NEW k \in Columns PROVE ColumnOf(x, u) = k <=> ColumnOf(b, u) = k
      BY Zenon
    <3>1. ColumnOf(x, u) = k <=> u \in Range(x.columns[k])
      BY <1>4, ColumnIs, Zenon
    <3>2. ColumnOf(b, u) = k <=> u \in Range(b.columns[k])
      BY ColumnIs, Zenon
    <3> QED
      BY <3>1, <3>2, <1>3, Zenon
  <2>2. ColumnOf(x, u) \in Columns \cup {"none"} /\ ColumnOf(b, u) \in Columns \cup {"none"}
    BY <1>4, ColumnIs, Zenon
  <2> QED
    BY <2>1, <2>2
<1> QED
  BY <1>4, <1>5

\* A card is put elsewhere in its column.
LEMMA Shifted ==
  ASSUME NEW b, Tidy(b), NEW c \in Columns, NEW i \in DOMAIN b.columns[c],
         NEW n \in DOMAIN b.columns[c]
  PROVE  LET x == [b EXCEPT !.columns[c] = InsertAt(RemoveAt(@, i), n, b.columns[c][i])]
         IN  Tidy(x) /\ \A u \in Tasks : ColumnOf(x, u) = ColumnOf(b, u)
<1> DEFINE s == b.columns[c]
           out == RemoveAt(s, i)
           in == InsertAt(out, n, s[i])
           x == [b EXCEPT !.columns[c] = InsertAt(RemoveAt(@, i), n, b.columns[c][i])]
<1>1. /\ b \in PageBoards /\ b.columns \in [Columns -> Seq(Tasks)]
      /\ s \in Seq(Tasks) /\ Distinct(s)
  BY DEF Tidy, PageBoards
<1>2. i \in 1 .. Len(s) /\ n \in 1 .. Len(s) /\ s[i] \in Tasks /\ s[i] \in Range(s)
  BY <1>1 DEF Range
<1>3. /\ out \in Seq(Tasks) /\ Distinct(out) /\ Len(out) = Len(s) - 1
      /\ \A u : u \in Range(out) <=> u \in Range(s) /\ u # s[i]
  BY <1>1, <1>2, RemovedAt
<1>4. n \in 1 .. Len(out) + 1
  BY <1>1, <1>2, <1>3
<1>5. x = [b EXCEPT !.columns[c] = in]
  BY <1>1 DEF PageBoards
<1> HIDE DEF x, s, out
<1>6. /\ in \in Seq(Tasks) /\ Distinct(in)
      /\ \A u : u \in Range(in) <=> u \in Range(s)
  <2>1. /\ in \in Seq(Tasks) /\ Distinct(in)
        /\ \A u : u \in Range(in) <=> u \in Range(out) \/ u = s[i]
    BY <1>2, <1>3, <1>4, InsertedAt
  <2> HIDE DEF in
  <2> QED
    BY <2>1, <1>2, <1>3
<1> HIDE DEF in
<1>7. Tidy(x) /\ \A u \in Tasks : ColumnOf(x, u) = ColumnOf(b, u)
  <2>1. \A u : u \in Range(in) <=> u \in Range(b.columns[c])
    BY <1>6 DEF s
  <2> QED
    BY <2>1, <1>5, <1>6, Permuted
<1> QED
  BY <1>7 DEF x

\* The trash is emptied.
LEMMA Emptied ==
  ASSUME NEW b, Tidy(b), NEW x, x = Relinked([b EXCEPT !.columns["trash"] = <<>>])
  PROVE  /\ Tidy(x)
         /\ \A t \in Tasks :
              ColumnOf(x, t) = IF ColumnOf(b, t) = "trash" THEN "none" ELSE ColumnOf(b, t)
<1> DEFINE y == [b EXCEPT !.columns["trash"] = <<>>]
<1>1. b \in PageBoards /\ b.columns \in [Columns -> Seq(Tasks)]
  BY DEF Tidy, PageBoards
<1>2. <<>> \in Seq(Tasks) /\ "trash" \in Columns /\ Distinct(<<>>) /\ Range(<<>>) = {}
  BY DEF Columns, Distinct, Range
<1>3. /\ y \in PageBoards /\ y.columns["trash"] = <<>>
      /\ \A k \in Columns \ {"trash"} : y.columns[k] = b.columns[k]
  BY <1>1, <1>2 DEF PageBoards
<1> HIDE DEF y
<1>4. Tidy(y)
  <2>1. \A k \in Columns : Distinct(y.columns[k])
    <3> SUFFICES ASSUME NEW k \in Columns PROVE Distinct(y.columns[k])
      BY Zenon
    <3>1. k = "trash" \/ k \in Columns \ {"trash"}
      OBVIOUS
    <3> QED
      BY <3>1, <1>2, <1>3 DEF Tidy
  <2>2. \A k \in Columns : \A u : u \in Range(y.columns[k]) => u \in Range(b.columns[k])
    <3> SUFFICES ASSUME NEW k \in Columns, NEW u, u \in Range(y.columns[k])
                 PROVE  u \in Range(b.columns[k])
      BY Zenon
    <3>1. k = "trash" \/ k \in Columns \ {"trash"}
      OBVIOUS
    <3> QED
      BY <3>1, <1>2, <1>3
  <2>3. ASSUME NEW k \in Columns, NEW l \in Columns, NEW u \in Tasks,
               u \in Range(y.columns[k]), u \in Range(y.columns[l])
        PROVE  k = l
    BY <2>2, <2>3 DEF Tidy
  <2> QED
    BY <1>3, <2>1, <2>3, Zenon DEF Tidy
<1>5. ASSUME NEW t \in Tasks
      PROVE  ColumnOf(y, t) = IF ColumnOf(b, t) = "trash" THEN "none" ELSE ColumnOf(b, t)
  <2>1. \A k \in Columns \ {"trash"} : ColumnOf(y, t) = k <=> ColumnOf(b, t) = k
    BY <1>3, <1>4, ColumnIs
  <2>2. ColumnOf(y, t) # "trash"
    BY <1>2, <1>3, <1>4, ColumnIs
  <2>3. ColumnOf(y, t) \in Columns \cup {"none"} /\ ColumnOf(b, t) \in Columns \cup {"none"}
        /\ "none" \notin Columns
    BY <1>4, ColumnIs DEF Columns
  <2> QED
    BY <2>1, <2>2, <2>3
<1>6. x = Relinked(y)
  BY DEF y
<1>7. x \in PageBoards /\ x.columns = y.columns
  BY <1>3, <1>6, RelinkedColumns
<1>8. Tidy(x) /\ \A u \in Tasks : ColumnOf(x, u) = ColumnOf(y, u)
  BY <1>4, <1>7, SameColumns
<1> QED
  BY <1>5, <1>8

\* Links are added or removed.
LEMMA Linked ==
  ASSUME NEW b, Tidy(b), NEW l \in SUBSET (Tasks \X Tasks), NEW x, x = [b EXCEPT !.links = l]
  PROVE  Tidy(x) /\ \A u \in Tasks : ColumnOf(x, u) = ColumnOf(b, u)
<1>1. x \in PageBoards /\ x.columns = b.columns
  BY DEF Tidy, PageBoards
<1> QED
  BY <1>1, SameColumns

(***************************************************************************)
(* Folds.  FoldLeft takes the largest index out of a set of indices; what  *)
(* it computes is defined.                                                 *)
(***************************************************************************)

\* A set of naturals that is not empty has a least element.
LEMMA LeastElement ==
  ASSUME NEW S \in SUBSET Nat, S # {}
  PROVE  \E x \in S : \A y \in S : x <= y
<1>1. PICK x \in S : \A y \in S : ~(<<y, x>> \in OpToRel(<, Nat))
  BY WFMin, NatLessThanWellFounded, Zenon
<1>2. \A y \in S : ~(y < x)
  BY <1>1, Zenon DEF OpToRel
<1> QED
  BY <1>2

\* The largest index of a set that holds the last one.
LEMMA LargestIndex ==
  ASSUME NEW n \in Nat \ {0}, NEW T \in SUBSET (1 .. n), n \in T
  PROVE  Max(T) = n /\ T \ {n} \in SUBSET (1 .. n - 1)
<1>1. \A x \in T : (\A y \in T : x >= y) => x = n
  OBVIOUS
<1>2. \A y \in T : n >= y
  OBVIOUS
<1>3. Max(T) \in T /\ \A y \in T : Max(T) >= y
  <2>1. \E x \in T : \A y \in T : x >= y
    BY <1>2
  <2> QED
    BY <2>1, Zenon DEF Max
<1>4. Max(T) = n
  BY <1>1, <1>3, Zenon
<1>5. T \ {n} \in SUBSET (1 .. n - 1)
  OBVIOUS
<1> QED
  BY <1>4, <1>5

\* The largest index of a set of indices is one of them.
LEMMA LargestMember ==
  ASSUME NEW n \in Nat, NEW T \in SUBSET (1 .. n), T # {}
  PROVE  Max(T) \in T
<1> DEFINE Over == {k \in 0 .. n : \A x \in T : x <= k}
<1>1. Over \in SUBSET Nat /\ n \in Over
  OBVIOUS
<1>2. PICK k \in Over : \A y \in Over : k <= y
  BY <1>1, LeastElement
<1>3. k \in T
  <2> SUFFICES ASSUME k \notin T PROVE FALSE
    OBVIOUS
  <2>1. k # 0 /\ k \in Nat
    <3>1. PICK x \in T : x \in 1 .. n
      OBVIOUS
    <3> QED
      BY <3>1, <1>2
  <2>2. \A x \in T : x <= k - 1
    BY <1>2, <2>1
  <2>3. k - 1 \in Over
    BY <2>1, <2>2, <1>2
  <2>4. k <= k - 1
    BY <2>3, <1>2, Zenon
  <2> QED
    BY <2>1, <2>4
<1>4. k \in T /\ \A y \in T : k >= y
  BY <1>2, <1>3
<1> QED
  BY <1>4, Zenon DEF Max

\* g folds the first n members of s, with F for the operator.
FoldOf(g, X, F, base, s, n) ==
  /\ g \in [SUBSET (1 .. n) -> X]
  /\ \A T \in SUBSET (1 .. n) :
       g[T] = IF T = {} THEN base ELSE F[<<g[T \ {Max(T)}], s[Max(T)]>>]

\* The function that FoldLeft iterates exists.
LEMMA FoldExists ==
  ASSUME NEW X, NEW E, NEW F \in [X \X E -> X], NEW base \in X, NEW s \in Seq(E)
  PROVE  \E g : FoldOf(g, X, F, base, s, Len(s))
<1> DEFINE IsFold(g, n) ==
             /\ g \in [SUBSET (1 .. n) -> X]
             /\ \A T \in SUBSET (1 .. n) :
                  g[T] = IF T = {} THEN base ELSE F[<<g[T \ {Max(T)}], s[Max(T)]>>]
           Without == {n \in 0 .. Len(s) : ~ \E g : IsFold(g, n)}
<1>1. SUFFICES Without = {}
  <2>1. Len(s) \in 0 .. Len(s)
    OBVIOUS
  <2>2. \E g : IsFold(g, Len(s))
    BY <1>1, <2>1, Zenon
  <2> QED
    BY <2>2, Zenon DEF FoldOf
<1>2. SUFFICES ASSUME Without # {} PROVE FALSE
  OBVIOUS
<1>3. PICK n \in Without : \A y \in Without : n <= y
  <2>1. Without \in SUBSET Nat
    OBVIOUS
  <2> QED
    BY <1>2, <2>1, LeastElement
<1>4. n \in 0 .. Len(s) /\ n \in Nat /\ ~ \E g : IsFold(g, n)
  <2>1. n \in 0 .. Len(s) /\ ~ \E g : IsFold(g, n)
    BY Zenon
  <2>2. n \in Nat
    BY <2>1
  <2> QED
    BY <2>1, <2>2, Zenon
<1>5. n # 0
  <2> DEFINE g == [T \in SUBSET (1 .. 0) |-> base]
  <2>1. 1 .. 0 = {}
    OBVIOUS
  <2>2. g \in [SUBSET (1 .. 0) -> X] /\ \A T \in SUBSET (1 .. 0) : T = {} /\ g[T] = base
    BY <2>1
  <2>3. IsFold(g, 0)
    BY <2>2
  <2> QED
    BY <2>3, <1>4
<1>6. PICK g : IsFold(g, n - 1)
  <2>1. n - 1 \in 0 .. Len(s) /\ n - 1 < n
    BY <1>4, <1>5
  <2>2. ~(n <= n - 1)
    BY <1>4
  <2>3. n - 1 \notin Without
    BY <2>2, <1>3, Zenon
  <2> QED
    BY <2>1, <2>3, Zenon
<1> DEFINE h == [T \in SUBSET (1 .. n) |->
                   IF n \in T THEN F[<<g[T \ {n}], s[n]>>] ELSE g[T]]
<1>7. n \in Nat \ {0} /\ s[n] \in E
  BY <1>4, <1>5, Len(s) \in Nat
<1>8. \A T \in SUBSET (1 .. n) : n \in T => Max(T) = n /\ T \ {n} \in SUBSET (1 .. n - 1)
  BY <1>7, LargestIndex
<1>9. \A T \in SUBSET (1 .. n) : n \notin T => T \in SUBSET (1 .. n - 1)
  BY <1>7
<1>10. \A T \in SUBSET (1 .. n - 1) : T \in SUBSET (1 .. n) /\ n \notin T /\ h[T] = g[T]
  BY <1>7
<1>11. h \in [SUBSET (1 .. n) -> X]
  <2>1. \A T \in SUBSET (1 .. n) : (IF n \in T THEN F[<<g[T \ {n}], s[n]>>] ELSE g[T]) \in X
    BY <1>6, <1>7, <1>8, <1>9
  <2> QED
    BY <2>1
<1>12. ASSUME NEW T \in SUBSET (1 .. n)
       PROVE  h[T] = IF T = {} THEN base ELSE F[<<h[T \ {Max(T)}], s[Max(T)]>>]
  <2>1. CASE n \in T
    BY <2>1, <1>8, <1>10
  <2>2. CASE n \notin T
    <3>1. T \in SUBSET (1 .. n - 1) /\ h[T] = g[T]
      BY <2>2, <1>9, <1>10
    <3>2. T \ {Max(T)} \in SUBSET (1 .. n - 1)
      BY <3>1
    <3>3. h[T \ {Max(T)}] = g[T \ {Max(T)}]
      BY <3>2, <1>10
    <3> QED
      BY <3>1, <3>3, <1>6
  <2> QED
    BY <2>1, <2>2
<1>13. IsFold(h, n)
  BY <1>11, <1>12, Zenon
<1>14. \E x : IsFold(x, n)
  BY <1>13, Zenon
<1> QED
  BY <1>14, <1>4, Zenon

\* Two folds that make the same of the same prefix agree on every prefix.
SameSteps(g, h, n) ==
  /\ g[{}] = h[{}]
  /\ \A k \in 1 .. n : g[1 .. k - 1] = h[1 .. k - 1] => g[1 .. k] = h[1 .. k]

\* Functions that take the same steps end alike.
LEMMA FoldsAgree ==
  ASSUME NEW g, NEW h, NEW n \in Nat, SameSteps(g, h, n)
  PROVE  g[1 .. n] = h[1 .. n]
<1> DEFINE Apart == {k \in 0 .. n : g[1 .. k] # h[1 .. k]}
<1>1. SUFFICES Apart = {}
  BY <1>1
<1>2. SUFFICES ASSUME Apart # {} PROVE FALSE
  OBVIOUS
<1>3. PICK k \in Apart : \A y \in Apart : k <= y
  <2>1. Apart \in SUBSET Nat
    OBVIOUS
  <2> QED
    BY <1>2, <2>1, LeastElement
<1>4. k # 0
  <2>1. 1 .. 0 = {}
    OBVIOUS
  <2> QED
    BY <2>1 DEF SameSteps
<1>5. k \in 1 .. n /\ k - 1 \in 0 .. n /\ k - 1 \notin Apart
  BY <1>3, <1>4
<1>6. g[1 .. k - 1] = h[1 .. k - 1]
  BY <1>5
<1> QED
  BY <1>5, <1>6 DEF SameSteps

\* A set as a sequence.
LEMMA SetToSeqIs ==
  ASSUME NEW S, IsFiniteSet(S)
  PROVE  SetToSeq(S) \in Seq(S) /\ Range(SetToSeq(S)) = S /\ Distinct(SetToSeq(S))
<1> DEFINE n == Cardinality(S)
           q == SetToSeq(S)
<1>1. n \in Nat /\ ExistsBijection(1 .. n, S)
  BY FS_CardinalityType
<1>2. PICK f \in Bijection(1 .. n, S) : TRUE
  BY <1>1 DEF ExistsBijection
<1>3. f \in [1 .. n -> S] /\ IsInjective(f)
  BY <1>2 DEF Bijection, Injection, IsInjective
<1>4. q \in [1 .. n -> S] /\ IsInjective(q)
  BY <1>3, Zenon DEF SetToSeq
<1> HIDE DEF q
<1>5. q \in Injection(1 .. n, S)
  BY <1>4 DEF Injection, IsInjective
<1>6. IsFiniteSet(1 .. n) /\ Cardinality(1 .. n) = n
  BY <1>1, FS_Interval
<1>7. q \in Surjection(1 .. n, S)
  BY <1>5, <1>6, FS_Injection
<1>8. Range(q) = S
  BY <1>4, <1>7 DEF Surjection, Range
<1>9. q \in Seq(S)
  BY <1>1, <1>4
<1>10. Distinct(q)
  BY <1>4 DEF IsInjective, Distinct
<1> QED
  BY <1>8, <1>9, <1>10 DEF q

TidyBoards == {b \in PageBoards : Tidy(b)}

\* Cards that move one after another get to their columns.
LEMMA MovedAll ==
  ASSUME NEW b, Tidy(b), NEW cards \in Seq(Tasks), NEW to,
         \A t \in Range(cards) : to[t] \in Columns
  PROVE  /\ Tidy(MoveAll(b, cards, to))
         /\ \A u \in Tasks :
              ColumnOf(MoveAll(b, cards, to), u) =
                IF u \in Range(cards) /\ ColumnOf(b, u) # "none" THEN to[u] ELSE ColumnOf(b, u)
<1> DEFINE X == TidyBoards
           E == Range(cards)
           n == Len(cards)
           F == [p \in X \X E |-> MoveTo(p[1], p[2], to[p[2]], TRUE)]
<1>1. n \in Nat /\ DOMAIN cards = 1 .. n /\ E \subseteq Tasks /\ \A i \in 1 .. n : cards[i] \in E
  BY DEF Range
<1>2. b \in X
  BY DEF TidyBoards, Tidy
<1>3. \A x \in X, t \in E : MoveTo(x, t, to[t], TRUE) \in X
  <2> SUFFICES ASSUME NEW x \in X, NEW t \in E PROVE MoveTo(x, t, to[t], TRUE) \in X
    OBVIOUS
  <2>1. Tidy(x) /\ t \in Tasks /\ to[t] \in Columns /\ TRUE \in BOOLEAN
    BY <1>1 DEF TidyBoards
  <2>2. Tidy(MoveTo(x, t, to[t], TRUE))
    BY <2>1, Moved
  <2> QED
    BY <2>2 DEF TidyBoards, Tidy
<1> HIDE DEF X, E
<1>4. F \in [X \X E -> X]
  <2> SUFFICES ASSUME NEW p \in X \X E PROVE MoveTo(p[1], p[2], to[p[2]], TRUE) \in X
    OBVIOUS
  <2>1. p[1] \in X /\ p[2] \in E
    OBVIOUS
  <2> QED
    BY <1>3, <2>1
<1>5. cards \in Seq(E)
  BY <1>1
<1>6. PICK f : FoldOf(f, X, F, b, cards, n)
  <2> HIDE DEF F
  <2> QED
    BY <1>2, <1>4, <1>5, FoldExists, Zenon
<1>7. /\ f \in [SUBSET (1 .. n) -> X]
      /\ \A T \in SUBSET (1 .. n) :
           f[T] = IF T = {} THEN b ELSE F[<<f[T \ {Max(T)}], cards[Max(T)]>>]
  BY <1>6, Zenon DEF FoldOf
<1>8. \A T \in SUBSET (1 .. n) : T # {} => Max(T) \in T
  BY <1>1, LargestMember
<1>9. \A T \in SUBSET (1 .. n) :
        f[T] = IF T = {} THEN b
               ELSE MoveTo(f[T \ {Max(T)}], cards[Max(T)], to[cards[Max(T)]], TRUE)
  <2> SUFFICES ASSUME NEW T \in SUBSET (1 .. n), T # {}
               PROVE  f[T] = MoveTo(f[T \ {Max(T)}], cards[Max(T)], to[cards[Max(T)]], TRUE)
    BY <1>7
  <2>1. f[T] = F[<<f[T \ {Max(T)}], cards[Max(T)]>>]
    BY <1>7
  <2>2. f[T \ {Max(T)}] \in X /\ cards[Max(T)] \in E
    BY <1>1, <1>7, <1>8
  <2> QED
    BY <2>1, <2>2
<1> HIDE DEF F
<1> DEFINE G == CHOOSE g : g = [T \in SUBSET DOMAIN cards |->
                  IF T = {} THEN b
                  ELSE MoveTo(g[T \ {Max(T)}], cards[Max(T)], to[cards[Max(T)]], TRUE)]
<1>10. MoveAll(b, cards, to) = G[DOMAIN cards]
  BY Zenon DEF MoveAll, FoldLeft, MapThenFoldSet
<1>11. f = [T \in SUBSET DOMAIN cards |->
              IF T = {} THEN b
              ELSE MoveTo(f[T \ {Max(T)}], cards[Max(T)], to[cards[Max(T)]], TRUE)]
  BY <1>1, <1>7, <1>9
<1>12. G = [T \in SUBSET DOMAIN cards |->
              IF T = {} THEN b
              ELSE MoveTo(G[T \ {Max(T)}], cards[Max(T)], to[cards[Max(T)]], TRUE)]
  BY <1>11, Zenon
<1> HIDE DEF G
<1>13. \A T \in SUBSET (1 .. n) :
         G[T] = IF T = {} THEN b
                ELSE MoveTo(G[T \ {Max(T)}], cards[Max(T)], to[cards[Max(T)]], TRUE)
  BY <1>1, <1>12
<1>14. ASSUME NEW k \in 1 .. n
       PROVE  Max(1 .. k) = k /\ (1 .. k) \ {k} = 1 .. k - 1 /\ 1 .. k # {}
              /\ 1 .. k \in SUBSET (1 .. n)
  <2>1. 1 .. k \in SUBSET (1 .. k) /\ k \in 1 .. k /\ k \in Nat \ {0}
    BY <1>1
  <2>2. Max(1 .. k) = k
    BY <2>1, LargestIndex
  <2>3. (1 .. k) \ {k} = 1 .. k - 1 /\ 1 .. k # {}
    <3>1. k \in Int /\ k >= 1
      BY <2>1
    <3> HIDE DEF n
    <3> QED
      BY <3>1
  <2>4. 1 .. k \in SUBSET (1 .. n)
    BY <1>1
  <2> QED
    BY <2>2, <2>3, <2>4
<1>15. ASSUME NEW k \in 1 .. n
       PROVE  f[1 .. k] = MoveTo(f[1 .. k - 1], cards[k], to[cards[k]], TRUE)
  <2>1. Max(1 .. k) = k /\ (1 .. k) \ {k} = 1 .. k - 1 /\ 1 .. k # {}
        /\ 1 .. k \in SUBSET (1 .. n)
    BY <1>14
  <2>2. f[1 .. k] = MoveTo(f[(1 .. k) \ {Max(1 .. k)}], cards[Max(1 .. k)], to[cards[Max(1 .. k)]], TRUE)
    BY <2>1, <1>9, Zenon
  <2> QED
    BY <2>1, <2>2
<1>16. f[1 .. n] = G[1 .. n]
  <2>1. f[{}] = G[{}]
    BY <1>9, <1>13
  <2>2. ASSUME NEW k \in 1 .. n, f[1 .. k - 1] = G[1 .. k - 1] PROVE f[1 .. k] = G[1 .. k]
    <3>1. Max(1 .. k) = k /\ (1 .. k) \ {k} = 1 .. k - 1 /\ 1 .. k # {}
          /\ 1 .. k \in SUBSET (1 .. n)
      BY <1>14
    <3>2. G[1 .. k] = MoveTo(G[(1 .. k) \ {Max(1 .. k)}], cards[Max(1 .. k)], to[cards[Max(1 .. k)]], TRUE)
      BY <3>1, <1>13, Zenon
    <3> QED
      BY <3>1, <3>2, <2>2, <1>15
  <2>3. SameSteps(f, G, n)
    BY <2>1, <2>2 DEF SameSteps
  <2> QED
    BY <2>3, <1>1, FoldsAgree, Zenon
<1> DEFINE Done(k) ==
             \A u \in Tasks :
               ColumnOf(f[1 .. k], u) =
                 IF (\E i \in 1 .. k : cards[i] = u) /\ ColumnOf(b, u) # "none"
                 THEN to[u] ELSE ColumnOf(b, u)
           Undone == {k \in 0 .. n : ~Done(k)}
<1>17. \A k \in 0 .. n : Tidy(f[1 .. k])
  <2> SUFFICES ASSUME NEW k \in 0 .. n PROVE Tidy(f[1 .. k])
    OBVIOUS
  <2>1. 1 .. k \in SUBSET (1 .. n)
    BY <1>1
  <2>2. f[1 .. k] \in X
    BY <2>1, <1>7
  <2> QED
    BY <2>2 DEF X, TidyBoards
<1>18. Done(n)
  <2> SUFFICES ASSUME Undone # {} PROVE FALSE
    BY <1>1
  <2>1. PICK k \in Undone : \A y \in Undone : k <= y
    <3>1. Undone \in SUBSET Nat
      OBVIOUS
    <3> HIDE DEF Undone
    <3> QED
      BY <3>1, LeastElement
  <2>2. k \in 0 .. n /\ ~Done(k)
    BY <2>1, Zenon
  <2>3. k # 0
    <3> SUFFICES Done(0)
      BY <2>2
    <3>1. 1 .. 0 = {} /\ {} \in SUBSET (1 .. n)
      OBVIOUS
    <3>2. f[1 .. 0] = b
      BY <3>1, <1>9, Zenon
    <3>3. ~ \E i \in 1 .. 0 : TRUE
      BY <3>1
    <3> QED
      BY <3>2, <3>3
  <2>4. k \in 1 .. n /\ k - 1 \in 0 .. n /\ ~(k <= k - 1)
    BY <2>2, <2>3
  <2>5. Done(k - 1)
    <3>1. k - 1 \notin Undone
      BY <2>1, <2>4, Zenon
    <3> QED
      BY <2>4, <3>1, Zenon
  <2>6. f[1 .. k] = MoveTo(f[1 .. k - 1], cards[k], to[cards[k]], TRUE)
    BY <2>4, <1>15
  <2> DEFINE x == f[1 .. k - 1]
             t == cards[k]
  <2>7. Tidy(x) /\ t \in Tasks /\ to[t] \in Columns /\ TRUE \in BOOLEAN
    BY <2>4, <1>1, <1>17 DEF E
  <2>8. /\ ColumnOf(f[1 .. k], t) = IF ColumnOf(x, t) = "none" THEN "none" ELSE to[t]
        /\ \A u \in Tasks \ {t} : ColumnOf(f[1 .. k], u) = ColumnOf(x, u)
    <3> DEFINE c == to[t]
    <3>1. f[1 .. k] = MoveTo(x, t, c, TRUE)
      BY <2>6
    <3> HIDE DEF x, t
    <3>2. c \in Columns
      BY <2>7
    <3> HIDE DEF c
    <3>3. /\ ColumnOf(MoveTo(x, t, c, TRUE), t) = IF ColumnOf(x, t) = "none" THEN "none" ELSE c
          /\ \A u \in Tasks \ {t} : ColumnOf(MoveTo(x, t, c, TRUE), u) = ColumnOf(x, u)
      BY <2>7, <3>2, Moved
    <3> QED
      BY <3>1, <3>3 DEF c
  <2>9. "none" \notin Columns /\ \A i \in 1 .. n : to[cards[i]] \in Columns
    BY <1>1 DEF Columns, E
  <2>10. Done(k)
    <3> SUFFICES ASSUME NEW u \in Tasks
                 PROVE  ColumnOf(f[1 .. k], u) =
                          IF (\E i \in 1 .. k : cards[i] = u) /\ ColumnOf(b, u) # "none"
                          THEN to[u] ELSE ColumnOf(b, u)
      OBVIOUS
    <3>1. (\E i \in 1 .. k : cards[i] = u) <=> (\E i \in 1 .. k - 1 : cards[i] = u) \/ u = t
      BY <2>4
    <3>2. ColumnOf(x, u) = IF (\E i \in 1 .. k - 1 : cards[i] = u) /\ ColumnOf(b, u) # "none"
                           THEN to[u] ELSE ColumnOf(b, u)
      BY <2>5
    <3>3. CASE u = t
      <4>1. to[u] # "none"
        BY <3>3, <2>4, <2>9
      <4>2. ColumnOf(x, u) = "none" <=> ColumnOf(b, u) = "none"
        BY <3>2, <4>1
      <4>3. ColumnOf(f[1 .. k], u) = IF ColumnOf(x, u) = "none" THEN "none" ELSE to[u]
        BY <3>3, <2>8
      <4> QED
        BY <3>1, <3>3, <4>2, <4>3
    <3>4. CASE u # t
      <4>1. ColumnOf(f[1 .. k], u) = ColumnOf(x, u)
        BY <3>4, <2>8
      <4> QED
        BY <3>1, <3>2, <3>4, <4>1
    <3> QED
      BY <3>3, <3>4
  <2> QED
    BY <2>2, <2>10
<1>19. Tidy(f[1 .. n])
  BY <1>1, <1>17
<1>20. \A u : u \in Range(cards) <=> \E i \in 1 .. n : cards[i] = u
  BY <1>1 DEF Range
<1>21. MoveAll(b, cards, to) = f[1 .. n]
  BY <1>1, <1>10, <1>16
<1> QED
  BY <1>18, <1>19, <1>20, <1>21

(***************************************************************************)
(* The flows under way.                                                    *)
(***************************************************************************)
FlowRecords ==
  [kind : {"start", "restore", "done", "commit"}, task : Tasks,
   at : {"asking", "animating", "ensuring", "starting", "answering", "linking", "cleaning",
         "lapsing"},
   route : {"plain", "animated", "covered"}, ready : SUBSET Tasks, by : Tasks \cup {None},
   auto : BOOLEAN]

FlowTyped(f) ==
  /\ f \in FlowRecords
  /\ f.at \in Underway => f.kind \in {"start", "restore"}
  /\ f.at = "linking" => f.kind = "done"
  /\ f.at = "asking" => f.route = "plain"

Copies(fs, f) == IF f \in BagToSet(fs) THEN fs[f] ELSE 0
One(f, g) == IF f = g THEN 1 ELSE 0

FlowBag(fs) ==
  /\ IsFiniteSet(BagToSet(fs))
  /\ \A f \in BagToSet(fs) : FlowTyped(f) /\ fs[f] \in Nat \ {0}

\* A flow is under way when the bag has a copy of it.
LEMMA CopiesAre ==
  ASSUME NEW fs, FlowBag(fs)
  PROVE  \A f : Copies(fs, f) \in Nat /\ (f \in BagToSet(fs) <=> Copies(fs, f) > 0)
BY DEF FlowBag, Copies

\* A flow begins.
LEMMA Added ==
  ASSUME NEW fs, FlowBag(fs), NEW f, FlowTyped(f)
  PROVE  /\ FlowBag(BagAdd(fs, f))
         /\ \A g : Copies(BagAdd(fs, f), g) = Copies(fs, g) + One(g, f)
<1> DEFINE gs == BagAdd(fs, f)
<1>1. \A g \in DOMAIN fs : FlowTyped(g) /\ fs[g] \in Nat \ {0}
  BY DEF FlowBag, BagToSet
<1>2. DOMAIN gs = DOMAIN fs \cup {f}
  BY DEF BagAdd
<1>3. \A g \in DOMAIN gs : gs[g] = (IF g \in DOMAIN fs THEN fs[g] ELSE 0) + One(g, f)
  BY <1>1, <1>2 DEF BagAdd, One
<1>4. IsFiniteSet(DOMAIN fs \cup {f})
  BY FS_AddElement DEF FlowBag, BagToSet
<1> HIDE DEF gs
<1>5. FlowBag(gs)
  BY <1>1, <1>2, <1>3, <1>4 DEF FlowBag, BagToSet, One
<1>6. \A g : Copies(gs, g) = Copies(fs, g) + One(g, f)
  BY <1>1, <1>2, <1>3 DEF Copies, BagToSet, One
<1> QED
  BY <1>5, <1>6 DEF gs

\* A flow ends.
LEMMA Removed ==
  ASSUME NEW fs, FlowBag(fs), NEW f \in BagToSet(fs)
  PROVE  /\ FlowBag(BagRemove(fs, f))
         /\ \A g : Copies(BagRemove(fs, f), g) = Copies(fs, g) - One(g, f)
<1> DEFINE gs == BagRemove(fs, f)
<1>1. f \in DOMAIN fs /\ \A g \in DOMAIN fs : FlowTyped(g) /\ fs[g] \in Nat \ {0}
  BY DEF FlowBag, BagToSet
<1>2. DOMAIN gs = IF fs[f] = 1 THEN DOMAIN fs \ {f} ELSE DOMAIN fs
  BY <1>1 DEF BagRemove
<1>3. \A g \in DOMAIN gs : gs[g] = fs[g] - One(g, f)
  BY <1>1, <1>2 DEF BagRemove, One
<1>4. IsFiniteSet(DOMAIN gs)
  BY <1>2, FS_RemoveElement DEF FlowBag, BagToSet
<1> HIDE DEF gs
<1>5. FlowBag(gs)
  <2>1. \A g \in DOMAIN gs : gs[g] \in Nat \ {0}
    BY <1>1, <1>2, <1>3 DEF One
  <2>2. DOMAIN gs \subseteq DOMAIN fs
    BY <1>2
  <2> QED
    BY <1>1, <1>4, <2>1, <2>2 DEF FlowBag, BagToSet
<1>6. ASSUME NEW g PROVE Copies(gs, g) = Copies(fs, g) - One(g, f)
  <2>1. CASE g = f
    BY <2>1, <1>1, <1>2, <1>3 DEF Copies, BagToSet, One
  <2>2. CASE g # f
    BY <2>2, <1>1, <1>2, <1>3 DEF Copies, BagToSet, One
  <2> QED
    BY <2>1, <2>2
<1> QED
  BY <1>5, <1>6 DEF gs

\* Flows begin together.
LEMMA AddedAll ==
  ASSUME NEW fs, FlowBag(fs), NEW S, IsFiniteSet(S), \A f \in S : FlowTyped(f)
  PROVE  /\ FlowBag(fs (+) SetToBag(S))
         /\ \A g : Copies(fs (+) SetToBag(S), g) = Copies(fs, g) + IF g \in S THEN 1 ELSE 0
<1> DEFINE gs == fs (+) SetToBag(S)
<1>1. \A g \in DOMAIN fs : FlowTyped(g) /\ fs[g] \in Nat \ {0}
  BY DEF FlowBag, BagToSet
<1>2. DOMAIN SetToBag(S) = S /\ \A g \in S : SetToBag(S)[g] = 1
  BY DEF SetToBag
<1>3. DOMAIN gs = DOMAIN fs \cup S
  BY <1>2 DEF (+)
<1>4. \A g \in DOMAIN gs : gs[g] = (IF g \in DOMAIN fs THEN fs[g] ELSE 0) + IF g \in S THEN 1 ELSE 0
  BY <1>2, <1>3 DEF (+)
<1>5. IsFiniteSet(DOMAIN fs \cup S)
  BY FS_Union DEF FlowBag, BagToSet
<1> HIDE DEF gs
<1>6. FlowBag(gs)
  <2>1. \A g \in DOMAIN gs : gs[g] \in Nat \ {0}
    BY <1>1, <1>3, <1>4
  <2> QED
    BY <1>1, <1>3, <1>5, <2>1 DEF FlowBag, BagToSet
<1>7. \A g : Copies(gs, g) = Copies(fs, g) + IF g \in S THEN 1 ELSE 0
  BY <1>1, <1>3, <1>4 DEF Copies, BagToSet
<1> QED
  BY <1>6, <1>7 DEF gs

\* A flow goes on.
LEMMA Replacing ==
  ASSUME NEW fs, FlowBag(fs), NEW f \in BagToSet(fs), NEW g, FlowTyped(g)
  PROVE  /\ FlowBag(BagAdd(BagRemove(fs, f), g))
         /\ \A h : Copies(BagAdd(BagRemove(fs, f), g), h) = Copies(fs, h) - One(h, f) + One(h, g)
<1>1. FlowBag(BagRemove(fs, f)) /\ \A h : Copies(BagRemove(fs, f), h) = Copies(fs, h) - One(h, f)
  BY Removed
<1>2. /\ FlowBag(BagAdd(BagRemove(fs, f), g))
      /\ \A h : Copies(BagAdd(BagRemove(fs, f), g), h) = Copies(BagRemove(fs, f), h) + One(h, g)
  BY <1>1, Added
<1> QED
  BY <1>1, <1>2

\* Steps of flows keep their task.
LEMMA SetAt ==
  ASSUME NEW f \in FlowRecords, NEW at,
         at \in {"asking", "animating", "ensuring", "starting", "answering", "linking",
                 "cleaning", "lapsing"}
  PROVE  /\ [f EXCEPT !.at = at] \in FlowRecords
         /\ [f EXCEPT !.at = at].at = at
         /\ [f EXCEPT !.at = at].kind = f.kind
         /\ [f EXCEPT !.at = at].task = f.task
         /\ [f EXCEPT !.at = at].route = f.route
BY DEF FlowRecords

\* What a flow is when it begins.
LEMMA NewFlow ==
  ASSUME NEW kind \in {"start", "restore", "done", "commit"}, NEW t \in Tasks, NEW at,
         at \in {"asking", "animating", "ensuring", "starting", "answering", "linking",
                 "cleaning", "lapsing"}
  PROVE  /\ Flow(kind, t, at) \in FlowRecords
         /\ Flow(kind, t, at).kind = kind /\ Flow(kind, t, at).task = t
         /\ Flow(kind, t, at).at = at /\ Flow(kind, t, at).route = "plain"
BY DEF FlowRecords, Flow

(***************************************************************************)
(* The inductive invariant.                                                *)
(*                                                                         *)
(* That no agent works on a task that is done cannot be proved by itself:  *)
(* a step that moves a card must know of its session.  The invariant says  *)
(* who holds a live one: a card at work, a start that is about to be       *)
(* answered, or a flow that is to stop it.  A start whose card went ahead  *)
(* of its session is alone and has no live session to lose, a card that is *)
(* lifted quietly belongs to a session that has ended, and a live session  *)
(* is shown as interrupted only while a start is to be answered.  All this *)
(* holds of the tasks whose flows did not cross and whose stops and starts *)
(* did not fail.                                                           *)
(***************************************************************************)
States == {"none", "running", "awaiting_review", "exited", "interrupted"}

Clear(t) == t \notin crossed \cup mixed \cup failed
Closing(fs, t) == \E f \in BagToSet(fs) : At(f, "done", "linking") /\ f.task = t
Ahead(f) == f.kind = "restore" \/ f.route # "plain"
Pending(fs, t) == {f \in BagToSet(fs) : f.task = t /\ f.at \in Underway}
Answering(fs, t) == \E f \in Pending(fs, t) : f.at = "answering"

LiveIsHeld(t) ==
  session[t] \in Live =>
    \/ ColumnOf(board, t) \in {"in_progress", "review"}
    \/ Answering(flows, t) \/ Closing(flows, t)

OneStart(t) ==
  \A f \in Pending(flows, t) :
    Ahead(f) => Pending(flows, t) = {f} /\ Copies(flows, f) = 1

AheadIsDown(t) ==
  \A f \in Pending(flows, t) :
    Ahead(f) => /\ ColumnOf(board, t) # "backlog"
                /\ f.at # "answering" => session[t] \notin Live

StartIsShown(t) == Pending(flows, t) # {} => ColumnOf(board, t) \notin {"trash", "none"}

QuietIsDown(t) ==
  drag # None /\ drag.task = t /\ drag.quiet => session[t] \notin Live /\ Pending(flows, t) = {}

Own(t) ==
  Clear(t) => LiveIsHeld(t) /\ OneStart(t) /\ AheadIsDown(t) /\ StartIsShown(t) /\ QuietIsDown(t)

ToldOf(t) ==
  Clear(t) => (shown[t] = "interrupted" /\ session[t] \in Live => Answering(flows, t))

DragTyped ==
  drag # None =>
    /\ drag.task \in Tasks /\ drag.from \in Columns /\ drag.index \in Nat \ {0}
    /\ drag.quiet => drag.to = "trash"
    /\ drag.auto => drag.to \in {"in_progress", "review", "trash"}

SessionsTyped == session \in [Tasks -> States] /\ shown \in [Tasks -> States]

FlowsInv ==
  /\ Tidy(board) /\ SessionsTyped /\ FlowBag(flows) /\ DragTyped
  /\ \A t \in Tasks : Own(t) /\ ToldOf(t)

\* What a step leaves to a task it is not about.
Calm(t) ==
  /\ ColumnOf(board', t) = ColumnOf(board, t)
  /\ session'[t] \in Live => session[t] \in Live /\ (Closing(flows, t) => Closing(flows', t))
  /\ Pending(flows', t) = Pending(flows, t)
  /\ \A f \in Pending(flows, t) : Copies(flows', f) = Copies(flows, f)
  /\ drag' # drag => ~(drag' # None /\ drag'.task = t /\ drag'.quiet)
  /\ shown'[t] = "interrupted" /\ session'[t] \in Live => shown[t] = "interrupted"
  /\ Clear(t)' => Clear(t)

\* A task that a step leaves alone keeps what held of it.
LEMMA CalmKeeps ==
  ASSUME NEW t, Own(t), ToldOf(t), Calm(t)
  PROVE  Own(t)' /\ ToldOf(t)'
<1>1. Answering(flows, t) => Answering(flows', t)
  BY DEF Calm, Answering
<1>2. ToldOf(t)'
  BY <1>1 DEF Calm, ToldOf
<1>3. ASSUME Clear(t)' PROVE LiveIsHeld(t)'
  BY <1>1, <1>3 DEF Calm, Own, LiveIsHeld
<1>4. ASSUME Clear(t)' PROVE OneStart(t)'
  BY <1>4 DEF Calm, Own, OneStart
<1>5. ASSUME Clear(t)' PROVE AheadIsDown(t)'
  BY <1>5 DEF Calm, Own, AheadIsDown
<1>6. ASSUME Clear(t)' PROVE StartIsShown(t)'
  BY <1>6 DEF Calm, Own, StartIsShown
<1>7. ASSUME Clear(t)' PROVE QuietIsDown(t)'
  BY <1>7 DEF Calm, Own, QuietIsDown
<1> QED
  BY <1>2, <1>3, <1>4, <1>5, <1>6, <1>7 DEF Own

\* Only flows of S begin, go on or end.
Only(S) == \A f : f \notin S => Copies(flows', f) = Copies(flows, f)

\* The flows of a task that no step of a start touches.
LEMMA FlowsCalm ==
  ASSUME FlowBag(flows), FlowBag(flows'), NEW S, Only(S), NEW t,
         \A f \in S : f.task = t => f.at \notin Underway
  PROVE  /\ Pending(flows', t) = Pending(flows, t)
         /\ \A f \in Pending(flows, t) : Copies(flows', f) = Copies(flows, f)
         /\ (\A f \in S : f.task = t => f.at # "linking")
              => (Closing(flows, t) => Closing(flows', t))
<1>1. \A f : f \in BagToSet(flows) <=> Copies(flows, f) > 0
  BY CopiesAre
<1>2. \A f : f \in BagToSet(flows') <=> Copies(flows', f) > 0
  BY CopiesAre
<1>3. \A f : f \notin S => (f \in BagToSet(flows') <=> f \in BagToSet(flows))
  BY <1>1, <1>2 DEF Only
<1>4. Pending(flows', t) = Pending(flows, t)
  BY <1>3 DEF Pending
<1>5. \A f \in Pending(flows, t) : Copies(flows', f) = Copies(flows, f)
  BY DEF Pending, Only
<1>6. ASSUME \A f \in S : f.task = t => f.at # "linking", Closing(flows, t)
      PROVE  Closing(flows', t)
  BY <1>3, <1>6 DEF Closing, At
<1> QED
  BY <1>4, <1>5, <1>6

\* What is noted of starts.
Noted ==
  crossed' = crossed \cup
    {t \in Tasks : /\ Starting(flows', t)
                   /\ \/ ColumnOf(board', t) \in {"trash", "none"}
                      \/ drag' # None /\ drag'.task = t /\ drag'.to = "trash"
                      \/ Cardinality({f \in BagToSet(flows') : f.task = t}) > 1}

\* What is remembered of a step: a task that was crossed or mixed up stays so.
LEMMA Noting ==
  ASSUME NEW new, NEW lost, NEW strays, Remember(new, lost, strays)
  PROVE  Noted /\ mixed' = mixed \cup strays /\ \A t : Clear(t)' => Clear(t)
BY DEF Remember, RememberAll, Noted, Clear

\* A failure that is noted as well.
LEMMA NotingAll ==
  ASSUME NEW new, NEW lost, NEW strays, NEW fails, RememberAll(new, lost, strays, fails)
  PROVE  /\ Noted /\ \A t : Clear(t)' => Clear(t)
         /\ \A t \in fails : ~Clear(t)'
BY DEF RememberAll, Noted, Clear

\* A start that is not noted is alone, and its card is neither done nor on its
\* way there.
LEMMA Alone ==
  ASSUME FlowBag(flows'), Noted, NEW t \in Tasks, Clear(t)', NEW f \in Pending(flows', t)
  PROVE  /\ ColumnOf(board', t) \notin {"trash", "none"}
         /\ ~(drag' # None /\ drag'.task = t /\ drag'.to = "trash")
         /\ \A g \in BagToSet(flows') : g.task = t => g = f
<1> DEFINE S == {g \in BagToSet(flows') : g.task = t}
<1>1. f \in BagToSet(flows') /\ f.task = t /\ f.at \in Underway
  BY DEF Pending
<1>2. FlowTyped(f)
  BY <1>1 DEF FlowBag
<1>3. Starting(flows', t)
  BY <1>1, <1>2 DEF FlowTyped, Starting
<1>4. t \notin crossed'
  BY DEF Clear
<1>5. /\ ColumnOf(board', t) \notin {"trash", "none"}
      /\ ~(drag' # None /\ drag'.task = t /\ drag'.to = "trash")
      /\ ~(Cardinality(S) > 1)
  BY <1>3, <1>4 DEF Noted
<1>6. IsFiniteSet(S)
  <2>1. S \in SUBSET BagToSet(flows') /\ IsFiniteSet(BagToSet(flows'))
    BY DEF FlowBag
  <2> HIDE DEF S
  <2> QED
    BY <2>1, FS_Subset
<1>7. ASSUME NEW g \in S, g # f PROVE FALSE
  <2>1. IsFiniteSet({f}) /\ Cardinality({f}) = 1
    BY FS_Singleton
  <2>2. IsFiniteSet({f} \cup {g}) /\ Cardinality({f} \cup {g}) = 2
    BY <2>1, <1>7, FS_AddElement
  <2>3. {f} \cup {g} \in SUBSET S
    BY <1>1
  <2> HIDE DEF S
  <2>4. Cardinality({f} \cup {g}) <= Cardinality(S)
    BY <2>3, <1>6, FS_Subset
  <2>5. Cardinality(S) \in Nat
    BY <1>6, FS_CardinalityType
  <2> QED
    BY <2>2, <2>4, <2>5, <1>5
<1> QED
  BY <1>5, <1>7

(***************************************************************************)
(* Steps that start nothing, finish nothing and move no card to another    *)
(* column.                                                                 *)
(***************************************************************************)
\* A step keeps the invariant when every task is left alone, or has what it needs anew.
LEMMA CalmStep ==
  ASSUME FlowsInv, Tidy(board'), SessionsTyped', FlowBag(flows'), DragTyped',
         \A t \in Tasks : Calm(t) \/ (Own(t)' /\ ToldOf(t)')
  PROVE  FlowsInv'
<1>1. \A t \in Tasks : Own(t)' /\ ToldOf(t)'
  BY CalmKeeps DEF FlowsInv
<1> QED
  BY <1>1 DEF FlowsInv

\* A step that moves no card and no session, and touches no start and no closing flow.
LEMMA SteadyStep ==
  ASSUME FlowsInv, Tidy(board'), \A t \in Tasks : ColumnOf(board', t) = ColumnOf(board, t),
         session' = session, shown' = shown,
         DragTyped', drag' # drag => drag' = None \/ ~drag'.quiet,
         FlowBag(flows'), NEW S, Only(S),
         \A f \in S : f.at \notin Underway /\ f.at # "linking",
         \A t : Clear(t)' => Clear(t)
  PROVE  FlowsInv'
<1>1. SessionsTyped'
  BY DEF FlowsInv, SessionsTyped
<1>2. ASSUME NEW t \in Tasks PROVE Calm(t)
  <2>1. /\ Pending(flows', t) = Pending(flows, t)
        /\ \A f \in Pending(flows, t) : Copies(flows', f) = Copies(flows, f)
        /\ Closing(flows, t) => Closing(flows', t)
    BY FlowsCalm DEF FlowsInv
  <2> QED
    BY <2>1 DEF Calm
<1> QED
  BY <1>1, <1>2, CalmStep

\* A flow that begins is the only one the bag changes by.
LEMMA BeginsOnly ==
  ASSUME FlowBag(flows), NEW f, FlowTyped(f), Begins(f)
  PROVE  /\ FlowBag(flows') /\ Only({f})
         /\ \A h : Copies(flows', h) = Copies(flows, h) + One(h, f)
<1>1. flows' = BagAdd(flows, f)
  BY DEF Begins
<1>2. FlowBag(flows') /\ \A h : Copies(flows', h) = Copies(flows, h) + One(h, f)
  BY <1>1, Added
<1>3. \A h : Copies(flows, h) \in Nat
  BY CopiesAre
<1> QED
  BY <1>2, <1>3 DEF Only, One

\* A flow that ends is the only one the bag changes by.
LEMMA EndsOnly ==
  ASSUME FlowBag(flows), NEW f \in BagToSet(flows), Ends(f)
  PROVE  /\ FlowBag(flows') /\ Only({f})
         /\ \A h : Copies(flows', h) = Copies(flows, h) - One(h, f)
<1>1. flows' = BagRemove(flows, f)
  BY DEF Ends
<1>2. FlowBag(flows') /\ \A h : Copies(flows', h) = Copies(flows, h) - One(h, f)
  BY <1>1, Removed
<1>3. \A h : Copies(flows, h) \in Nat
  BY CopiesAre
<1> QED
  BY <1>2, <1>3 DEF Only, One

\* A flow that goes on changes the bag by what it was and what it becomes.
LEMMA GoesOnly ==
  ASSUME FlowBag(flows), NEW f \in BagToSet(flows), NEW g, FlowTyped(g), Goes(f, g)
  PROVE  /\ FlowBag(flows') /\ Only({f, g})
         /\ \A h : Copies(flows', h) = Copies(flows, h) - One(h, f) + One(h, g)
<1>1. flows' = BagAdd(BagRemove(flows, f), g)
  BY DEF Goes
<1>2. FlowBag(flows') /\ \A h : Copies(flows', h) = Copies(flows, h) - One(h, f) + One(h, g)
  BY <1>1, Replacing
<1>3. \A h : Copies(flows, h) \in Nat
  BY CopiesAre
<1> QED
  BY <1>2, <1>3 DEF Only, One

\* A step without a flow leaves the bag.
LEMMA FlowsStay ==
  ASSUME FlowBag(flows), flows' = flows
  PROVE  FlowBag(flows') /\ Only({})
BY DEF Only

\* A flow that steps to where it neither starts nor closes a task keeps its task.
LEMMA StepsOnly ==
  ASSUME FlowBag(flows), NEW f \in BagToSet(flows), NEW at \in {"animating", "cleaning", "lapsing"},
         Steps(f, at)
  PROVE  /\ FlowBag(flows') /\ Only({f, [f EXCEPT !.at = at]})
         /\ [f EXCEPT !.at = at].at = at /\ [f EXCEPT !.at = at].task = f.task
<1> DEFINE g == [f EXCEPT !.at = at]
<1>1. f \in FlowRecords
  BY DEF FlowBag, FlowTyped
<1>2. g \in FlowRecords /\ g.at = at /\ g.task = f.task
  BY <1>1, SetAt
<1>3. Goes(f, g)
  BY DEF Steps
<1> HIDE DEF g
<1>4. FlowTyped(g)
  BY <1>2 DEF FlowTyped, Underway
<1>5. FlowBag(flows') /\ Only({f, g})
  BY <1>3, <1>4, GoesOnly
<1> QED
  BY <1>2, <1>5 DEF g

\* A card is lifted.
LEMMA LiftedIs ==
  ASSUME FlowsInv, NEW t \in Tasks, ColumnOf(board, t) # "none",
         NEW to, NEW own \in BOOLEAN, NEW quiet \in BOOLEAN,
         drag' = Lifted(t, to, own, quiet),
         own => to \in {"in_progress", "review", "trash"}, quiet => to = "trash"
  PROVE  /\ DragTyped'
         /\ drag'.task = t /\ drag'.quiet = quiet /\ drag'.to = to
<1>1. Tidy(board)
  BY DEF FlowsInv
<1>2. ColumnOf(board, t) \in Columns
  BY <1>1, ColumnIs
<1>3. Index(board, t) \in Nat \ {0}
  <2>1. Index(board, t) \in 1 .. Len(board.columns[ColumnOf(board, t)])
    BY <1>1, IndexIs
  <2> QED
    BY <2>1
<1>4. /\ drag'.task = t /\ drag'.from = ColumnOf(board, t) /\ drag'.index = Index(board, t)
      /\ drag'.to = to /\ drag'.auto = own /\ drag'.quiet = quiet
  BY DEF Lifted
<1> QED
  BY <1>2, <1>3, <1>4 DEF DragTyped

\* A step of flows alone, none of which starts or closes a task.
LEMMA SteadyFlow ==
  ASSUME FlowsInv, board' = board, session' = session, shown' = shown, drag' = drag,
         FlowBag(flows'), NEW S, Only(S),
         \A f \in S : f.at \notin Underway /\ f.at # "linking",
         \A t : Clear(t)' => Clear(t)
  PROVE  FlowsInv'
<1>1. Tidy(board') /\ \A t \in Tasks : ColumnOf(board', t) = ColumnOf(board, t)
  BY DEF FlowsInv
<1>2. DragTyped'
  BY DEF FlowsInv, DragTyped
<1> QED
  BY <1>1, <1>2, SteadyStep

\* What the user orders that moves no card yet.
LEMMA UserLiftKeeps ==
  ASSUME FlowsInv, NEW t \in Tasks, UserLift(t)
  PROVE  FlowsInv'
<1>1. /\ drag' = Lifted(t, None, FALSE, FALSE) /\ ColumnOf(board, t) # "none"
      /\ board' = board /\ session' = session /\ shown' = shown /\ flows' = flows
      /\ crossed' = crossed /\ mixed' = mixed /\ failed' = failed
  BY DEF UserLift, server, told, history
<1>2. DragTyped' /\ drag'.quiet = FALSE
  BY <1>1, LiftedIs
<1>3. FlowBag(flows') /\ Only({})
  BY <1>1, FlowsStay DEF FlowsInv
<1>4. Tidy(board') /\ \A u \in Tasks : ColumnOf(board', u) = ColumnOf(board, u)
  BY <1>1 DEF FlowsInv
<1>5. \A u : Clear(u)' => Clear(u)
  BY <1>1 DEF Clear
<1> QED
  BY <1>1, <1>2, <1>3, <1>4, <1>5, SteadyStep

\* A start that is ordered only asks for its drag.
LEMMA OrderStartKeeps ==
  ASSUME FlowsInv, NEW t \in Tasks, OrderStart(t)
  PROVE  FlowsInv'
<1> DEFINE g == Flow("start", t, "asking")
<1>1. /\ Begins(g) /\ Remembered
      /\ board' = board /\ session' = session /\ shown' = shown /\ drag' = drag
  BY DEF OrderStart, server, told, page
<1>2. g \in FlowRecords /\ g.at = "asking" /\ g.route = "plain"
  BY NewFlow
<1> HIDE DEF g
<1>3. FlowTyped(g) /\ g.at \notin Underway /\ g.at # "linking"
  BY <1>2 DEF FlowTyped, Underway
<1>4. FlowBag(flows') /\ Only({g})
  BY <1>1, <1>3, BeginsOnly DEF FlowsInv
<1>5. \A u : Clear(u)' => Clear(u)
  BY <1>1, Noting DEF Remembered
<1>6. \A f \in {g} : f.at \notin Underway /\ f.at # "linking"
  BY <1>3
<1> QED
  BY <1>1, <1>4, <1>5, <1>6, SteadyFlow

\* The timer that has an agent commit.
LEMMA CommitDueKeeps ==
  ASSUME FlowsInv, NEW t \in Tasks, CommitDue(t)
  PROVE  FlowsInv'
<1> DEFINE g == Flow("commit", t, "asking")
<1>1. /\ Begins(g) /\ crossed' = crossed /\ mixed' = mixed /\ failed' = failed
      /\ board' = board /\ session' = session /\ shown' = shown /\ drag' = drag
  BY DEF CommitDue, server, told, page, history
<1>2. g \in FlowRecords /\ g.at = "asking" /\ g.route = "plain"
  BY NewFlow
<1> HIDE DEF g
<1>3. FlowTyped(g) /\ g.at \notin Underway /\ g.at # "linking"
  BY <1>2 DEF FlowTyped, Underway
<1>4. FlowBag(flows') /\ Only({g})
  BY <1>1, <1>3, BeginsOnly DEF FlowsInv
<1>5. \A u : Clear(u)' => Clear(u)
  BY <1>1 DEF Clear
<1>6. \A f \in {g} : f.at \notin Underway /\ f.at # "linking"
  BY <1>3
<1> QED
  BY <1>1, <1>4, <1>5, <1>6, SteadyFlow

\* The timer that has a task moved to done: a flow asks for its drag.
LEMMA FinishDueKeeps ==
  ASSUME FlowsInv, NEW t \in Tasks, FinishDue(t)
  PROVE  FlowsInv'
<1> DEFINE f == Flow("done", t, "asking")
           g == [f EXCEPT !.auto = TRUE]
<1>1. /\ Begins(g) /\ crossed' = crossed /\ mixed' = mixed /\ failed' = failed
      /\ board' = board /\ session' = session /\ shown' = shown /\ drag' = drag
  BY DEF FinishDue, server, told, page, history
<1>2. f \in FlowRecords /\ f.at = "asking" /\ f.route = "plain"
  BY NewFlow
<1> HIDE DEF f
<1>3. g \in FlowRecords /\ g.at = "asking" /\ g.route = "plain"
  BY <1>2 DEF FlowRecords
<1> HIDE DEF g
<1>4. FlowTyped(g) /\ g.at \notin Underway /\ g.at # "linking"
  BY <1>3 DEF FlowTyped, Underway
<1>5. FlowBag(flows') /\ Only({g})
  BY <1>1, <1>4, BeginsOnly DEF FlowsInv
<1>6. \A u : Clear(u)' => Clear(u)
  BY <1>1 DEF Clear
<1>7. \A h \in {g} : h.at \notin Underway /\ h.at # "linking"
  BY <1>4
<1> QED
  BY <1>1, <1>5, <1>6, <1>7, SteadyFlow

\* A flow that has its card lifted.
LEMMA AskKeeps ==
  ASSUME FlowsInv, NEW f \in BagToSet(flows), AskStart(f) \/ AskDone(f)
  PROVE  FlowsInv'
<1>1. FlowTyped(f)
  BY DEF FlowsInv, FlowBag
<1>2. PICK from \in {"backlog", "review"}, to \in {"in_progress", "trash"} :
        /\ f.at = "asking" /\ Lift(f.task, from, to, FALSE) /\ Steps(f, "animating")
        /\ board' = board /\ session' = session /\ shown' = shown
        /\ crossed' = crossed /\ mixed' = mixed /\ failed' = failed
  BY DEF AskStart, AskDone, At, server, told, history
<1>3. f.task \in Tasks
  BY <1>1 DEF FlowTyped, FlowRecords
<1>4. DragTyped' /\ drag'.quiet = FALSE
  <2>1. drag' = Lifted(f.task, to, TRUE, FALSE) /\ ColumnOf(board, f.task) # "none"
    BY <1>2 DEF Lift
  <2>2. to \in {"in_progress", "review", "trash"} /\ TRUE \in BOOLEAN /\ FALSE \in BOOLEAN
    OBVIOUS
  <2> QED
    BY <2>1, <2>2, <1>3, LiftedIs
<1> DEFINE g == [f EXCEPT !.at = "animating"]
<1>5. FlowBag(flows') /\ Only({f, g}) /\ g.at = "animating"
  BY <1>2, StepsOnly DEF FlowsInv
<1> HIDE DEF g
<1>6. \A h \in {f, g} : h.at \notin Underway /\ h.at # "linking"
  BY <1>2, <1>5 DEF Underway
<1>7. Tidy(board') /\ \A u \in Tasks : ColumnOf(board', u) = ColumnOf(board, u)
  BY <1>2 DEF FlowsInv
<1>8. \A u : Clear(u)' => Clear(u)
  BY <1>2 DEF Clear
<1> QED
  BY <1>2, <1>4, <1>5, <1>6, <1>7, <1>8, SteadyStep

\* A flow that ends.
LEMMA EndKeeps ==
  ASSUME FlowsInv, NEW f \in BagToSet(flows), AskDoneGone(f) \/ CleanDone(f) \/ Lapse(f) \/ CommitAsked(f)
  PROVE  FlowsInv'
<1>1. FlowTyped(f)
  BY DEF FlowsInv, FlowBag
<1>2. /\ Ends(f)
      /\ board' = board /\ session' = session /\ shown' = shown /\ drag' = drag
      /\ crossed' = crossed /\ mixed' = mixed /\ failed' = failed
  BY DEF AskDoneGone, CleanDone, Lapse, CommitAsked, Unavailable, server, told, page, history
<1>3. f.kind = "commit" \/ f.at \in {"asking", "cleaning", "lapsing"}
  BY DEF AskDoneGone, CleanDone, Lapse, CommitAsked, At
<1>4. \A h \in {f} : h.at \notin Underway /\ h.at # "linking"
  BY <1>1, <1>3 DEF FlowTyped, Underway
<1>5. FlowBag(flows') /\ Only({f})
  BY <1>2, EndsOnly DEF FlowsInv
<1>6. \A u : Clear(u)' => Clear(u)
  BY <1>2 DEF Clear
<1> QED
  BY <1>2, <1>4, <1>5, <1>6, SteadyFlow

\* Steps that leave the flows.
LEMMA OtherKeeps ==
  ASSUME FlowsInv,
         \/ \E t \in Tasks : OrderNoAuto(t) \/ AgentWorks(t) \/ Refresh(t)
         \/ UNCHANGED flowVars
  PROVE  FlowsInv'
<1>1. /\ board' = board /\ session' = session /\ shown' = shown /\ drag' = drag
      /\ flows' = flows /\ crossed' = crossed /\ mixed' = mixed /\ failed' = failed
  BY DEF OrderNoAuto, AgentWorks, Refresh, flowVars, server, told, page, history
<1>2. FlowBag(flows') /\ Only({})
  BY <1>1, FlowsStay DEF FlowsInv
<1>3. \A u : Clear(u)' => Clear(u)
  BY <1>1 DEF Clear
<1> QED
  BY <1>1, <1>2, <1>3, SteadyFlow

\* Links come and go, and cards stay.
LEMMA LinkKeeps ==
  ASSUME FlowsInv,
         \/ \E t, u \in Tasks : OrderLink(t, u)
         \/ \E link \in board.links : OrderUnlink(link)
  PROVE  FlowsInv'
<1>1. board \in PageBoards /\ Tidy(board)
  BY DEF FlowsInv, Tidy
<1>2. PICK l \in SUBSET (Tasks \X Tasks) : board' = [board EXCEPT !.links = l]
  <2>1. ASSUME NEW t \in Tasks, NEW u \in Tasks, OrderLink(t, u)
        PROVE  \E l \in SUBSET (Tasks \X Tasks) : board' = [board EXCEPT !.links = l]
    <3> DEFINE link == Oriented(board, <<t, u>>)
    <3>1. link \in Tasks \X Tasks
      BY DEF Oriented
    <3>2. board.links \cup {link} \in SUBSET (Tasks \X Tasks)
      BY <1>1, <3>1 DEF PageBoards
    <3>3. board' = [board EXCEPT !.links = board.links \cup {link}]
      BY <2>1, <1>1 DEF OrderLink, PageBoards
    <3> QED
      BY <3>2, <3>3
  <2>2. ASSUME NEW link \in board.links, OrderUnlink(link)
        PROVE  \E l \in SUBSET (Tasks \X Tasks) : board' = [board EXCEPT !.links = l]
    <3>1. board.links \ {link} \in SUBSET (Tasks \X Tasks)
      BY <1>1 DEF PageBoards
    <3>2. board' = [board EXCEPT !.links = board.links \ {link}]
      BY <2>2, <1>1 DEF OrderUnlink, PageBoards
    <3> QED
      BY <3>1, <3>2
  <2> QED
    BY <2>1, <2>2
<1>3. /\ session' = session /\ shown' = shown /\ drag' = drag
      /\ flows' = flows /\ crossed' = crossed /\ mixed' = mixed /\ failed' = failed
  BY DEF OrderLink, OrderUnlink, server, told, page, history
<1>4. Tidy(board') /\ \A t \in Tasks : ColumnOf(board', t) = ColumnOf(board, t)
  BY <1>1, <1>2, Linked
<1>5. FlowBag(flows') /\ Only({})
  BY <1>3, FlowsStay DEF FlowsInv
<1>6. \A u : Clear(u)' => Clear(u)
  BY <1>3 DEF Clear
<1>7. DragTyped'
  BY <1>3 DEF FlowsInv, DragTyped
<1> QED
  BY <1>3, <1>4, <1>5, <1>6, <1>7, SteadyStep

\* A drag that moves no card to another column.
LEMMA NoMoveFlows ==
  ASSUME FlowsInv, NoMove
  PROVE  /\ session' = session /\ shown' = shown /\ drag' = None /\ FlowBag(flows')
         /\ \E S : Only(S) /\ \A f \in S : f.at \notin Underway /\ f.at # "linking"
<1>1. session' = session /\ shown' = shown /\ drag' = None
  BY DEF NoMove, Frees, server, told
<1>2. CASE Animating = {}
  <2>1. flows' = flows
    BY <1>2 DEF NoMove
  <2>2. FlowBag(flows') /\ Only({})
    BY <2>1, FlowsStay DEF FlowsInv
  <2> QED
    BY <1>1, <2>2
<1>3. CASE Animating # {}
  <2> DEFINE f == CHOOSE f \in Animating : TRUE
             g == [f EXCEPT !.at = "lapsing"]
  <2>1. f \in Animating
    BY <1>3
  <2>2. IF f.kind = "start" THEN Ends(f) ELSE Steps(f, "lapsing")
    BY <1>3 DEF NoMove
  <2> HIDE DEF f
  <2>3. f \in BagToSet(flows) /\ f.at = "animating"
    BY <2>1 DEF Animating
  <2>4. CASE f.kind = "start"
    <3>1. FlowBag(flows') /\ Only({f})
      BY <2>2, <2>3, <2>4, EndsOnly DEF FlowsInv
    <3>2. \A h \in {f} : h.at \notin Underway /\ h.at # "linking"
      BY <2>3 DEF Underway
    <3> QED
      BY <1>1, <3>1, <3>2
  <2>5. CASE f.kind # "start"
    <3>1. FlowBag(flows') /\ Only({f, g}) /\ g.at = "lapsing"
      BY <2>2, <2>3, <2>5, StepsOnly DEF FlowsInv
    <3> HIDE DEF g
    <3>2. \A h \in {f, g} : h.at \notin Underway /\ h.at # "linking"
      BY <2>3, <3>1 DEF Underway
    <3> QED
      BY <1>1, <3>1, <3>2
  <2> QED
    BY <2>4, <2>5
<1> QED
  BY <1>2, <1>3

\* A drag that misses, is cancelled or ends in its own column.
LEMMA NoMoveKeeps ==
  ASSUME FlowsInv, Miss \/ CancelDrag \/ UserReorder
  PROVE  FlowsInv'
<1>1. NoMove /\ \E lost : Remember({}, lost, {})
  BY DEF Miss, CancelDrag, UserReorder, Remembered
<1>2. /\ session' = session /\ shown' = shown /\ drag' = None /\ FlowBag(flows')
      /\ \E S : Only(S) /\ \A f \in S : f.at \notin Underway /\ f.at # "linking"
  BY <1>1, NoMoveFlows
<1>3. \A t : Clear(t)' => Clear(t)
  BY <1>1, Noting
<1>4. Tidy(board') /\ \A t \in Tasks : ColumnOf(board', t) = ColumnOf(board, t)
  <2>1. CASE Miss \/ CancelDrag
    <3>1. board' = board
      BY <2>1 DEF Miss, CancelDrag
    <3> QED
      BY <3>1 DEF FlowsInv
  <2>2. CASE UserReorder
    <3>1. /\ drag # None /\ drag.from \in Columns /\ drag.index \in Nat \ {0}
          /\ Tidy(board) /\ Dropped
      BY <2>2 DEF UserReorder, FlowsInv, DragTyped
    <3> DEFINE c == drag.from
               i == drag.index
    <3>2. PICK n \in DOMAIN board.columns[c] :
            board' = [board EXCEPT !.columns[c] = InsertAt(RemoveAt(@, i), n, board.columns[c][i])]
      BY <2>2 DEF UserReorder, Card
    <3>3. i \in DOMAIN board.columns[c] /\ c \in Columns
      BY <3>1 DEF Dropped, Tidy, PageBoards
    <3> HIDE DEF c, i
    <3> QED
      BY <3>1, <3>2, <3>3, Shifted
  <2> QED
    BY <1>1, <2>1, <2>2
<1>5. DragTyped'
  BY <1>2 DEF DragTyped
<1>6. PICK S : Only(S) /\ \A f \in S : f.at \notin Underway /\ f.at # "linking"
  BY <1>2
<1> QED
  BY <1>2, <1>3, <1>4, <1>5, <1>6, SteadyStep

(***************************************************************************)
(* Sessions that stop, and what the page is told.                          *)
(***************************************************************************)
\* A session that has ended is not live.
LEMMA EndedIs == ASSUME NEW t PROVE Ended(t) \in States /\ Ended(t) \notin Live
BY DEF Ended, States, Live

\* An agent's turn: only a live session goes on, so none comes alive by itself.
LEMMA AgentTurnKeeps ==
  ASSUME FlowsInv, NEW t \in Tasks, AgentTurn(t)
  PROVE  FlowsInv'
<1>1. PICK next \in {"running", "awaiting_review", Ended(t)} : session' = [session EXCEPT ![t] = next]
  BY DEF AgentTurn
<1>2. /\ session[t] \in Live /\ board' = board /\ shown' = shown /\ drag' = drag
      /\ flows' = flows /\ crossed' = crossed /\ mixed' = mixed /\ failed' = failed
  BY DEF AgentTurn, told, page, history
<1>3. next \in States
  BY EndedIs DEF States
<1>4. SessionsTyped'
  BY <1>1, <1>2, <1>3 DEF FlowsInv, SessionsTyped
<1>5. Tidy(board') /\ FlowBag(flows') /\ DragTyped'
  BY <1>2 DEF FlowsInv, DragTyped
<1>6. ASSUME NEW u \in Tasks PROVE Calm(u)
  <2>1. session'[u] \in Live => session[u] \in Live
    BY <1>1, <1>2 DEF FlowsInv, SessionsTyped
  <2> QED
    BY <2>1, <1>2 DEF Calm, Clear
<1> QED
  BY <1>4, <1>5, <1>6, CalmStep

\* The page is told of a session: a live one is never shown as interrupted by it.
LEMMA DeliverKeeps ==
  ASSUME FlowsInv, NEW t \in Tasks, Deliver(t)
  PROVE  FlowsInv'
<1>1. /\ shown' = [shown EXCEPT ![t] = session[t]]
      /\ board' = board /\ session' = session /\ drag' = drag
      /\ flows' = flows /\ crossed' = crossed /\ mixed' = mixed /\ failed' = failed
  BY DEF Deliver, server, history
<1>2. SessionsTyped'
  BY <1>1 DEF FlowsInv, SessionsTyped
<1>3. Tidy(board') /\ FlowBag(flows') /\ DragTyped'
  BY <1>1 DEF FlowsInv, DragTyped
<1>4. ASSUME NEW u \in Tasks PROVE Calm(u)
  <2>1. shown'[u] = "interrupted" /\ session'[u] \in Live => shown[u] = "interrupted"
    BY <1>1 DEF FlowsInv, SessionsTyped, Live
  <2> QED
    BY <2>1, <1>1 DEF Calm, Clear
<1> QED
  BY <1>2, <1>3, <1>4, CalmStep

\* A flow that finishes a task stops its session and closes it no more.
LEMMA StopDoneKeeps ==
  ASSUME FlowsInv, NEW f \in BagToSet(flows), StopDone(f)
  PROVE  FlowsInv'
<1> DEFINE t == f.task
           g == [f EXCEPT !.at = "cleaning"]
<1>1. /\ session' = [session EXCEPT ![t] = Stops(t)] /\ Steps(f, "cleaning") /\ f.at = "linking"
      /\ board' = board /\ shown' = shown /\ drag' = drag
      /\ crossed' = crossed /\ mixed' = mixed /\ failed' = failed
  BY DEF StopDone, ToStop, At, told, page, history
<1>2. t \in Tasks
  BY DEF FlowsInv, FlowBag, FlowTyped, FlowRecords
<1>3. Stops(t) \in States /\ Stops(t) \notin Live
  BY <1>2, EndedIs DEF Stops, FlowsInv, SessionsTyped
<1>4. SessionsTyped' /\ session'[t] \notin Live /\ \A u \in Tasks \ {t} : session'[u] = session[u]
  BY <1>1, <1>2, <1>3 DEF FlowsInv, SessionsTyped
<1>5. FlowBag(flows') /\ Only({f, g}) /\ g.at = "cleaning" /\ g.task = t
  BY <1>1, StepsOnly DEF FlowsInv
<1>6. Tidy(board') /\ DragTyped'
  BY <1>1 DEF FlowsInv, DragTyped
<1> HIDE DEF g
<1>7. ASSUME NEW u \in Tasks PROVE Calm(u)
  <2>1. \A h \in {f, g} : h.task = u => h.at \notin Underway
    BY <1>1, <1>5 DEF Underway
  <2>2. /\ Pending(flows', u) = Pending(flows, u)
        /\ \A h \in Pending(flows, u) : Copies(flows', h) = Copies(flows, h)
        /\ (\A h \in {f, g} : h.task = u => h.at # "linking")
             => (Closing(flows, u) => Closing(flows', u))
    BY <1>5, <2>1, FlowsCalm DEF FlowsInv
  <2>3. u # t => (Closing(flows, u) => Closing(flows', u))
    BY <2>2, <1>5
  <2> HIDE DEF t
  <2> QED
    BY <1>1, <1>4, <2>2, <2>3 DEF Calm, Clear
<1> QED
  BY <1>4, <1>5, <1>6, <1>7, CalmStep

\* A stop that fails leaves the agent, and the task is noted as failed.
LEMMA StopFailsKeeps ==
  ASSUME FlowsInv, NEW f \in BagToSet(flows), StopFails(f)
  PROVE  FlowsInv'
<1> DEFINE t == f.task
           g == [f EXCEPT !.at = "cleaning"]
<1>1. /\ Steps(f, "cleaning") /\ f.at = "linking" /\ session' = session
      /\ board' = board /\ shown' = shown /\ drag' = drag
      /\ crossed' = crossed /\ mixed' = mixed /\ failed' = failed \cup {t}
  BY DEF StopFails, ToStop, At, server, told, page
<1>2. FlowBag(flows') /\ Only({f, g}) /\ g.at = "cleaning" /\ g.task = t
  BY <1>1, StepsOnly DEF FlowsInv
<1>3. Tidy(board') /\ DragTyped' /\ SessionsTyped'
  BY <1>1 DEF FlowsInv, DragTyped, SessionsTyped
<1> HIDE DEF g
<1>4. ASSUME NEW u \in Tasks, u # t PROVE Calm(u)
  <2>1. \A h \in {f, g} : h.task # u
    BY <1>2, <1>4
  <2>2. /\ Pending(flows', u) = Pending(flows, u)
        /\ \A h \in Pending(flows, u) : Copies(flows', h) = Copies(flows, h)
        /\ Closing(flows, u) => Closing(flows', u)
    BY <1>2, <2>1, FlowsCalm DEF FlowsInv
  <2> QED
    BY <1>1, <2>2 DEF Calm, Clear
<1>5. Own(t)' /\ ToldOf(t)'
  BY <1>1 DEF Own, ToldOf, Clear
<1> HIDE DEF t
<1> QED
  BY <1>2, <1>3, <1>4, <1>5, CalmStep

\* A flow that finishes a task begins the start of one that waited for it.
LEMMA StartLinkedKeeps ==
  ASSUME FlowsInv, NEW f \in BagToSet(flows), StartLinked(f)
  PROVE  FlowsInv'
<1>1. PICK u \in f.ready :
        flows' = BagAdd(BagAdd(BagRemove(flows, f), [f EXCEPT !.ready = @ \ {u}]),
                        [Flow("start", u, "asking") EXCEPT !.by = f.task])
  BY DEF StartLinked
<1>2. /\ f.kind = "done" /\ f.at = "linking"
      /\ board' = board /\ session' = session /\ shown' = shown /\ drag' = drag
      /\ crossed' = crossed /\ mixed' = mixed /\ failed' = failed
  BY DEF StartLinked, At, server, told, page, history
<1> DEFINE t == f.task
           g == [f EXCEPT !.ready = @ \ {u}]
           s == Flow("start", u, "asking")
           h == [s EXCEPT !.by = f.task]
<1>3. FlowTyped(f) /\ f \in FlowRecords /\ t \in Tasks /\ u \in Tasks
  BY DEF FlowsInv, FlowBag, FlowTyped, FlowRecords
<1>4. /\ g \in FlowRecords /\ g.kind = "done" /\ g.at = "linking" /\ g.task = t
  BY <1>2, <1>3 DEF FlowRecords
<1>5. s \in FlowRecords /\ s.kind = "start" /\ s.task = u /\ s.at = "asking" /\ s.route = "plain"
  BY <1>3, NewFlow
<1> HIDE DEF s
<1>6. h \in FlowRecords /\ h.task = u /\ h.at = "asking" /\ h.route = "plain"
  BY <1>3, <1>5 DEF FlowRecords
<1>7. flows' = BagAdd(BagAdd(BagRemove(flows, f), g), h)
  BY <1>1 DEF s
<1> HIDE DEF g, h
<1>8. FlowTyped(g) /\ FlowTyped(h)
  BY <1>4, <1>6 DEF FlowTyped, Underway
<1> DEFINE mid == BagAdd(BagRemove(flows, f), g)
<1>9. FlowBag(flows)
  BY DEF FlowsInv
<1>10. FlowBag(mid) /\ \A x : Copies(mid, x) = Copies(flows, x) - One(x, f) + One(x, g)
  BY <1>8, <1>9, Replacing
<1>11. flows' = BagAdd(mid, h)
  BY <1>7
<1> HIDE DEF mid
<1>12. FlowBag(flows') /\ \A x : Copies(flows', x) = Copies(mid, x) + One(x, h)
  BY <1>8, <1>10, <1>11, Added
<1>13. \A x : Copies(flows, x) \in Nat /\ (x \in BagToSet(flows) <=> Copies(flows, x) > 0)
  BY <1>9, CopiesAre
<1>14. Only({f, g, h})
  BY <1>10, <1>12, <1>13 DEF Only, One
<1>15. g \in BagToSet(flows')
  <2>1. Copies(flows', g) > 0
    BY <1>10, <1>12, <1>13 DEF One
  <2> QED
    BY <2>1, <1>12, CopiesAre
<1>16. Closing(flows', t)
  BY <1>4, <1>15 DEF Closing, At
<1>17. Tidy(board') /\ DragTyped' /\ SessionsTyped'
  BY <1>2 DEF FlowsInv, DragTyped, SessionsTyped
<1>18. ASSUME NEW w \in Tasks PROVE Calm(w)
  <2>1. \A x \in {f, g, h} : x.task = w => x.at \notin Underway
    BY <1>2, <1>4, <1>6 DEF Underway
  <2>2. /\ Pending(flows', w) = Pending(flows, w)
        /\ \A x \in Pending(flows, w) : Copies(flows', x) = Copies(flows, x)
        /\ (\A x \in {f, g, h} : x.task = w => x.at # "linking")
             => (Closing(flows, w) => Closing(flows', w))
    BY <1>9, <1>12, <1>14, <2>1, FlowsCalm
  <2>3. w # t => (Closing(flows, w) => Closing(flows', w))
    BY <2>2, <1>4, <1>6
  <2>4. Closing(flows, w) => Closing(flows', w)
    BY <2>3, <1>16
  <2> QED
    BY <1>2, <2>2, <2>4 DEF Calm, Clear
<1> QED
  BY <1>12, <1>17, <1>18, CalmStep

(***************************************************************************)
(* Starts that go on and end.                                              *)
(***************************************************************************)
\* A start goes on.
LEMMA Advanced ==
  ASSUME FlowBag(flows), NEW f \in BagToSet(flows), f.at \in {"ensuring", "starting"},
         NEW at \in {"starting", "answering"}, f.at # at, Steps(f, at)
  PROVE  LET t == f.task
             g == [f EXCEPT !.at = at]
         IN  /\ FlowBag(flows') /\ Only({f, g})
             /\ g \in Pending(flows', t) /\ f \in Pending(flows, t) /\ g.at = at
             /\ Answering(flows, t) => Answering(flows', t)
             /\ Closing(flows, t) => Closing(flows', t)
             /\ OneStart(t) => \A h \in Pending(flows', t) : Ahead(h) =>
                  /\ Pending(flows', t) = {h} /\ Copies(flows', h) = 1
                  /\ h = g /\ Ahead(f)
<1> DEFINE t == f.task
           g == [f EXCEPT !.at = at]
<1>1. FlowTyped(f)
  BY DEF FlowBag
<1>2. g \in FlowRecords /\ g.at = at /\ g.kind = f.kind /\ g.task = t /\ g.route = f.route
  BY <1>1, SetAt DEF FlowTyped
<1>3. Goes(f, g)
  BY DEF Steps
<1> HIDE DEF g
<1>4. FlowTyped(g)
  BY <1>1, <1>2 DEF FlowTyped, Underway
<1>5. /\ FlowBag(flows') /\ Only({f, g})
      /\ \A h : Copies(flows', h) = Copies(flows, h) - One(h, f) + One(h, g)
  BY <1>3, <1>4, GoesOnly
<1>6. \A h : Copies(flows, h) \in Nat /\ (h \in BagToSet(flows) <=> Copies(flows, h) > 0)
  BY CopiesAre
<1>7. \A h : h \in BagToSet(flows') <=> Copies(flows', h) > 0
  BY <1>5, CopiesAre
<1>8. f # g
  BY <1>2
<1>9. g \in BagToSet(flows')
  BY <1>5, <1>6, <1>7, <1>8 DEF One
<1>10. g \in Pending(flows', t) /\ f \in Pending(flows, t)
  BY <1>2, <1>9 DEF Pending, Underway
<1>11. \A h : h \notin {f, g} => (h \in BagToSet(flows') <=> h \in BagToSet(flows))
  BY <1>5, <1>6, <1>7 DEF Only
<1>12. Answering(flows, t) => Answering(flows', t)
  <2> SUFFICES ASSUME NEW h \in Pending(flows, t), h.at = "answering" PROVE Answering(flows', t)
    BY DEF Answering
  <2>1. h # f
    OBVIOUS
  <2>2. h \in Pending(flows', t)
    BY <2>1, <1>10, <1>11 DEF Pending
  <2> QED
    BY <2>2 DEF Answering
<1>13. Closing(flows, t) => Closing(flows', t)
  <2> SUFFICES ASSUME NEW h \in BagToSet(flows), At(h, "done", "linking"), h.task = t
               PROVE  Closing(flows', t)
    BY DEF Closing
  <2>1. h # f /\ h # g
    BY <1>2 DEF At
  <2> QED
    BY <2>1, <1>11 DEF Closing
<1>14. ASSUME OneStart(t), NEW h \in Pending(flows', t), Ahead(h)
       PROVE  Pending(flows', t) = {h} /\ Copies(flows', h) = 1 /\ h = g /\ Ahead(f)
  <2>1. h = g
    <3> SUFFICES ASSUME h # g PROVE FALSE
      OBVIOUS
    <3>1. CASE h = f
      <4>1. Pending(flows, t) = {f} /\ Copies(flows, f) = 1
        BY <1>10, <1>14, <3>1 DEF OneStart
      <4>2. Copies(flows', f) = 0
        BY <4>1, <1>5, <1>8 DEF One
      <4>3. f \in BagToSet(flows')
        BY <1>14, <3>1 DEF Pending
      <4> QED
        BY <4>2, <4>3, <1>7
    <3>2. CASE h # f
      <4>1. h \in Pending(flows, t)
        BY <3>2, <1>11, <1>14 DEF Pending
      <4>2. Pending(flows, t) = {h}
        BY <4>1, <1>14 DEF OneStart
      <4> QED
        BY <4>2, <3>2, <1>10
    <3> QED
      BY <3>1, <3>2
  <2>2. Ahead(f)
    BY <2>1, <1>2, <1>14 DEF Ahead
  <2>3. Pending(flows, t) = {f} /\ Copies(flows, f) = 1
    BY <2>2, <1>10, <1>14 DEF OneStart
  <2>4. g \notin BagToSet(flows)
    <3>1. g \notin Pending(flows, t)
      BY <2>3, <1>8
    <3> QED
      BY <3>1, <1>10 DEF Pending
  <2>5. Copies(flows, g) = 0 /\ Copies(flows', g) = 1 /\ Copies(flows', f) = 0
    BY <2>3, <2>4, <1>5, <1>6, <1>8 DEF One
  <2>6. f \notin BagToSet(flows')
    BY <2>5, <1>7
  <2>7. Pending(flows', t) = {g}
    <3> SUFFICES ASSUME NEW x \in Pending(flows', t), x # g PROVE FALSE
      BY <1>10
    <3>1. x # f
      BY <2>6 DEF Pending
    <3>2. x \in Pending(flows, t)
      BY <3>1, <1>11 DEF Pending
    <3> QED
      BY <3>1, <3>2, <2>3
  <2> QED
    BY <2>1, <2>2, <2>5, <2>7
<1> QED
  BY <1>2, <1>5, <1>10, <1>12, <1>13, <1>14 DEF g

\* A start makes its task's worktree.
LEMMA EnsureTreeKeeps ==
  ASSUME FlowsInv, NEW f \in BagToSet(flows), EnsureTree(f)
  PROVE  FlowsInv'
<1> DEFINE t == f.task
           g == [f EXCEPT !.at = "starting"]
<1>1. /\ f.at = "ensuring" /\ Steps(f, "starting")
      /\ board' = board /\ session' = session /\ shown' = shown /\ drag' = drag
      /\ crossed' = crossed /\ mixed' = mixed /\ failed' = failed
  BY DEF EnsureTree, told, page, history
<1>2. /\ FlowBag(flows') /\ Only({f, g})
      /\ g \in Pending(flows', t) /\ f \in Pending(flows, t) /\ g.at = "starting"
      /\ Answering(flows, t) => Answering(flows', t)
      /\ Closing(flows, t) => Closing(flows', t)
      /\ OneStart(t) => \A h \in Pending(flows', t) : Ahead(h) =>
                  /\ Pending(flows', t) = {h} /\ Copies(flows', h) = 1
                  /\ h = g /\ Ahead(f)
  BY <1>1, Advanced DEF FlowsInv
<1> HIDE DEF g
<1>3. Tidy(board') /\ DragTyped' /\ SessionsTyped'
  BY <1>1 DEF FlowsInv, DragTyped, SessionsTyped
<1>4. t \in Tasks /\ Own(t) /\ ToldOf(t)
  BY DEF FlowsInv, FlowBag, FlowTyped, FlowRecords
<1>5. ASSUME NEW u \in Tasks, u # t PROVE Calm(u)
  <2>1. \A h \in {f, g} : h.task # u
    BY <1>2, <1>5 DEF Pending
  <2>2. /\ Pending(flows', u) = Pending(flows, u)
        /\ \A h \in Pending(flows, u) : Copies(flows', h) = Copies(flows, h)
        /\ Closing(flows, u) => Closing(flows', u)
    BY <1>2, <2>1, FlowsCalm DEF FlowsInv
  <2> QED
    BY <1>1, <2>2 DEF Calm, Clear
<1> HIDE DEF t
<1>6. ToldOf(t)'
  BY <1>1, <1>2, <1>4 DEF ToldOf, Clear
<1>7. Own(t)'
  <2> SUFFICES ASSUME Clear(t)'
               PROVE  LiveIsHeld(t)' /\ OneStart(t)' /\ AheadIsDown(t)' /\ StartIsShown(t)'
                      /\ QuietIsDown(t)'
    BY DEF Own
  <2>1. LiveIsHeld(t) /\ OneStart(t) /\ AheadIsDown(t) /\ StartIsShown(t) /\ QuietIsDown(t)
    BY <1>1, <1>4 DEF Own, Clear
  <2>2. LiveIsHeld(t)'
    BY <2>1, <1>1, <1>2 DEF LiveIsHeld
  <2>3. OneStart(t)'
    BY <2>1, <1>2 DEF OneStart
  <2>4. AheadIsDown(t)'
    <3>1. ASSUME NEW h \in Pending(flows', t), Ahead(h)
          PROVE  ColumnOf(board, t) # "backlog" /\ session[t] \notin Live
      BY <2>1, <3>1, <1>1, <1>2 DEF AheadIsDown
    <3> QED
      BY <3>1, <1>1 DEF AheadIsDown
  <2>5. StartIsShown(t)'
    BY <2>1, <1>1, <1>2 DEF StartIsShown
  <2>6. QuietIsDown(t)'
    BY <2>1, <1>1, <1>2 DEF QuietIsDown
  <2> QED
    BY <2>2, <2>3, <2>4, <2>5, <2>6
<1> QED
  BY <1>2, <1>3, <1>5, <1>6, <1>7, CalmStep

\* A start has the session begin: from then on it answers for it.
LEMMA StartSessionKeeps ==
  ASSUME FlowsInv, NEW f \in BagToSet(flows), StartSession(f)
  PROVE  FlowsInv'
<1> DEFINE t == f.task
           g == [f EXCEPT !.at = "answering"]
           state == IF f.kind = "restore" THEN "awaiting_review" ELSE "running"
<1>1. /\ f.at = "starting" /\ Steps(f, "answering")
      /\ session' = [session EXCEPT ![t] = IF @ \in Live THEN @ ELSE state]
      /\ board' = board /\ shown' = shown /\ drag' = drag
      /\ crossed' = crossed /\ mixed' = mixed /\ failed' = failed
  BY DEF StartSession, told, page, history
<1>2. /\ FlowBag(flows') /\ Only({f, g})
      /\ g \in Pending(flows', t) /\ f \in Pending(flows, t) /\ g.at = "answering"
      /\ Answering(flows, t) => Answering(flows', t)
      /\ Closing(flows, t) => Closing(flows', t)
      /\ OneStart(t) => \A h \in Pending(flows', t) : Ahead(h) =>
                  /\ Pending(flows', t) = {h} /\ Copies(flows', h) = 1
                  /\ h = g /\ Ahead(f)
  BY <1>1, Advanced DEF FlowsInv
<1> HIDE DEF g
<1>3. state \in States
  BY DEF States
<1>4. t \in Tasks /\ Own(t) /\ ToldOf(t)
  BY DEF FlowsInv, FlowBag, FlowTyped, FlowRecords
<1> HIDE DEF state
<1>5. SessionsTyped' /\ \A u \in Tasks \ {t} : session'[u] = session[u]
  BY <1>1, <1>3, <1>4 DEF FlowsInv, SessionsTyped
<1>6. Tidy(board') /\ DragTyped'
  BY <1>1 DEF FlowsInv, DragTyped
<1>7. ASSUME NEW u \in Tasks, u # t PROVE Calm(u)
  <2>1. \A h \in {f, g} : h.task # u
    BY <1>2, <1>7 DEF Pending
  <2>2. /\ Pending(flows', u) = Pending(flows, u)
        /\ \A h \in Pending(flows, u) : Copies(flows', h) = Copies(flows, h)
        /\ Closing(flows, u) => Closing(flows', u)
    BY <1>2, <2>1, FlowsCalm DEF FlowsInv
  <2>3. session'[u] = session[u]
    BY <1>5, <1>7
  <2> QED
    BY <1>1, <2>2, <2>3 DEF Calm, Clear
<1> HIDE DEF t
<1>8. Answering(flows', t)
  BY <1>2 DEF Answering
<1>9. ToldOf(t)'
  BY <1>8 DEF ToldOf
<1>10. Own(t)'
  <2> SUFFICES ASSUME Clear(t)'
               PROVE  LiveIsHeld(t)' /\ OneStart(t)' /\ AheadIsDown(t)' /\ StartIsShown(t)'
                      /\ QuietIsDown(t)'
    BY DEF Own
  <2>1. LiveIsHeld(t) /\ OneStart(t) /\ AheadIsDown(t) /\ StartIsShown(t) /\ QuietIsDown(t)
    BY <1>1, <1>4 DEF Own, Clear
  <2>2. LiveIsHeld(t)'
    BY <1>8 DEF LiveIsHeld
  <2>3. OneStart(t)'
    BY <2>1, <1>2 DEF OneStart
  <2>4. AheadIsDown(t)'
    <3>1. ASSUME NEW h \in Pending(flows', t), Ahead(h)
          PROVE  ColumnOf(board, t) # "backlog" /\ h.at = "answering"
      BY <2>1, <3>1, <1>1, <1>2 DEF AheadIsDown
    <3> QED
      BY <3>1, <1>1 DEF AheadIsDown
  <2>5. StartIsShown(t)'
    BY <2>1, <1>1, <1>2 DEF StartIsShown
  <2>6. QuietIsDown(t)'
    BY <2>1, <1>1, <1>2 DEF QuietIsDown
  <2> QED
    BY <2>2, <2>3, <2>4, <2>5, <2>6
<1> QED
  BY <1>2, <1>5, <1>6, <1>7, <1>9, <1>10, CalmStep

\* A start ends.
LEMMA Finished ==
  ASSUME FlowBag(flows), NEW f \in BagToSet(flows), f.at \in Underway, Ends(f)
  PROVE  LET t == f.task
         IN  /\ FlowBag(flows') /\ Only({f}) /\ f \in Pending(flows, t)
             /\ Pending(flows', t) \subseteq Pending(flows, t)
             /\ f.at # "answering" /\ Answering(flows, t) => Answering(flows', t)
             /\ Closing(flows, t) => Closing(flows', t)
             /\ OneStart(t) => \A h \in Pending(flows', t) : ~Ahead(h) /\ ~Ahead(f)
<1> DEFINE t == f.task
<1>1. /\ FlowBag(flows') /\ Only({f})
      /\ \A h : Copies(flows', h) = Copies(flows, h) - One(h, f)
  BY EndsOnly
<1>2. \A h : Copies(flows, h) \in Nat /\ (h \in BagToSet(flows) <=> Copies(flows, h) > 0)
  BY CopiesAre
<1>3. \A h : h \in BagToSet(flows') <=> Copies(flows', h) > 0
  BY <1>1, CopiesAre
<1>4. \A h : h # f => (h \in BagToSet(flows') <=> h \in BagToSet(flows))
  BY <1>1, <1>2, <1>3 DEF Only
<1>5. f \in Pending(flows, t)
  BY DEF Pending
<1>6. Pending(flows', t) \subseteq Pending(flows, t)
  BY <1>4 DEF Pending
<1>7. f.at # "answering" /\ Answering(flows, t) => Answering(flows', t)
  <2> SUFFICES ASSUME f.at # "answering", NEW h \in Pending(flows, t), h.at = "answering"
               PROVE  Answering(flows', t)
    BY DEF Answering
  <2>1. h # f
    OBVIOUS
  <2>2. h \in Pending(flows', t)
    BY <2>1, <1>4 DEF Pending
  <2> QED
    BY <2>2 DEF Answering
<1>8. Closing(flows, t) => Closing(flows', t)
  <2> SUFFICES ASSUME NEW h \in BagToSet(flows), At(h, "done", "linking"), h.task = t
               PROVE  Closing(flows', t)
    BY DEF Closing
  <2>1. h # f
    BY DEF At, Underway
  <2> QED
    BY <2>1, <1>4 DEF Closing
<1>9. ASSUME OneStart(t), NEW h \in Pending(flows', t) PROVE ~Ahead(h) /\ ~Ahead(f)
  <2>1. h \in Pending(flows, t)
    BY <1>6, <1>9
  <2> SUFFICES ASSUME Ahead(h) \/ Ahead(f) PROVE FALSE
    OBVIOUS
  <2>2. h = f /\ Copies(flows, f) = 1
    BY <2>1, <1>5, <1>9 DEF OneStart
  <2>3. Copies(flows', f) = 0
    BY <2>2, <1>1 DEF One
  <2>4. f \in BagToSet(flows')
    BY <2>2, <1>9 DEF Pending
  <2> QED
    BY <2>3, <2>4, <1>3
<1> QED
  BY <1>1, <1>5, <1>6, <1>7, <1>8, <1>9

\* A start that fails takes its card back where it came from; the session of one
\* whose answer is lost stays, and the task is noted as failed.
LEMMA FailStartKeeps ==
  ASSUME FlowsInv, NEW f \in BagToSet(flows), FailStart(f)
  PROVE  FlowsInv'
<1> DEFINE t == f.task
           moved == Ahead(f) /\ ColumnOf(board, t) = IF f.kind = "restore" THEN "review" ELSE "in_progress"
<1>1. /\ f.at \in Underway /\ Ends(f)
      /\ RememberAll({}, {}, {}, IF f.at = "answering" THEN {t} ELSE {})
      /\ session' = session /\ shown' = shown /\ drag' = drag
  BY DEF FailStart, server, told, page
<1>2. board' = IF moved
               THEN MoveTo(board, t, IF f.kind = "restore" THEN "trash" ELSE "backlog",
                           f.kind = "restore")
               ELSE board
  BY DEF FailStart, Ahead
<1>3. t \in Tasks /\ Own(t) /\ ToldOf(t) /\ Tidy(board)
  BY DEF FlowsInv, FlowBag, FlowTyped, FlowRecords
<1>4. Tidy(board') /\ \A u \in Tasks \ {t} : ColumnOf(board', u) = ColumnOf(board, u)
  <2> DEFINE back == IF f.kind = "restore" THEN "trash" ELSE "backlog"
             top == f.kind = "restore"
  <2>1. back \in Columns /\ top \in BOOLEAN
    BY DEF Columns
  <2>2. board' = IF moved THEN MoveTo(board, t, back, top) ELSE board
    BY <1>2
  <2> HIDE DEF back, top, moved, t
  <2>3. CASE moved
    BY <2>1, <2>2, <2>3, <1>3, Moved
  <2>4. CASE ~moved
    BY <2>2, <2>4, <1>3
  <2> QED
    BY <2>3, <2>4
<1>5. f.at \in Underway
  BY <1>1
<1>6. /\ FlowBag(flows') /\ Only({f}) /\ f \in Pending(flows, t)
      /\ Pending(flows', t) \subseteq Pending(flows, t)
      /\ f.at # "answering" /\ Answering(flows, t) => Answering(flows', t)
      /\ Closing(flows, t) => Closing(flows', t)
      /\ OneStart(t) => \A h \in Pending(flows', t) : ~Ahead(h) /\ ~Ahead(f)
  BY <1>1, <1>5, Finished DEF FlowsInv
<1>7. DragTyped' /\ SessionsTyped'
  BY <1>1 DEF FlowsInv, DragTyped, SessionsTyped
<1>8. \A u : Clear(u)' => Clear(u)
  BY <1>1, NotingAll
<1>13. f.at = "answering" => ~Clear(t)'
  BY <1>1, NotingAll
<1>9. ASSUME NEW u \in Tasks, u # t PROVE Calm(u)
  <2>1. \A h \in {f} : h.task # u
    BY <1>9
  <2>2. /\ Pending(flows', u) = Pending(flows, u)
        /\ \A h \in Pending(flows, u) : Copies(flows', h) = Copies(flows, h)
        /\ Closing(flows, u) => Closing(flows', u)
    BY <1>6, <2>1, FlowsCalm DEF FlowsInv
  <2>3. ColumnOf(board', u) = ColumnOf(board, u)
    BY <1>4, <1>9
  <2> QED
    BY <1>1, <1>8, <2>2, <2>3 DEF Calm
<1>10. ~Ahead(f) => board' = board
  BY <1>2
<1> HIDE DEF t
<1>11. ToldOf(t)'
  BY <1>1, <1>3, <1>6, <1>8, <1>13 DEF ToldOf
<1>12. Own(t)'
  <2> SUFFICES ASSUME Clear(t)'
               PROVE  LiveIsHeld(t)' /\ OneStart(t)' /\ AheadIsDown(t)' /\ StartIsShown(t)'
                      /\ QuietIsDown(t)'
    BY DEF Own
  <2>1. LiveIsHeld(t) /\ OneStart(t) /\ AheadIsDown(t) /\ StartIsShown(t) /\ QuietIsDown(t)
    BY <1>3, <1>8 DEF Own
  <2>2. LiveIsHeld(t)'
    <3>1. CASE Ahead(f)
      <4>1. session[t] \notin Live
        BY <3>1, <2>1, <1>6, <1>13 DEF AheadIsDown
      <4> QED
        BY <4>1, <1>1 DEF LiveIsHeld
    <3>2. CASE ~Ahead(f)
      BY <3>2, <2>1, <1>1, <1>6, <1>10, <1>13 DEF LiveIsHeld
    <3> QED
      BY <3>1, <3>2
  <2>3. OneStart(t)'
    BY <2>1, <1>6 DEF OneStart
  <2>4. AheadIsDown(t)'
    BY <2>1, <1>6 DEF AheadIsDown
  <2>5. StartIsShown(t)'
    BY <2>1, <1>6, <1>10 DEF StartIsShown
  <2>6. QuietIsDown(t)'
    BY <2>1, <1>1, <1>6 DEF QuietIsDown
  <2> QED
    BY <2>2, <2>3, <2>4, <2>5, <2>6
<1> QED
  BY <1>4, <1>6, <1>7, <1>9, <1>11, <1>12, CalmStep

\* A start that is answered has its card in a column that is at work.
LEMMA StartAnsweredKeeps ==
  ASSUME FlowsInv, NEW f \in BagToSet(flows), StartAnswered(f)
  PROVE  FlowsInv'
<1> DEFINE t == f.task
           moved == f.kind = "start" /\ f.route = "plain" /\ ColumnOf(board, t) = "backlog"
<1>1. /\ f.at = "answering" /\ Ends(f) /\ Remembered
      /\ shown' = [shown EXCEPT ![t] = session[t]]
      /\ session' = session /\ drag' = drag
      /\ board' = IF moved THEN MoveTo(board, t, "in_progress", TRUE) ELSE board
  BY DEF StartAnswered, server
<1>2. t \in Tasks /\ Own(t) /\ ToldOf(t) /\ Tidy(board) /\ FlowTyped(f)
  BY DEF FlowsInv, FlowBag, FlowTyped, FlowRecords
<1>3. /\ Tidy(board') /\ \A u \in Tasks \ {t} : ColumnOf(board', u) = ColumnOf(board, u)
      /\ ColumnOf(board', t) = IF moved THEN "in_progress" ELSE ColumnOf(board, t)
  <2>1. "in_progress" \in Columns /\ TRUE \in BOOLEAN
    BY DEF Columns
  <2>2. moved => ColumnOf(board, t) # "none"
    OBVIOUS
  <2> HIDE DEF moved, t
  <2>3. CASE moved
    BY <2>1, <2>2, <2>3, <1>1, <1>2, Moved
  <2>4. CASE ~moved
    BY <2>4, <1>1, <1>2
  <2> QED
    BY <2>3, <2>4
<1>4. f.at \in Underway
  BY <1>1 DEF Underway
<1>5. /\ FlowBag(flows') /\ Only({f}) /\ f \in Pending(flows, t)
      /\ Pending(flows', t) \subseteq Pending(flows, t)
      /\ Closing(flows, t) => Closing(flows', t)
      /\ OneStart(t) => \A h \in Pending(flows', t) : ~Ahead(h) /\ ~Ahead(f)
  BY <1>1, <1>4, Finished DEF FlowsInv
<1>6. DragTyped' /\ SessionsTyped'
  BY <1>1 DEF FlowsInv, DragTyped, SessionsTyped
<1>7. \A u : Clear(u)' => Clear(u)
  BY <1>1, Noting DEF Remembered
<1>8. ASSUME NEW u \in Tasks, u # t PROVE Calm(u)
  <2>1. \A h \in {f} : h.task # u
    BY <1>8
  <2>2. /\ Pending(flows', u) = Pending(flows, u)
        /\ \A h \in Pending(flows, u) : Copies(flows', h) = Copies(flows, h)
        /\ Closing(flows, u) => Closing(flows', u)
    BY <1>5, <2>1, FlowsCalm DEF FlowsInv
  <2>3. ColumnOf(board', u) = ColumnOf(board, u) /\ shown'[u] = shown[u]
    BY <1>1, <1>2, <1>3, <1>8 DEF FlowsInv, SessionsTyped
  <2> QED
    BY <1>1, <1>7, <2>2, <2>3 DEF Calm
<1>9. f.kind \in {"start", "restore"}
  BY <1>2, <1>4 DEF FlowTyped
<1>10. moved <=> ~Ahead(f) /\ ColumnOf(board, t) = "backlog"
  BY <1>9 DEF Ahead
<1>11. shown'[t] = session[t]
  BY <1>1, <1>2 DEF FlowsInv, SessionsTyped
<1> HIDE DEF t, moved
<1>12. ToldOf(t)'
  BY <1>1, <1>7, <1>11 DEF ToldOf, Live
<1>13. Own(t)'
  <2> SUFFICES ASSUME Clear(t)'
               PROVE  LiveIsHeld(t)' /\ OneStart(t)' /\ AheadIsDown(t)' /\ StartIsShown(t)'
                      /\ QuietIsDown(t)'
    BY DEF Own
  <2>1. LiveIsHeld(t) /\ OneStart(t) /\ AheadIsDown(t) /\ StartIsShown(t) /\ QuietIsDown(t)
    BY <1>2, <1>7 DEF Own
  <2>2. ColumnOf(board', t) \in {"in_progress", "review"}
    <3>1. ColumnOf(board, t) \in {"backlog", "in_progress", "review"}
      <4>1. ColumnOf(board, t) \notin {"trash", "none"}
        BY <2>1, <1>5 DEF StartIsShown
      <4>2. ColumnOf(board, t) \in Columns \cup {"none"}
        BY <1>2, ColumnIs
      <4> QED
        BY <4>1, <4>2 DEF Columns
    <3>2. Ahead(f) => ColumnOf(board, t) # "backlog"
      BY <2>1, <1>5 DEF AheadIsDown
    <3> QED
      BY <3>1, <3>2, <1>3, <1>10
  <2>3. LiveIsHeld(t)'
    BY <2>2 DEF LiveIsHeld
  <2>4. OneStart(t)'
    BY <2>1, <1>5 DEF OneStart
  <2>5. AheadIsDown(t)'
    BY <2>1, <1>5 DEF AheadIsDown
  <2>6. StartIsShown(t)'
    BY <2>2 DEF StartIsShown
  <2>7. QuietIsDown(t)'
    BY <2>1, <1>1, <1>5 DEF QuietIsDown
  <2> QED
    BY <2>3, <2>4, <2>5, <2>6, <2>7
<1> QED
  BY <1>3, <1>5, <1>6, <1>8, <1>12, <1>13, CalmStep

(***************************************************************************)
(* Tasks that are moved to done, and starts that begin.                    *)
(***************************************************************************)
\* A task that is done and has its session stopped, or soon has.
LEMMA DoneOwn ==
  ASSUME FlowBag(flows'), Noted, NEW t \in Tasks,
         Clear(t)' =>
           /\ ColumnOf(board', t) \in {"trash", "none"}
           /\ Closing(flows', t) \/ session'[t] \notin Live
           /\ drag' # None /\ drag'.task = t /\ drag'.quiet => session'[t] \notin Live
  PROVE  Own(t)'
<1> SUFFICES ASSUME Clear(t)'
             PROVE  LiveIsHeld(t)' /\ OneStart(t)' /\ AheadIsDown(t)' /\ StartIsShown(t)'
                    /\ QuietIsDown(t)'
  BY DEF Own
<1>1. Pending(flows', t) = {}
  BY Alone
<1>2. LiveIsHeld(t)'
  BY DEF LiveIsHeld
<1>3. OneStart(t)' /\ AheadIsDown(t)' /\ StartIsShown(t)'
  BY <1>1 DEF OneStart, AheadIsDown, StartIsShown
<1>4. QuietIsDown(t)'
  BY <1>1 DEF QuietIsDown
<1> QED
  BY <1>2, <1>3, <1>4

\* What a step leaves of a task's starts and of the flow that finishes it.
Retains(t) ==
  \A f \in BagToSet(flows) :
    f.task = t /\ (f.at \in Underway \/ f.at = "linking") => f \in BagToSet(flows')

\* Starts and closing flows that are not among those a step changes are still there.
LEMMA Retained ==
  ASSUME FlowBag(flows), FlowBag(flows'), NEW S, Only(S), NEW t,
         \A f \in S : f \in BagToSet(flows') \/ (f.at \notin Underway /\ f.at # "linking")
  PROVE  /\ Retains(t)
         /\ Answering(flows, t) => Answering(flows', t)
         /\ Closing(flows, t) => Closing(flows', t)
<1>1. \A f : f \in BagToSet(flows) <=> Copies(flows, f) > 0
  BY CopiesAre
<1>2. \A f : f \in BagToSet(flows') <=> Copies(flows', f) > 0
  BY CopiesAre
<1>3. \A f : f \notin S => (f \in BagToSet(flows') <=> f \in BagToSet(flows))
  BY <1>1, <1>2 DEF Only
<1>4. Retains(t)
  BY <1>3 DEF Retains
<1>5. Answering(flows, t) => Answering(flows', t)
  BY <1>4 DEF Retains, Answering, Pending
<1>6. Closing(flows, t) => Closing(flows', t)
  BY <1>4 DEF Retains, Closing, At
<1> QED
  BY <1>4, <1>5, <1>6

\* A start of a card that waited begins, and has the card moved.
LEMMA BegunOwn ==
  ASSUME FlowBag(flows), FlowBag(flows'), Noted, DragTyped', NEW t \in Tasks, Own(t),
         Clear(t)' => Clear(t), session' = session, Retains(t),
         Clear(t)' =>
           /\ ColumnOf(board, t) \in {"backlog", "trash"}
           /\ ColumnOf(board', t) \in {"in_progress", "review"},
         NEW g, FlowTyped(g), g.task = t, g.at = "ensuring", Ahead(g),
         Copies(flows', g) = Copies(flows, g) + 1
  PROVE  Own(t)'
<1> SUFFICES ASSUME Clear(t)'
             PROVE  LiveIsHeld(t)' /\ OneStart(t)' /\ AheadIsDown(t)' /\ StartIsShown(t)'
                    /\ QuietIsDown(t)'
  BY DEF Own
<1>1. LiveIsHeld(t) /\ AheadIsDown(t) /\ StartIsShown(t)
  BY DEF Own
<1>2. Copies(flows, g) \in Nat /\ (g \in BagToSet(flows) <=> Copies(flows, g) > 0)
  BY CopiesAre
<1>3. g \in BagToSet(flows')
  <2>1. Copies(flows', g) > 0
    BY <1>2
  <2> QED
    BY <2>1, CopiesAre
<1>4. g \in Pending(flows', t)
  BY <1>3 DEF Pending, Underway
<1>5. /\ ~(drag' # None /\ drag'.task = t /\ drag'.to = "trash")
      /\ \A h \in BagToSet(flows') : h.task = t => h = g
  BY <1>4, Alone
<1>6. Pending(flows', t) = {g}
  BY <1>4, <1>5 DEF Pending
<1>7. session[t] \notin Live
  <2> SUFFICES ASSUME session[t] \in Live PROVE FALSE
    OBVIOUS
  <2>1. Answering(flows, t) \/ Closing(flows, t)
    BY <1>1 DEF LiveIsHeld
  <2>2. PICK h \in BagToSet(flows) : h.task = t /\ h.at \in {"answering", "linking"}
    BY <2>1 DEF Answering, Closing, At, Pending
  <2>3. h \in BagToSet(flows')
    BY <2>2 DEF Retains, Underway
  <2> QED
    BY <2>2, <2>3, <1>5
<1>8. Copies(flows', g) = 1
  <2> SUFFICES ASSUME g \in BagToSet(flows) PROVE FALSE
    BY <1>2
  <2>1. g \in Pending(flows, t)
    BY DEF Pending, Underway
  <2> QED
    BY <2>1, <1>1 DEF AheadIsDown, StartIsShown
<1>9. LiveIsHeld(t)'
  BY DEF LiveIsHeld
<1>10. OneStart(t)'
  BY <1>6, <1>8 DEF OneStart
<1>11. AheadIsDown(t)'
  BY <1>7 DEF AheadIsDown
<1>12. StartIsShown(t)'
  BY DEF StartIsShown
<1>13. QuietIsDown(t)'
  BY <1>5 DEF QuietIsDown, DragTyped
<1> QED
  BY <1>9, <1>10, <1>11, <1>12, <1>13

\* The flows without some that only ask.
AllButAsking(others, S) ==
  /\ \A f : f \notin S => Copies(others, f) = Copies(flows, f)
  /\ \A f \in S : f.at = "asking"

\* A task is moved to done.
LEMMA TrashesKeeps ==
  ASSUME FlowsInv, NEW others, FlowBag(others), NEW S, AllButAsking(others, S),
         NEW f \in FlowRecords, f.kind = "done", ColumnOf(board, f.task) # "none",
         session' = session, shown' = shown, drag' = drag, Trashes(others, f)
  PROVE  FlowsInv'
<1> DEFINE t == f.task
           r == Unblocked(t)
           g == [f EXCEPT !.at = "linking", !.ready = r]
<1>1. /\ board' = MoveTo(board, t, "trash", TRUE)
      /\ flows' = BagAdd(others, g)
      /\ Remember(Ready(board, t), {}, {})
  BY DEF Trashes
<1>2. t \in Tasks
  BY DEF FlowRecords
<1>3. r \in SUBSET Tasks
  BY DEF Unblocked, Ready
<1> HIDE DEF r
<1>4. g \in FlowRecords /\ g.at = "linking" /\ g.kind = "done" /\ g.task = t
  BY <1>3 DEF FlowRecords
<1> HIDE DEF g
<1>5. FlowTyped(g)
  BY <1>4 DEF FlowTyped, Underway
<1>6. FlowBag(flows') /\ \A h : Copies(flows', h) = Copies(others, h) + One(h, g)
  BY <1>1, <1>5, Added
<1>7. FlowBag(flows) /\ Tidy(board)
  BY DEF FlowsInv
<1>8. \A h : Copies(others, h) \in Nat /\ Copies(flows, h) \in Nat
  BY <1>7, CopiesAre
<1>9. Only(S \cup {g})
  BY <1>6, <1>8 DEF Only, One, AllButAsking
<1>10. g \in BagToSet(flows')
  <2>1. Copies(flows', g) > 0
    BY <1>6, <1>8 DEF One
  <2> QED
    BY <2>1, <1>6, CopiesAre
<1>11. Closing(flows', t)
  BY <1>4, <1>10 DEF Closing, At
<1>12. /\ Tidy(board') /\ ColumnOf(board', t) = "trash"
       /\ \A u \in Tasks \ {t} : ColumnOf(board', u) = ColumnOf(board, u)
  <2>1. "trash" \in Columns /\ TRUE \in BOOLEAN
    BY DEF Columns
  <2> HIDE DEF t
  <2>2. ColumnOf(board, t) # "none"
    BY DEF t
  <2> QED
    BY <2>1, <2>2, <1>1, <1>2, <1>7, Moved
<1>13. DragTyped' /\ SessionsTyped'
  BY DEF FlowsInv, DragTyped, SessionsTyped
<1>14. Noted /\ \A u : Clear(u)' => Clear(u)
  BY <1>1, Noting
<1>15. ASSUME NEW u \in Tasks, u # t PROVE Calm(u)
  <2>1. \A h \in S \cup {g} : h.task = u => h.at \notin Underway /\ h.at # "linking"
    BY <1>4, <1>15 DEF Underway, AllButAsking
  <2>2. /\ Pending(flows', u) = Pending(flows, u)
        /\ \A h \in Pending(flows, u) : Copies(flows', h) = Copies(flows, h)
        /\ Closing(flows, u) => Closing(flows', u)
    BY <1>6, <1>7, <1>9, <2>1, FlowsCalm
  <2>3. ColumnOf(board', u) = ColumnOf(board, u)
    BY <1>12, <1>15
  <2> QED
    BY <1>14, <2>2, <2>3 DEF Calm
<1>16. ToldOf(t)'
  <2>1. \A h \in S \cup {g} : h \in BagToSet(flows') \/ (h.at \notin Underway /\ h.at # "linking")
    BY <1>10 DEF Underway, AllButAsking
  <2>2. Answering(flows, t) => Answering(flows', t)
    BY <2>1, <1>6, <1>7, <1>9, Retained
  <2> QED
    BY <2>2, <1>2, <1>14 DEF FlowsInv, ToldOf
<1>17. Own(t)'
  <2> HIDE DEF t
  <2>1. Clear(t)' =>
          (drag' # None /\ drag'.task = t /\ drag'.quiet => session'[t] \notin Live)
    BY <1>2, <1>14 DEF FlowsInv, Own, QuietIsDown
  <2> QED
    BY <1>2, <1>6, <1>11, <1>12, <1>14, <2>1, DoneOwn
<1> QED
  BY <1>6, <1>12, <1>13, <1>15, <1>16, <1>17, CalmStep

\* A task is moved to done: one under review by a drag, another at once.
LEMMA OrderDoneKeeps ==
  ASSUME FlowsInv, NEW t \in Tasks, OrderDone(t)
  PROVE  FlowsInv'
<1>1. /\ session' = session /\ shown' = shown /\ drag' = drag
      /\ ColumnOf(board, t) \notin {"trash", "none"}
  BY DEF OrderDone, server, told, page
<1>2. CASE ColumnOf(board, t) = "review"
  <2> DEFINE g == Flow("done", t, "asking")
  <2>1. Begins(g) /\ board' = board /\ crossed' = crossed /\ mixed' = mixed /\ failed' = failed
    BY <1>2 DEF OrderDone, history
  <2>2. g \in FlowRecords /\ g.at = "asking" /\ g.route = "plain"
    BY NewFlow
  <2> HIDE DEF g
  <2>3. FlowTyped(g) /\ g.at \notin Underway /\ g.at # "linking"
    BY <2>2 DEF FlowTyped, Underway
  <2>4. FlowBag(flows') /\ Only({g})
    BY <2>1, <2>3, BeginsOnly DEF FlowsInv
  <2>5. \A u : Clear(u)' => Clear(u)
    BY <2>1 DEF Clear
  <2>6. \A h \in {g} : h.at \notin Underway /\ h.at # "linking"
    BY <2>3
  <2> QED
    BY <1>1, <2>1, <2>4, <2>5, <2>6, SteadyFlow
<1>3. CASE ColumnOf(board, t) # "review"
  <2> DEFINE f == Flow("done", t, "linking")
  <2>1. Trashes(flows, f)
    BY <1>3 DEF OrderDone
  <2>2. f \in FlowRecords /\ f.kind = "done" /\ f.task = t
    BY NewFlow
  <2> HIDE DEF f
  <2>3. ColumnOf(board, f.task) # "none" /\ FlowBag(flows)
    BY <1>1, <2>2 DEF FlowsInv
  <2>4. AllButAsking(flows, {})
    BY DEF AllButAsking
  <2> QED
    BY <1>1, <2>1, <2>2, <2>3, <2>4, TrashesKeeps
<1> QED
  BY <1>2, <1>3

\* The drag to done is not to be had: the card moves at once.
LEMMA AskDoneUnseenKeeps ==
  ASSUME FlowsInv, NEW f \in BagToSet(flows), AskDoneUnseen(f)
  PROVE  FlowsInv'
<1>1. /\ f.kind = "done" /\ f.at = "asking" /\ ColumnOf(board, f.task) # "none"
      /\ session' = session /\ shown' = shown /\ drag' = drag
      /\ Trashes(BagRemove(flows, f), f)
  BY DEF AskDoneUnseen, At, Unavailable, server, told
<1>2. FlowBag(flows) /\ f \in FlowRecords
  BY DEF FlowsInv, FlowBag, FlowTyped
<1> DEFINE others == BagRemove(flows, f)
<1>3. FlowBag(others) /\ \A h : Copies(others, h) = Copies(flows, h) - One(h, f)
  BY <1>2, Removed
<1> HIDE DEF others
<1>4. AllButAsking(others, {f})
  <2>1. \A h : Copies(flows, h) \in Nat
    BY <1>2, CopiesAre
  <2> QED
    BY <2>1, <1>1, <1>3 DEF AllButAsking, One
<1>5. Trashes(others, f)
  BY <1>1 DEF others
<1> QED
  BY <1>1, <1>2, <1>3, <1>4, <1>5, TrashesKeeps

\* The drag of a start is not to be had: its card waits for the session.
LEMMA AskStartUnseenKeeps ==
  ASSUME FlowsInv, NEW f \in BagToSet(flows), AskStartUnseen(f)
  PROVE  FlowsInv'
<1> DEFINE t == f.task
           g == [f EXCEPT !.at = "ensuring"]
<1>1. /\ f.kind = "start" /\ f.at = "asking" /\ Goes(f, g) /\ Remembered
      /\ board' = board /\ session' = session /\ shown' = shown /\ drag' = drag
  BY DEF AskStartUnseen, At, Unavailable, Steps, server, told
<1>2. FlowTyped(f) /\ f \in FlowRecords /\ t \in Tasks /\ Own(t) /\ ToldOf(t)
  BY DEF FlowsInv, FlowBag, FlowTyped, FlowRecords
<1>3. g \in FlowRecords /\ g.at = "ensuring" /\ g.kind = "start" /\ g.task = t /\ g.route = "plain"
  BY <1>1, <1>2, SetAt DEF FlowTyped
<1> HIDE DEF g
<1>4. FlowTyped(g) /\ ~Ahead(g)
  BY <1>3 DEF FlowTyped, Ahead
<1>5. /\ FlowBag(flows') /\ Only({f, g})
      /\ \A h : Copies(flows', h) = Copies(flows, h) - One(h, f) + One(h, g)
  BY <1>1, <1>4, GoesOnly DEF FlowsInv
<1>6. \A h : Copies(flows, h) \in Nat
  BY CopiesAre DEF FlowsInv
<1>7. g \in Pending(flows', t)
  <2>1. Copies(flows', g) > 0
    BY <1>1, <1>3, <1>5, <1>6 DEF One
  <2>2. g \in BagToSet(flows')
    BY <2>1, <1>5, CopiesAre
  <2> QED
    BY <2>2, <1>3 DEF Pending, Underway
<1>8. Tidy(board') /\ DragTyped' /\ SessionsTyped'
  BY <1>1 DEF FlowsInv, DragTyped, SessionsTyped
<1>9. Noted /\ \A u : Clear(u)' => Clear(u)
  BY <1>1, Noting DEF Remembered
<1>10. ASSUME NEW u \in Tasks, u # t PROVE Calm(u)
  <2>1. \A h \in {f, g} : h.task # u
    BY <1>3, <1>10
  <2>2. /\ Pending(flows', u) = Pending(flows, u)
        /\ \A h \in Pending(flows, u) : Copies(flows', h) = Copies(flows, h)
        /\ Closing(flows, u) => Closing(flows', u)
    BY <1>5, <2>1, FlowsCalm DEF FlowsInv
  <2> QED
    BY <1>1, <1>9, <2>2 DEF Calm
<1>11. /\ Answering(flows, t) => Answering(flows', t)
       /\ Closing(flows, t) => Closing(flows', t)
  <2>1. \A h \in {f, g} : h \in BagToSet(flows') \/ (h.at \notin Underway /\ h.at # "linking")
    BY <1>1, <1>7 DEF Pending, Underway
  <2> QED
    BY <2>1, <1>5, Retained DEF FlowsInv
<1> HIDE DEF t
<1>12. ToldOf(t)'
  BY <1>1, <1>2, <1>9, <1>11 DEF ToldOf
<1>13. Own(t)'
  <2> SUFFICES ASSUME Clear(t)'
               PROVE  LiveIsHeld(t)' /\ OneStart(t)' /\ AheadIsDown(t)' /\ StartIsShown(t)'
                      /\ QuietIsDown(t)'
    BY DEF Own
  <2>1. /\ ColumnOf(board', t) \notin {"trash", "none"}
        /\ ~(drag' # None /\ drag'.task = t /\ drag'.to = "trash")
        /\ \A h \in BagToSet(flows') : h.task = t => h = g
    BY <1>2, <1>5, <1>7, <1>9, Alone
  <2>2. \A h \in Pending(flows', t) : ~Ahead(h)
    BY <2>1, <1>4 DEF Pending
  <2>3. LiveIsHeld(t)'
    BY <1>1, <1>2, <1>9, <1>11 DEF Own, LiveIsHeld
  <2>4. OneStart(t)' /\ AheadIsDown(t)'
    BY <2>2 DEF OneStart, AheadIsDown
  <2>5. StartIsShown(t)'
    BY <2>1 DEF StartIsShown
  <2>6. QuietIsDown(t)'
    BY <2>1, <1>8 DEF QuietIsDown, DragTyped
  <2> QED
    BY <2>3, <2>4, <2>5, <2>6
<1> QED
  BY <1>5, <1>8, <1>10, <1>12, <1>13, CalmStep

\* A flow begins beside others that are neither starting nor finishing a task.
Beside(S, g) ==
  Only(S \cup {g}) /\ \A f \in S : f.at \notin Underway /\ f.at # "linking"
BeginsAs(g) ==
  /\ FlowBag(flows') /\ Copies(flows', g) = Copies(flows, g) + 1
  /\ \E S : Beside(S, g)

\* A flow that has begun is under way.
LEMMA BegunIn == ASSUME FlowBag(flows), NEW g, BeginsAs(g) PROVE g \in BagToSet(flows')
<1>1. Copies(flows, g) \in Nat
  BY CopiesAre
<1>2. Copies(flows', g) > 0 /\ FlowBag(flows')
  BY <1>1 DEF BeginsAs
<1> QED
  BY <1>2, CopiesAre

\* What beginning a flow leaves to the other tasks.
LEMMA BeginsCalm ==
  ASSUME FlowBag(flows), NEW g, BeginsAs(g), NEW t
  PROVE  /\ Retains(t)
         /\ Answering(flows, t) => Answering(flows', t)
         /\ Closing(flows, t) => Closing(flows', t)
         /\ t # g.task => /\ Pending(flows', t) = Pending(flows, t)
                          /\ \A f \in Pending(flows, t) : Copies(flows', f) = Copies(flows, f)
<1>1. PICK S : Only(S \cup {g}) /\ \A f \in S : f.at \notin Underway /\ f.at # "linking"
  BY DEF BeginsAs, Beside
<1>2. FlowBag(flows') /\ g \in BagToSet(flows')
  BY BegunIn DEF BeginsAs
<1> DEFINE Z == S \cup {g}
<1>3. Only(Z) /\ \A f \in Z : f \in BagToSet(flows') \/ (f.at \notin Underway /\ f.at # "linking")
  BY <1>1, <1>2
<1>4. t # g.task => \A f \in Z : f.task = t => f.at \notin Underway
  BY <1>1
<1> HIDE DEF Z
<1>5. /\ Retains(t)
      /\ Answering(flows, t) => Answering(flows', t)
      /\ Closing(flows, t) => Closing(flows', t)
  BY <1>2, <1>3, Retained
<1>6. t # g.task => /\ Pending(flows', t) = Pending(flows, t)
                    /\ \A f \in Pending(flows, t) : Copies(flows', f) = Copies(flows, f)
  BY <1>2, <1>3, <1>4, FlowsCalm
<1> QED
  BY <1>5, <1>6

\* A start begins, and has its card moved from where it waited.
LEMMA StartKeeps ==
  ASSUME FlowsInv, NEW t \in Tasks, NEW g, FlowTyped(g), g.task = t, g.at = "ensuring", Ahead(g),
         BeginsAs(g), Noted, \A u : Clear(u)' => Clear(u), Tidy(board'),
         ColumnOf(board, t) \in {"backlog", "trash"},
         ColumnOf(board', t) \in {"in_progress", "review"},
         \A u \in Tasks \ {t} : ColumnOf(board', u) = ColumnOf(board, u),
         session' = session, shown' = shown,
         DragTyped', drag' # drag => drag' = None \/ ~drag'.quiet
  PROVE  FlowsInv'
<1>1. FlowBag(flows) /\ Own(t) /\ ToldOf(t)
  BY DEF FlowsInv
<1>2. FlowBag(flows') /\ Copies(flows', g) = Copies(flows, g) + 1
  BY DEF BeginsAs
<1>3. SessionsTyped'
  BY DEF FlowsInv, SessionsTyped
<1>4. ASSUME NEW u \in Tasks, u # t PROVE Calm(u)
  <2>1. /\ Closing(flows, u) => Closing(flows', u)
        /\ Pending(flows', u) = Pending(flows, u)
        /\ \A f \in Pending(flows, u) : Copies(flows', f) = Copies(flows, f)
    BY <1>1, <1>4, BeginsCalm
  <2>2. ColumnOf(board', u) = ColumnOf(board, u)
    BY <1>4
  <2> QED
    BY <2>1, <2>2 DEF Calm
<1>5. Retains(t) /\ (Answering(flows, t) => Answering(flows', t))
  BY <1>1, BeginsCalm
<1>6. ToldOf(t)'
  BY <1>1, <1>5 DEF ToldOf
<1>7. Own(t)'
  BY <1>1, <1>2, <1>5, BegunOwn
<1> QED
  BY <1>2, <1>3, <1>4, <1>6, <1>7, CalmStep

\* A flow that begins by itself.
LEMMA BeginsIs ==
  ASSUME FlowBag(flows), NEW g, FlowTyped(g), Begins(g)
  PROVE  BeginsAs(g)
<1>1. /\ FlowBag(flows') /\ Only({g})
      /\ \A h : Copies(flows', h) = Copies(flows, h) + One(h, g)
  BY BeginsOnly
<1>2. Copies(flows', g) = Copies(flows, g) + 1
  BY <1>1 DEF One
<1>3. Beside({}, g)
  <2>1. {} \cup {g} = {g}
    OBVIOUS
  <2> QED
    BY <1>1, <2>1 DEF Beside
<1> QED
  BY <1>1, <1>2, <1>3 DEF BeginsAs

\* A flow that another one becomes, which neither started nor closed a task.
LEMMA GoesIs ==
  ASSUME FlowBag(flows), NEW f \in BagToSet(flows), NEW g, FlowTyped(g), Goes(f, g),
         f.at \notin Underway, f.at # "linking", f # g
  PROVE  BeginsAs(g)
<1>1. /\ FlowBag(flows') /\ Only({f, g})
      /\ \A h : Copies(flows', h) = Copies(flows, h) - One(h, f) + One(h, g)
  BY GoesOnly
<1>2. Only({f} \cup {g})
  <2>1. {f} \cup {g} = {f, g}
    OBVIOUS
  <2> QED
    BY <2>1, <1>1
<1>3. \A h \in {f} : h.at \notin Underway /\ h.at # "linking"
  OBVIOUS
<1>4. Copies(flows, g) \in Nat
  BY CopiesAre
<1>5. Copies(flows', g) = Copies(flows, g) + 1
  BY <1>1, <1>4 DEF One
<1>6. Beside({f}, g)
  BY <1>2, <1>3 DEF Beside
<1> QED
  BY <1>1, <1>5, <1>6 DEF BeginsAs

\* A start behind the details of another card moves its own at once.
LEMMA AskStartCoveredKeeps ==
  ASSUME FlowsInv, NEW f \in BagToSet(flows), AskStartCovered(f)
  PROVE  FlowsInv'
<1> DEFINE t == f.task
           g == [f EXCEPT !.at = "ensuring", !.route = "covered"]
<1>1. /\ f.kind = "start" /\ f.at = "asking" /\ Remembered
      /\ session' = session /\ shown' = shown /\ drag' = drag
  BY DEF AskStartCovered, At, server, told, page
<1>2. FlowTyped(f) /\ f \in FlowRecords /\ t \in Tasks /\ FlowBag(flows) /\ Tidy(board)
  BY DEF FlowsInv, FlowBag, FlowTyped, FlowRecords
<1>3. f.at \notin Underway /\ f.at # "linking"
  BY <1>1 DEF Underway
<1>4. Noted /\ \A u : Clear(u)' => Clear(u)
  BY <1>1, Noting DEF Remembered
<1>5. CASE ColumnOf(board, t) = "backlog"
  <2>1. board' = MoveTo(board, t, "in_progress", TRUE) /\ Goes(f, g)
    BY <1>5 DEF AskStartCovered
  <2>2. /\ g \in FlowRecords /\ g.at = "ensuring" /\ g.kind = "start" /\ g.task = t
        /\ g.route = "covered"
    BY <1>1, <1>2 DEF FlowRecords
  <2> HIDE DEF g
  <2>3. FlowTyped(g) /\ Ahead(g) /\ f # g
    BY <2>2, <1>1 DEF FlowTyped, Ahead
  <2>4. BeginsAs(g)
    BY <1>2, <1>3, <2>1, <2>3, GoesIs
  <2>5. /\ Tidy(board') /\ ColumnOf(board', t) = "in_progress"
        /\ \A u \in Tasks \ {t} : ColumnOf(board', u) = ColumnOf(board, u)
    <3>1. "in_progress" \in Columns /\ TRUE \in BOOLEAN /\ ColumnOf(board, t) # "none"
      BY <1>5 DEF Columns
    <3> HIDE DEF t
    <3> QED
      BY <3>1, <1>2, <2>1, Moved
  <2>6. DragTyped'
    BY <1>1 DEF FlowsInv, DragTyped
  <2>7. ColumnOf(board, t) \in {"backlog", "trash"} /\ ColumnOf(board', t) \in {"in_progress", "review"}
    BY <1>5, <2>5
  <2> HIDE DEF t
  <2> QED
    BY <1>1, <1>2, <1>4, <2>2, <2>3, <2>4, <2>5, <2>6, <2>7, StartKeeps
<1>6. CASE ColumnOf(board, t) # "backlog"
  <2>1. Ends(f) /\ board' = board
    BY <1>6 DEF AskStartCovered
  <2>2. FlowBag(flows') /\ Only({f})
    BY <1>2, <2>1, EndsOnly
  <2>3. \A h \in {f} : h.at \notin Underway /\ h.at # "linking"
    BY <1>3
  <2> QED
    BY <1>1, <1>4, <2>1, <2>2, <2>3, SteadyFlow
<1> QED
  BY <1>5, <1>6

\* A task is taken back from the trash, by a drag or at once.
LEMMA OrderRestoreKeeps ==
  ASSUME FlowsInv, NEW t \in Tasks, OrderRestore(t)
  PROVE  FlowsInv'
<1> DEFINE g == Flow("restore", t, "ensuring")
<1>1. /\ ColumnOf(board, t) = "trash" /\ session' = session /\ shown' = shown
  BY DEF OrderRestore, server, told
<1>2. \/ /\ Lift(t, "trash", "review", FALSE)
         /\ board' = board /\ flows' = flows /\ crossed' = crossed /\ mixed' = mixed /\ failed' = failed
      \/ /\ drag' = drag /\ board' = MoveTo(board, t, "review", TRUE)
         /\ Begins(g) /\ Remembered
  BY DEF OrderRestore, Unavailable, history
<1>3. Tidy(board) /\ FlowBag(flows)
  BY DEF FlowsInv
<1>4. CASE /\ Lift(t, "trash", "review", FALSE)
           /\ board' = board /\ flows' = flows /\ crossed' = crossed /\ mixed' = mixed /\ failed' = failed
  <2>1. drag' = Lifted(t, "review", TRUE, FALSE) /\ ColumnOf(board, t) # "none"
    BY <1>1, <1>4 DEF Lift
  <2>2. "review" \in {"in_progress", "review", "trash"} /\ TRUE \in BOOLEAN /\ FALSE \in BOOLEAN
    OBVIOUS
  <2>3. DragTyped' /\ drag'.quiet = FALSE
    BY <2>1, <2>2, LiftedIs
  <2>4. FlowBag(flows') /\ Only({})
    BY <1>3, <1>4, FlowsStay
  <2>5. \A u : Clear(u)' => Clear(u)
    BY <1>4 DEF Clear
  <2>6. Tidy(board') /\ \A u \in Tasks : ColumnOf(board', u) = ColumnOf(board, u)
    BY <1>3, <1>4
  <2> QED
    BY <1>1, <2>3, <2>4, <2>5, <2>6, SteadyStep
<1>5. CASE /\ drag' = drag /\ board' = MoveTo(board, t, "review", TRUE)
           /\ Begins(g) /\ Remembered
  <2>1. g \in FlowRecords /\ g.at = "ensuring" /\ g.kind = "restore" /\ g.task = t
    BY NewFlow
  <2> HIDE DEF g
  <2>2. FlowTyped(g) /\ Ahead(g)
    BY <2>1 DEF FlowTyped, Ahead
  <2>3. BeginsAs(g)
    BY <1>3, <1>5, <2>2, BeginsIs
  <2>4. /\ Tidy(board') /\ ColumnOf(board', t) = "review"
        /\ \A u \in Tasks \ {t} : ColumnOf(board', u) = ColumnOf(board, u)
    <3>1. "review" \in Columns /\ TRUE \in BOOLEAN /\ ColumnOf(board, t) # "none"
      BY <1>1 DEF Columns
    <3> QED
      BY <3>1, <1>3, <1>5, Moved
  <2>5. DragTyped'
    BY <1>5 DEF FlowsInv, DragTyped
  <2>6. Noted /\ \A u : Clear(u)' => Clear(u)
    BY <1>5, Noting DEF Remembered
  <2>7. ColumnOf(board, t) \in {"backlog", "trash"} /\ ColumnOf(board', t) \in {"in_progress", "review"}
    BY <1>1, <2>4
  <2> QED
    BY <1>1, <1>5, <2>1, <2>2, <2>3, <2>4, <2>5, <2>6, <2>7, StartKeeps
<1> QED
  BY <1>2, <1>4, <1>5

(***************************************************************************)
(* Orders for a whole column.                                              *)
(***************************************************************************)
\* Flows that begin for the cards of a column.
LEMMA FlowsOf ==
  ASSUME NEW cards \in Seq(Tasks), NEW G, NEW Z,
         Z = {G[t] : t \in Range(cards)},
         \A t \in Range(cards) : FlowTyped(G[t]),
         FlowBag(flows), flows' = flows (+) SetToBag(Z)
  PROVE  /\ FlowBag(flows') /\ Only(Z)
         /\ \A h : Copies(flows', h) = Copies(flows, h) + IF h \in Z THEN 1 ELSE 0
         /\ \A h \in Z : h \in BagToSet(flows')
<1> DEFINE R == Range(cards)
           f == [t \in R |-> G[t]]
<1>1. IsFiniteSet(R)
  <2>1. R \in SUBSET Tasks
    BY Members
  <2> HIDE DEF R
  <2> QED
    BY <2>1, BoardAssumption, FS_Subset
<1>2. f \in Surjection(R, Z)
  BY DEF Surjection
<1> HIDE DEF f
<1>3. IsFiniteSet(Z)
  <2> HIDE DEF R
  <2> QED
    BY <1>1, <1>2, FS_Surjection
<1>4. \A h \in Z : FlowTyped(h)
  OBVIOUS
<1>5. /\ FlowBag(flows')
      /\ \A h : Copies(flows', h) = Copies(flows, h) + IF h \in Z THEN 1 ELSE 0
  BY <1>3, <1>4, AddedAll
<1>6. \A h : Copies(flows, h) \in Nat
  BY CopiesAre
<1>7. Only(Z)
  BY <1>5, <1>6 DEF Only
<1>8. \A h \in Z : h \in BagToSet(flows')
  <2>1. \A h \in Z : Copies(flows', h) > 0
    BY <1>5, <1>6
  <2> QED
    BY <2>1, <1>5, CopiesAre
<1> QED
  BY <1>5, <1>7, <1>8

\* Every card of the backlog is started.
LEMMA OrderStartAllKeeps ==
  ASSUME FlowsInv, OrderStartAll
  PROVE  FlowsInv'
<1> DEFINE cards == board.columns["backlog"]
           to == [t \in Tasks |-> "in_progress"]
           G == [t \in Tasks |-> [Flow("start", t, "ensuring") EXCEPT !.route = "covered"]]
           Z == {G[t] : t \in Range(cards)}
<1>1. /\ board' = MoveAll(board, cards, to) /\ Remembered
      /\ session' = session /\ shown' = shown /\ drag' = drag
  BY DEF OrderStartAll, server, told, page
<1>2. Tidy(board) /\ FlowBag(flows)
  BY DEF FlowsInv
<1>3. cards \in Seq(Tasks)
  BY <1>2 DEF Tidy, PageBoards, Columns
<1>4. Range(cards) \subseteq Tasks
  BY <1>3, Members
<1>5. \A t \in Tasks : t \in Range(cards) <=> ColumnOf(board, t) = "backlog"
  BY <1>2, ColumnIs DEF Columns
<1>6. \A t \in Tasks : /\ G[t] \in FlowRecords /\ G[t].task = t /\ G[t].at = "ensuring"
                       /\ G[t].route = "covered" /\ G[t].kind = "start"
  BY DEF Flow, FlowRecords
<1>7. flows' = flows (+) SetToBag(Z)
  <2>1. Z = {[Flow("start", t, "ensuring") EXCEPT !.route = "covered"] : t \in Range(cards)}
    BY <1>4
  <2> QED
    BY <2>1 DEF OrderStartAll
<1>8. \A t \in Range(cards) : to[t] \in Columns
  BY <1>4 DEF Columns
<1> HIDE DEF cards, to, G
<1>9. /\ Tidy(board')
      /\ \A u \in Tasks : ColumnOf(board', u) =
           IF u \in Range(cards) /\ ColumnOf(board, u) # "none" THEN to[u] ELSE ColumnOf(board, u)
  BY <1>1, <1>2, <1>3, <1>8, MovedAll
<1>10. \A t \in Tasks : FlowTyped(G[t]) /\ Ahead(G[t])
  BY <1>6 DEF FlowTyped, Ahead
<1>11. \A t \in Range(cards) : FlowTyped(G[t])
  BY <1>4, <1>10
<1>12. /\ FlowBag(flows') /\ Only(Z)
       /\ \A h : Copies(flows', h) = Copies(flows, h) + IF h \in Z THEN 1 ELSE 0
       /\ \A h \in Z : h \in BagToSet(flows')
  BY <1>2, <1>3, <1>7, <1>11, FlowsOf
<1>13. Noted /\ \A u : Clear(u)' => Clear(u)
  BY <1>1, Noting DEF Remembered
<1>14. DragTyped' /\ SessionsTyped'
  BY <1>1 DEF FlowsInv, DragTyped, SessionsTyped
<1>15. \A h \in Z : h \in BagToSet(flows') \/ (h.at \notin Underway /\ h.at # "linking")
  BY <1>12
<1>16. \A h \in Z : h.task \in Range(cards)
  BY <1>4, <1>6
<1>17. \A t \in Range(cards) : G[t] \in Z
  OBVIOUS
<1> HIDE DEF Z
<1>18. ASSUME NEW u \in Tasks, u \notin Range(cards) PROVE Calm(u)
  <2>1. \A h \in Z : h.task # u
    BY <1>16, <1>18
  <2>2. /\ Pending(flows', u) = Pending(flows, u)
        /\ \A h \in Pending(flows, u) : Copies(flows', h) = Copies(flows, h)
        /\ Closing(flows, u) => Closing(flows', u)
    BY <1>2, <1>12, <2>1, FlowsCalm
  <2>3. ColumnOf(board', u) = ColumnOf(board, u)
    BY <1>9, <1>18
  <2> QED
    BY <1>1, <1>13, <2>2, <2>3 DEF Calm
<1>19. ASSUME NEW u \in Range(cards) PROVE Own(u)' /\ ToldOf(u)'
  <2>1. u \in Tasks /\ ColumnOf(board, u) = "backlog"
    BY <1>4, <1>5
  <2>2. ColumnOf(board', u) = "in_progress"
    BY <1>9, <2>1 DEF to
  <2>3. Retains(u) /\ (Answering(flows, u) => Answering(flows', u))
    BY <1>2, <1>12, <1>15, Retained
  <2>4. Own(u) /\ ToldOf(u)
    BY <2>1 DEF FlowsInv
  <2>5. ToldOf(u)'
    BY <1>1, <1>13, <2>3, <2>4 DEF ToldOf
  <2> DEFINE g == G[u]
  <2>6. /\ FlowTyped(g) /\ Ahead(g) /\ g.task = u /\ g.at = "ensuring"
        /\ Copies(flows', g) = Copies(flows, g) + 1
    <3>1. g \in Z
      BY <1>17
    <3> QED
      BY <3>1, <1>6, <1>10, <1>12, <2>1
  <2> HIDE DEF g
  <2>7. Own(u)'
    BY <1>1, <1>2, <1>12, <1>13, <1>14, <2>1, <2>2, <2>3, <2>4, <2>6, BegunOwn
  <2> QED
    BY <2>5, <2>7
<1> QED
  BY <1>9, <1>12, <1>14, <1>18, <1>19, CalmStep

\* The trash is emptied: its tasks are gone, and their flows stop what runs.
LEMMA OrderClearKeeps ==
  ASSUME FlowsInv, OrderClear
  PROVE  FlowsInv'
<1> DEFINE cards == board.columns["trash"]
           G == [t \in Tasks |-> Flow("done", t, "linking")]
           Z == {G[t] : t \in Range(cards)}
<1>1. /\ board' = Relinked([board EXCEPT !.columns["trash"] = <<>>]) /\ Remembered
      /\ session' = session /\ drag' = drag
      /\ shown' = [t \in Tasks |-> IF Contains(cards, t) THEN "none" ELSE shown[t]]
  BY DEF OrderClear, server
<1>2. Tidy(board) /\ FlowBag(flows) /\ SessionsTyped
  BY DEF FlowsInv
<1>3. cards \in Seq(Tasks)
  BY <1>2 DEF Tidy, PageBoards, Columns
<1>4. Range(cards) \subseteq Tasks /\ \A t : Contains(cards, t) <=> t \in Range(cards)
  BY <1>3, Members
<1>5. \A t \in Tasks : t \in Range(cards) <=> ColumnOf(board, t) = "trash"
  BY <1>2, ColumnIs DEF Columns
<1>6. \A t \in Tasks : /\ G[t] \in FlowRecords /\ G[t].task = t /\ G[t].at = "linking"
                       /\ G[t].kind = "done" /\ G[t].route = "plain"
  BY DEF Flow, FlowRecords
<1>7. flows' = flows (+) SetToBag(Z)
  <2>1. Z = {Flow("done", t, "linking") : t \in Range(cards)}
    BY <1>4
  <2> QED
    BY <2>1 DEF OrderClear
<1> HIDE DEF cards, G
<1>8. /\ Tidy(board')
      /\ \A u \in Tasks : ColumnOf(board', u) =
           IF ColumnOf(board, u) = "trash" THEN "none" ELSE ColumnOf(board, u)
  BY <1>1, <1>2, Emptied
<1>9. \A t \in Range(cards) : FlowTyped(G[t])
  BY <1>4, <1>6 DEF FlowTyped, Underway
<1>10. /\ FlowBag(flows') /\ Only(Z) /\ \A h \in Z : h \in BagToSet(flows')
  BY <1>2, <1>3, <1>7, <1>9, FlowsOf
<1>11. Noted /\ \A u : Clear(u)' => Clear(u)
  BY <1>1, Noting DEF Remembered
<1>12. DragTyped' /\ SessionsTyped'
  <2>1. DragTyped'
    BY <1>1 DEF FlowsInv, DragTyped
  <2>2. SessionsTyped'
    BY <1>1, <1>2 DEF SessionsTyped, States
  <2> QED
    BY <2>1, <2>2
<1>13. \A h \in Z : h.task \in Range(cards)
  BY <1>4, <1>6
<1>14. \A t \in Range(cards) : G[t] \in Z
  OBVIOUS
<1> HIDE DEF Z
<1>15. ASSUME NEW u \in Tasks, u \notin Range(cards) PROVE Calm(u)
  <2>1. \A h \in Z : h.task # u
    BY <1>13, <1>15
  <2>2. /\ Pending(flows', u) = Pending(flows, u)
        /\ \A h \in Pending(flows, u) : Copies(flows', h) = Copies(flows, h)
        /\ Closing(flows, u) => Closing(flows', u)
    BY <1>2, <1>10, <2>1, FlowsCalm
  <2>3. ColumnOf(board', u) = ColumnOf(board, u) /\ shown'[u] = shown[u]
    BY <1>1, <1>4, <1>5, <1>8, <1>15
  <2> QED
    BY <1>1, <1>11, <2>2, <2>3 DEF Calm
<1>16. ASSUME NEW u \in Range(cards) PROVE Own(u)' /\ ToldOf(u)'
  <2>1. u \in Tasks /\ ColumnOf(board', u) = "none"
    BY <1>4, <1>5, <1>8
  <2>2. ToldOf(u)'
    <3>1. shown'[u] = "none"
      BY <1>1, <1>4, <2>1
    <3> QED
      BY <3>1 DEF ToldOf
  <2>3. Closing(flows', u)
    <3>1. G[u] \in BagToSet(flows')
      BY <1>10, <1>14
    <3>2. G[u].kind = "done" /\ G[u].at = "linking" /\ G[u].task = u
      BY <1>6, <2>1
    <3> QED
      BY <3>1, <3>2 DEF Closing, At
  <2>4. Clear(u)' =>
          (drag' # None /\ drag'.task = u /\ drag'.quiet => session'[u] \notin Live)
    BY <1>1, <1>11, <2>1 DEF FlowsInv, Own, QuietIsDown
  <2>5. Own(u)'
    BY <1>10, <1>11, <2>1, <2>3, <2>4, DoneOwn
  <2> QED
    BY <2>2, <2>5
<1> QED
  BY <1>8, <1>10, <1>12, <1>15, <1>16, CalmStep

(***************************************************************************)
(* Drops.                                                                  *)
(***************************************************************************)
\* The same flow, but for what it belongs to.
Like(h, g) ==
  FlowTyped(h) /\ h.kind = g.kind /\ h.task = g.task /\ h.at = g.at /\ h.route = g.route

\* What a drop begins, with a flow of its own or with the one that waited for it.
LEMMA ContinuesAs ==
  ASSUME FlowsInv, NEW g, FlowTyped(g), g.at \in {"ensuring", "linking"}, Continues(g)
  PROVE  \E h : Like(h, g) /\ BeginsAs(h)
<1> DEFINE own == {f \in Animating : f.kind = g.kind}
<1>1. FlowBag(flows)
  BY DEF FlowsInv
<1>2. CASE own = {}
  <2>1. Begins(g)
    BY <1>2 DEF Continues
  <2>2. BeginsAs(g)
    BY <1>1, <2>1, BeginsIs
  <2>3. Like(g, g)
    BY DEF Like
  <2> QED
    BY <2>2, <2>3
<1>3. CASE own # {}
  <2> DEFINE f == CHOOSE f \in own : TRUE
  <2>1. f \in own
    BY <1>3
  <2>2. IF g.task = drag.task THEN Goes(f, [g EXCEPT !.by = f.by, !.auto = f.auto])
        ELSE flows' = BagAdd(BagAdd(BagRemove(flows, f), [f EXCEPT !.at = "lapsing"]), g)
    BY <1>3 DEF Continues
  <2>3. f \in BagToSet(flows) /\ f.at = "animating"
    BY <2>1 DEF Animating
  <2> HIDE DEF f, own
  <2>4. FlowTyped(f) /\ f \in FlowRecords /\ f.at \notin Underway /\ f.at # "linking"
    BY <1>1, <2>3 DEF FlowBag, FlowTyped, Underway
  <2>5. CASE g.task = drag.task
    <3> DEFINE h == [g EXCEPT !.by = f.by, !.auto = f.auto]
    <3>1. Goes(f, h)
      BY <2>2, <2>5
    <3>2. /\ h \in FlowRecords /\ h.kind = g.kind /\ h.task = g.task /\ h.at = g.at
          /\ h.route = g.route
      <4>1. f.by \in Tasks \cup {None} /\ f.auto \in BOOLEAN /\ g \in FlowRecords
        BY <2>4 DEF FlowRecords, FlowTyped
      <4> QED
        BY <4>1 DEF FlowRecords
    <3> HIDE DEF h
    <3>3. FlowTyped(h) /\ h # f
      BY <2>3, <3>2 DEF FlowTyped
    <3>4. BeginsAs(h)
      BY <1>1, <2>3, <2>4, <3>1, <3>3, GoesIs
    <3>5. Like(h, g)
      BY <3>2, <3>3 DEF Like
    <3> QED
      BY <3>4, <3>5
  <2>6. CASE g.task # drag.task
    <3> DEFINE x == [f EXCEPT !.at = "lapsing"]
               rest == BagAdd(BagRemove(flows, f), x)
    <3>1. flows' = BagAdd(rest, g)
      BY <2>2, <2>6
    <3>2. x \in FlowRecords /\ x.at = "lapsing"
      BY <2>4, SetAt
    <3> HIDE DEF x
    <3>3. FlowTyped(x) /\ x.at \notin Underway /\ x.at # "linking"
      BY <3>2 DEF FlowTyped, Underway
    <3>4. FlowBag(rest) /\ \A h : Copies(rest, h) = Copies(flows, h) - One(h, f) + One(h, x)
      BY <1>1, <2>3, <3>3, Replacing
    <3> HIDE DEF rest
    <3>5. FlowBag(flows') /\ \A h : Copies(flows', h) = Copies(rest, h) + One(h, g)
      BY <3>1, <3>4, Added
    <3>6. \A h : Copies(flows, h) \in Nat
      BY <1>1, CopiesAre
    <3>7. g # f /\ g # x
      BY <2>3, <3>2
    <3>8. \A h : Copies(flows', h) = Copies(flows, h) - One(h, f) + One(h, x) + One(h, g)
      BY <3>4, <3>5
    <3>9. Copies(flows', g) = Copies(flows, g) + 1
      BY <3>6, <3>7, <3>8 DEF One
    <3>10. Only({f, x} \cup {g})
      BY <3>6, <3>8 DEF Only, One
    <3>11. Beside({f, x}, g)
      BY <2>4, <3>3, <3>10 DEF Beside
    <3>12. BeginsAs(g)
      BY <3>5, <3>9, <3>11 DEF BeginsAs
    <3>13. Like(g, g)
      BY DEF Like
    <3> QED
      BY <3>12, <3>13
  <2> QED
    BY <2>5, <2>6
<1> QED
  BY <1>2, <1>3

\* What a drop does, for the card it takes.
Dropping(t, to, n) ==
  LET done == [Flow("done", t, "linking") EXCEPT !.ready = Unblocked(t)]
      strays == IF t = drag.task THEN {} ELSE {t, drag.task}
      loud == to = "trash" /\ ~drag.quiet
  IN  /\ Remember(IF loud THEN Ready(board, t) ELSE {}, strays, strays)
      /\ CASE loud -> Continues(done)
           [] to = "review" /\ drag.from = "trash" -> Continues(Flow("restore", t, "ensuring"))
           [] to = "in_progress" /\ drag.from = "backlog" ->
                Continues([Flow("start", t, "ensuring") EXCEPT !.route = "animated"])
           [] OTHER -> flows' = flows

\* Where a drop leaves the board, and the card it took.
LEMMA DroppedIs ==
  ASSUME FlowsInv, NEW to \in {"in_progress", "review", "trash"}, NEW n, Drop(to, n)
  PROVE  /\ drag # None /\ drag' = None
         /\ session' = session /\ shown' = shown /\ Tidy(board')
         /\ \E t \in Tasks :
              /\ Dropping(t, to, n) /\ ColumnOf(board, t) = drag.from
              /\ ColumnOf(board', t) = to
              /\ \A u \in Tasks \ {t} : ColumnOf(board', u) = ColumnOf(board, u)
<1>1. /\ drag # None /\ Dropped /\ n \in 1 .. Len(board.columns[to]) + 1 /\ to # drag.from
      /\ board' = Reordered(to, n) /\ drag' = None
      /\ session' = session /\ shown' = shown
  BY DEF Drop, Frees, server, told
<1>2. Dropping(Card, to, n)
  BY DEF Drop, Dropping
<1>3. /\ Tidy(board) /\ drag.from \in Columns /\ drag.index \in Nat \ {0}
  BY <1>1 DEF FlowsInv, DragTyped
<1>4. drag.index \in 1 .. Len(board.columns[drag.from])
  <2>1. board.columns[drag.from] \in Seq(Tasks)
    BY <1>3 DEF Tidy, PageBoards
  <2>2. Len(board.columns[drag.from]) \in Nat
    BY <2>1
  <2> QED
    BY <1>1, <1>3, <2>2 DEF Dropped
<1>5. to \in Columns
  BY DEF Columns
<1>6. /\ Card \in Tasks /\ ColumnOf(board, Card) = drag.from
      /\ Tidy(board') /\ ColumnOf(board', Card) = to
      /\ \A u \in Tasks \ {Card} : ColumnOf(board', u) = ColumnOf(board, u)
  <2>1. /\ Card \in Tasks /\ ColumnOf(board, Card) = drag.from
        /\ Tidy(Reordered(to, n))
        /\ ColumnOf(Reordered(to, n), Card) = to
        /\ \A u \in Tasks \ {Card} : ColumnOf(Reordered(to, n), u) = ColumnOf(board, u)
    BY <1>1, <1>3, <1>4, <1>5, Dragged
  <2> QED
    BY <1>1, <2>1
<1> QED
  BY <1>1, <1>2, <1>6

\* A drop begins the flow its columns call for; a quiet one to the trash is of a task
\* whose session had ended, unless another card was taken in its place.
LEMMA DropKeeps ==
  ASSUME FlowsInv, NEW to \in {"in_progress", "review", "trash"}, NEW n, Drop(to, n)
  PROVE  FlowsInv'
<1>1. /\ drag # None /\ drag' = None
      /\ session' = session /\ shown' = shown /\ Tidy(board')
  BY DroppedIs
<1>2. PICK t \in Tasks :
        /\ Dropping(t, to, n) /\ ColumnOf(board, t) = drag.from
        /\ ColumnOf(board', t) = to
        /\ \A u \in Tasks \ {t} : ColumnOf(board', u) = ColumnOf(board, u)
  BY DroppedIs
<1> DEFINE strays == IF t = drag.task THEN {} ELSE {t, drag.task}
           done == [Flow("done", t, "linking") EXCEPT !.ready = Unblocked(t)]
           restore == Flow("restore", t, "ensuring")
           start == [Flow("start", t, "ensuring") EXCEPT !.route = "animated"]
<1>3. /\ Tidy(board) /\ FlowBag(flows)
  BY DEF FlowsInv
<1>4. /\ to = "trash" /\ ~drag.quiet => Continues(done)
      /\ to = "review" /\ drag.from = "trash" => Continues(restore)
      /\ to = "in_progress" /\ drag.from = "backlog" => Continues(start)
      /\ ~(to = "trash" /\ ~drag.quiet) /\ ~(to = "review" /\ drag.from = "trash")
           /\ ~(to = "in_progress" /\ drag.from = "backlog") => flows' = flows
  <2> HIDE DEF done, restore, start
  <2>1. (CASE to = "trash" /\ ~drag.quiet -> Continues(done)
           [] to = "review" /\ drag.from = "trash" -> Continues(restore)
           [] to = "in_progress" /\ drag.from = "backlog" -> Continues(start)
           [] OTHER -> flows' = flows)
    BY <1>2 DEF Dropping, done, restore, start
  <2> QED
    BY <2>1
<1>5. /\ t \in Tasks /\ ColumnOf(board, t) = drag.from
      /\ Tidy(board') /\ ColumnOf(board', t) = to
      /\ \A u \in Tasks \ {t} : ColumnOf(board', u) = ColumnOf(board, u)
  BY <1>1, <1>2
<1>6. \E new : Remember(new, strays, strays)
  BY <1>2 DEF Dropping
<1> HIDE DEF done, restore, start, strays
<1>8. Noted /\ mixed' = mixed \cup strays /\ \A u : Clear(u)' => Clear(u)
  BY <1>6, Noting
<1>9. DragTyped' /\ SessionsTyped'
  BY <1>1 DEF FlowsInv, DragTyped, SessionsTyped
<1>10. drag' # drag => drag' = None \/ ~drag'.quiet
  BY <1>1
<1>11. Own(t) /\ ToldOf(t)
  BY <1>5 DEF FlowsInv
<1>12. CASE to = "trash" /\ ~drag.quiet
  <2>1. Unblocked(t) \in SUBSET Tasks
    BY DEF Unblocked, Ready
  <2>2. /\ done \in FlowRecords /\ done.kind = "done" /\ done.at = "linking" /\ done.task = t
    BY <1>5, <2>1 DEF Flow, FlowRecords, done
  <2>3. Continues(done)
    BY <1>12, <1>4
  <2>4. FlowTyped(done)
    BY <2>2 DEF FlowTyped, Underway
  <2>5. PICK h : Like(h, done) /\ BeginsAs(h)
    BY <2>2, <2>3, <2>4, ContinuesAs
  <2>6. FlowTyped(h) /\ h.kind = "done" /\ h.at = "linking" /\ h.task = t
    BY <2>2, <2>5 DEF Like
  <2>7. FlowBag(flows') /\ h \in BagToSet(flows')
    BY <1>3, <2>5, BegunIn DEF BeginsAs
  <2>8. ASSUME NEW u \in Tasks, u # t PROVE Calm(u)
    <3>1. /\ Closing(flows, u) => Closing(flows', u)
          /\ Pending(flows', u) = Pending(flows, u)
          /\ \A f \in Pending(flows, u) : Copies(flows', f) = Copies(flows, f)
      BY <1>3, <2>5, <2>6, <2>8, BeginsCalm
    <3>2. ColumnOf(board', u) = ColumnOf(board, u)
      BY <1>5, <2>8
    <3> QED
      BY <1>1, <1>8, <3>1, <3>2 DEF Calm
  <2>9. ToldOf(t)'
    <3>1. Answering(flows, t) => Answering(flows', t)
      BY <1>3, <2>5, BeginsCalm
    <3> QED
      BY <1>1, <1>8, <1>11, <3>1 DEF ToldOf
  <2>10. Own(t)'
    <3>1. Closing(flows', t)
      BY <2>6, <2>7 DEF Closing, At
    <3>2. ColumnOf(board', t) = "trash"
      BY <1>5, <1>12
    <3> QED
      BY <1>1, <1>5, <1>8, <2>7, <3>1, <3>2, DoneOwn
  <2> QED
    BY <1>5, <1>9, <2>7, <2>8, <2>9, <2>10, CalmStep
<1>13. ASSUME NEW g, FlowTyped(g), g.task = t, g.at = "ensuring", Ahead(g), Continues(g),
              ColumnOf(board, t) \in {"backlog", "trash"}, to \in {"in_progress", "review"}
       PROVE  FlowsInv'
  <2>1. PICK h : Like(h, g) /\ BeginsAs(h)
    BY <1>13, ContinuesAs
  <2>2. FlowTyped(h) /\ h.task = t /\ h.at = "ensuring" /\ Ahead(h)
    BY <1>13, <2>1 DEF Like, Ahead
  <2>3. ColumnOf(board', t) \in {"in_progress", "review"}
    BY <1>5, <1>13
  <2> QED
    BY <1>1, <1>5, <1>8, <1>9, <1>10, <1>13, <2>1, <2>2, <2>3, StartKeeps
<1>14. CASE ~(to = "trash" /\ ~drag.quiet) /\ to = "review" /\ drag.from = "trash"
  <2>1. Continues(restore)
    BY <1>14, <1>4
  <2>2. restore \in FlowRecords /\ restore.task = t /\ restore.at = "ensuring" /\ restore.kind = "restore"
    BY <1>5, NewFlow DEF restore
  <2>3. FlowTyped(restore) /\ Ahead(restore)
    BY <2>2 DEF FlowTyped, Ahead
  <2>4. ColumnOf(board, t) \in {"backlog", "trash"} /\ to \in {"in_progress", "review"}
    BY <1>5, <1>14
  <2> QED
    BY <1>13, <2>1, <2>2, <2>3, <2>4
<1>15. CASE ~(to = "trash" /\ ~drag.quiet) /\ to = "in_progress" /\ drag.from = "backlog"
  <2>1. Continues(start)
    BY <1>15, <1>4
  <2>2. /\ start \in FlowRecords /\ start.task = t /\ start.at = "ensuring" /\ start.kind = "start"
        /\ start.route = "animated"
    BY <1>5 DEF Flow, FlowRecords, start
  <2>3. FlowTyped(start) /\ Ahead(start)
    BY <2>2 DEF FlowTyped, Ahead
  <2>4. ColumnOf(board, t) \in {"backlog", "trash"} /\ to \in {"in_progress", "review"}
    BY <1>5, <1>15
  <2> QED
    BY <1>13, <2>1, <2>2, <2>3, <2>4
<1>16. CASE /\ ~(to = "trash" /\ ~drag.quiet) /\ ~(to = "review" /\ drag.from = "trash")
            /\ ~(to = "in_progress" /\ drag.from = "backlog")
  <2>1. flows' = flows
    BY <1>16, <1>4
  <2>2. FlowBag(flows')
    BY <1>3, <2>1
  <2>3. ASSUME NEW u \in Tasks, u # t PROVE Calm(u)
    <3>1. ColumnOf(board', u) = ColumnOf(board, u)
      BY <1>5, <2>3
    <3> QED
      BY <1>1, <1>8, <2>1, <3>1 DEF Calm
  <2>4. ToldOf(t)'
    BY <1>1, <1>8, <1>11, <2>1 DEF ToldOf
  <2>5. CASE to = "trash"
    <3>1. ASSUME Clear(t)' PROVE session'[t] \notin Live
      <4>1. t \notin strays
        BY <1>8, <3>1 DEF Clear
      <4>2. t = drag.task
        BY <4>1 DEF strays
      <4>3. drag.quiet
        BY <1>16, <2>5
      <4> QED
        BY <1>1, <1>8, <1>11, <3>1, <4>2, <4>3 DEF Own, QuietIsDown
    <3>2. Own(t)'
      BY <1>1, <1>5, <1>8, <2>2, <2>5, <3>1, DoneOwn
    <3> QED
      BY <1>5, <1>9, <2>2, <2>3, <2>4, <3>2, CalmStep
  <2>6. CASE to \in {"in_progress", "review"}
    <3> SUFFICES Own(t)'
      BY <1>5, <1>9, <2>2, <2>3, <2>4, CalmStep
    <3> SUFFICES ASSUME Clear(t)'
                 PROVE  LiveIsHeld(t)' /\ OneStart(t)' /\ AheadIsDown(t)' /\ StartIsShown(t)'
                        /\ QuietIsDown(t)'
      BY DEF Own
    <3>1. OneStart(t) /\ AheadIsDown(t)
      BY <1>8, <1>11 DEF Own
    <3>2. LiveIsHeld(t)'
      BY <1>5, <2>6 DEF LiveIsHeld
    <3>3. OneStart(t)'
      BY <2>1, <3>1 DEF OneStart
    <3>4. AheadIsDown(t)'
      BY <1>1, <1>5, <2>1, <2>6, <3>1 DEF AheadIsDown
    <3>5. StartIsShown(t)'
      BY <1>5, <2>6 DEF StartIsShown
    <3>6. QuietIsDown(t)'
      BY <1>1 DEF QuietIsDown
    <3> QED
      BY <3>2, <3>3, <3>4, <3>5, <3>6
  <2> QED
    BY <2>5, <2>6
<1> QED
  BY <1>12, <1>14, <1>15, <1>16

\* A drop of the page's own drag, or of the user's.
LEMMA DropsKeep ==
  ASSUME FlowsInv, Glide \/ UserDrop
  PROVE  FlowsInv'
<1>1. CASE Glide
  <2>1. Drop(drag.to, 1) /\ drag.to \in {"in_progress", "review", "trash"}
    BY <1>1 DEF Glide, InFlight, FlowsInv, DragTyped
  <2>2. PICK to \in {"in_progress", "review", "trash"} : to = drag.to
    BY <2>1
  <2>3. Drop(to, 1)
    BY <2>1, <2>2
  <2> QED
    BY <2>3, DropKeeps
<1>2. CASE UserDrop
  <2>1. PICK to \in Targets(drag.from) :
          \E n \in {1, Len(board.columns[to]) + 1} : Drop(to, n)
    BY <1>2 DEF UserDrop
  <2>2. PICK n \in {1, Len(board.columns[to]) + 1} : Drop(to, n)
    BY <2>1
  <2>3. to \in {"in_progress", "review", "trash"}
    BY <2>1 DEF Targets
  <2> QED
    BY <2>2, <2>3, DropKeeps
<1> QED
  BY <1>1, <1>2

(***************************************************************************)
(* Cards that follow their sessions.                                       *)
(***************************************************************************)
\* Where a card is wanted, and why.
LEMMA WantedIs ==
  ASSUME NEW t
  PROVE  /\ Wanted(t) \in {"review", "in_progress", "trash", "none"}
         /\ Wanted(t) = "trash" => shown[t] = "interrupted"
         /\ Wanted(t) # "none" => ColumnOf(board, t) \notin {"none", "trash"}
BY DEF Wanted

\* Which cards the effect moves, and which it lifts.
LEMMA FollowIs ==
  ASSUME FlowsInv, Follow
  PROVE  /\ session' = session /\ shown' = shown /\ flows' = flows
         /\ Noted /\ \A u : Clear(u)' => Clear(u)
         /\ Tidy(board') /\ DragTyped'
         /\ \A u \in Tasks : \/ ColumnOf(board', u) = ColumnOf(board, u)
                             \/ ColumnOf(board', u) = Wanted(u) /\ Wanted(u) # "none"
         /\ \/ drag' = drag
            \/ \E t \in Tasks : /\ drag'.task = t
                                /\ drag'.quiet => Wanted(t) = "trash" /\ drag'.to = "trash"
<1>1. session' = session /\ shown' = shown /\ flows' = flows /\ Remembered
  BY DEF Follow, server, told
<1>2. Noted /\ \A u : Clear(u)' => Clear(u)
  BY <1>1, Noting DEF Remembered
<1> DEFINE to == [t \in Tasks |-> Wanted(t)]
<1>3. PICK direct \in SUBSET Behind :
        /\ board' = MoveAll(board, SetToSeq(direct), to)
        /\ drag' = drag \/ \E t \in Behind \ direct :
                             drag' = Lifted(t, Wanted(t), TRUE, Wanted(t) = "trash")
  BY DEF Follow
<1>4. direct \in SUBSET Tasks /\ \A t \in direct : Wanted(t) # "none"
  BY <1>3 DEF Behind
<1>5. IsFiniteSet(direct)
  BY <1>4, BoardAssumption, FS_Subset
<1> DEFINE cards == SetToSeq(direct)
<1>6. cards \in Seq(Tasks) /\ Range(cards) = direct
  <2>1. cards \in Seq(direct) /\ Range(cards) = direct
    BY <1>5, SetToSeqIs
  <2> HIDE DEF cards
  <2>2. cards \in Seq(Tasks)
    BY <2>1, <1>4
  <2> QED
    BY <2>1, <2>2
<1> HIDE DEF cards
<1>7. \A t \in Range(cards) : to[t] \in Columns /\ to[t] = Wanted(t)
  BY <1>4, <1>6, WantedIs DEF Columns
<1>8. board' = MoveAll(board, cards, to)
  BY <1>3 DEF cards
<1> HIDE DEF to
<1>9. /\ Tidy(board')
      /\ \A u \in Tasks : ColumnOf(board', u) =
           IF u \in Range(cards) /\ ColumnOf(board, u) # "none" THEN to[u] ELSE ColumnOf(board, u)
  <2>1. Tidy(board)
    BY DEF FlowsInv
  <2>2. \A t \in Range(cards) : to[t] \in Columns
    BY <1>7
  <2> QED
    BY <1>6, <1>8, <2>1, <2>2, MovedAll
<1>10. \A u \in Tasks : \/ ColumnOf(board', u) = ColumnOf(board, u)
                        \/ ColumnOf(board', u) = Wanted(u) /\ Wanted(u) # "none"
  BY <1>4, <1>6, <1>7, <1>9
<1>11. CASE drag' = drag
  <2>1. DragTyped'
    BY <1>11 DEF FlowsInv, DragTyped
  <2> QED
    BY <1>1, <1>2, <1>9, <1>10, <1>11, <2>1
<1>12. CASE \E t \in Behind : drag' = Lifted(t, Wanted(t), TRUE, Wanted(t) = "trash")
  <2>1. PICK t \in Behind : drag' = Lifted(t, Wanted(t), TRUE, Wanted(t) = "trash")
    BY <1>12
  <2>2. t \in Tasks /\ Wanted(t) # "none"
    BY DEF Behind
  <2>3. PICK w \in {"review", "in_progress", "trash"} : w = Wanted(t)
    BY <2>2, WantedIs
  <2>4. PICK quiet \in BOOLEAN : quiet = (w = "trash")
    OBVIOUS
  <2>5. drag' = Lifted(t, w, TRUE, quiet)
    BY <2>1, <2>3, <2>4
  <2>6. ColumnOf(board, t) # "none" /\ TRUE \in BOOLEAN /\ (quiet => w = "trash")
    BY <2>2, <2>4, WantedIs
  <2>7. DragTyped' /\ drag'.task = t /\ drag'.quiet = quiet /\ drag'.to = w
    BY <2>2, <2>5, <2>6, LiftedIs
  <2>8. drag'.task = t /\ (drag'.quiet => Wanted(t) = "trash" /\ drag'.to = "trash")
    BY <2>3, <2>6, <2>7
  <2> QED
    BY <1>1, <1>2, <1>9, <1>10, <2>2, <2>7, <2>8
<1> QED
  BY <1>3, <1>11, <1>12

\* The effect moves a card to the trash only when its session is shown as interrupted:
\* a live one is then about to be answered for.
LEMMA FollowKeeps ==
  ASSUME FlowsInv, Follow
  PROVE  FlowsInv'
<1>1. /\ session' = session /\ shown' = shown /\ flows' = flows
      /\ Noted /\ \A u : Clear(u)' => Clear(u)
      /\ Tidy(board') /\ DragTyped'
      /\ \A u \in Tasks : \/ ColumnOf(board', u) = ColumnOf(board, u)
                          \/ ColumnOf(board', u) = Wanted(u) /\ Wanted(u) # "none"
  BY FollowIs
<1>2. \/ drag' = drag
      \/ \E t \in Tasks : /\ drag'.task = t
                          /\ drag'.quiet => Wanted(t) = "trash" /\ drag'.to = "trash"
  BY FollowIs
<1>3. FlowBag(flows') /\ SessionsTyped'
  BY <1>1 DEF FlowsInv, SessionsTyped
<1>4. ASSUME NEW u \in Tasks PROVE Own(u)' /\ ToldOf(u)'
  <2>1. Own(u) /\ ToldOf(u)
    BY DEF FlowsInv
  <2>2. ToldOf(u)'
    BY <1>1, <2>1 DEF ToldOf
  <2>3. Clear(u)' => (Wanted(u) = "trash" /\ session[u] \in Live => Answering(flows, u))
    BY <1>1, <2>1, WantedIs DEF ToldOf
  <2>4. Wanted(u) \in {"review", "in_progress", "trash", "none"}
    BY WantedIs
  <2>5. ASSUME Clear(u)'
        PROVE  LiveIsHeld(u)' /\ OneStart(u)' /\ AheadIsDown(u)' /\ StartIsShown(u)'
               /\ QuietIsDown(u)'
    <3>1. LiveIsHeld(u) /\ OneStart(u) /\ AheadIsDown(u) /\ StartIsShown(u) /\ QuietIsDown(u)
      BY <1>1, <2>1, <2>5 DEF Own
    <3>2. LiveIsHeld(u)'
      BY <1>1, <2>3, <2>4, <2>5, <3>1 DEF LiveIsHeld
    <3>3. OneStart(u)'
      BY <1>1, <3>1 DEF OneStart
    <3>4. AheadIsDown(u)'
      BY <1>1, <2>4, <3>1 DEF AheadIsDown
    <3>5. Pending(flows', u) # {} =>
            /\ ColumnOf(board', u) \notin {"trash", "none"}
            /\ ~(drag' # None /\ drag'.task = u /\ drag'.to = "trash")
      BY <1>1, <1>3, <2>5, Alone
    <3>6. StartIsShown(u)'
      BY <3>5 DEF StartIsShown
    <3>7. QuietIsDown(u)'
      <4>1. CASE drag' = drag
        BY <1>1, <3>1, <4>1 DEF QuietIsDown
      <4>2. CASE drag'.quiet => Wanted(drag'.task) = "trash" /\ drag'.to = "trash"
        <5> SUFFICES ASSUME drag' # None, drag'.task = u, drag'.quiet
                     PROVE  session'[u] \notin Live /\ Pending(flows', u) = {}
          BY DEF QuietIsDown
        <5>1. Wanted(u) = "trash" /\ drag'.to = "trash"
          BY <4>2
        <5>2. Pending(flows', u) = {}
          BY <3>5, <5>1
        <5>3. ~Answering(flows, u)
          BY <1>1, <5>2 DEF Answering
        <5> QED
          BY <1>1, <2>3, <2>5, <5>1, <5>2, <5>3
      <4> QED
        BY <1>2, <4>1, <4>2
    <3> QED
      BY <3>2, <3>3, <3>4, <3>6, <3>7
  <2> QED
    BY <2>2, <2>5 DEF Own
<1> QED
  BY <1>1, <1>3, <1>4, CalmStep

(***************************************************************************)
(* The theorems.                                                           *)
(***************************************************************************)
\* Nothing is under way on a new page.
LEMMA FlowsInitInv == FlowsInit => FlowsInv
<1> SUFFICES ASSUME FlowsInit PROVE FlowsInv
  OBVIOUS
<1>1. PICK start \in Layouts, links \in Links :
        /\ board = [columns |-> [c \in Columns |-> SetToSeq({t \in Tasks : start[t] = c})],
                    links |-> links]
        /\ session = [t \in Tasks |-> IF start[t] = "review" THEN "awaiting_review" ELSE "none"]
  BY DEF FlowsInit
<1>2. shown = session /\ drag = None /\ flows = EmptyBag
  BY DEF FlowsInit
<1>3. start \in [Tasks -> {"backlog", "review"}] /\ links \in SUBSET (Tasks \X Tasks)
  BY BoardAssumption
<1>4. ASSUME NEW c \in Columns
      PROVE  /\ board.columns[c] \in Seq(Tasks) /\ Distinct(board.columns[c])
             /\ Range(board.columns[c]) = {t \in Tasks : start[t] = c}
  <2> DEFINE S == {t \in Tasks : start[t] = c}
  <2>1. S \in SUBSET Tasks
    OBVIOUS
  <2>2. board.columns[c] = SetToSeq(S)
    BY <1>1
  <2> HIDE DEF S
  <2>3. IsFiniteSet(S)
    BY <2>1, BoardAssumption, FS_Subset
  <2>4. SetToSeq(S) \in Seq(S) /\ Range(SetToSeq(S)) = S /\ Distinct(SetToSeq(S))
    BY <2>3, SetToSeqIs
  <2>5. board.columns[c] \in Seq(Tasks)
    BY <2>1, <2>2, <2>4
  <2> QED
    BY <2>2, <2>4, <2>5 DEF S
<1>5. Tidy(board)
  <2>1. /\ DOMAIN board.columns = Columns /\ board.links = links
        /\ board = [columns |-> board.columns, links |-> board.links]
        /\ board.columns = [c \in Columns |-> board.columns[c]]
    BY <1>1
  <2>2. board.columns \in [Columns -> Seq(Tasks)]
    BY <2>1, <1>4
  <2>3. board \in PageBoards
    BY <2>1, <2>2, <1>3 DEF PageBoards
  <2>4. \A c, d \in Columns : \A t \in Tasks :
          t \in Range(board.columns[c]) /\ t \in Range(board.columns[d]) => c = d
    BY <1>4
  <2> QED
    BY <2>3, <2>4, <1>4 DEF Tidy
<1>6. SessionsTyped
  BY <1>1, <1>2 DEF SessionsTyped, States
<1>7. BagToSet(flows) = {}
  BY <1>2 DEF EmptyBag, SetToBag, BagToSet
<1>8. FlowBag(flows)
  BY <1>7, FS_EmptySet DEF FlowBag
<1>9. DragTyped
  BY <1>2 DEF DragTyped
<1>10. ASSUME NEW t \in Tasks PROVE Own(t) /\ ToldOf(t)
  <2>1. Pending(flows, t) = {}
    BY <1>7 DEF Pending
  <2>2. session[t] \in Live => ColumnOf(board, t) \in {"in_progress", "review"}
    <3>1. session[t] \in Live => start[t] = "review"
      BY <1>1 DEF Live
    <3>2. start[t] = "review" => ColumnOf(board, t) = "review"
      <4>1. "review" \in Columns
        BY DEF Columns
      <4>2. start[t] = "review" => t \in Range(board.columns["review"])
        BY <4>1, <1>4
      <4> QED
        BY <4>1, <4>2, <1>5, ColumnIs
    <3> QED
      BY <3>1, <3>2
  <2>3. shown[t] # "interrupted"
    BY <1>1, <1>2
  <2>4. LiveIsHeld(t)
    BY <2>2 DEF LiveIsHeld
  <2>5. OneStart(t) /\ AheadIsDown(t) /\ StartIsShown(t)
    BY <2>1 DEF OneStart, AheadIsDown, StartIsShown
  <2>6. QuietIsDown(t)
    BY <1>2 DEF QuietIsDown
  <2> QED
    BY <2>3, <2>4, <2>5, <2>6 DEF Own, ToldOf
<1> QED
  BY <1>5, <1>6, <1>8, <1>9, <1>10 DEF FlowsInv

\* Every step of the user, of the page, of its flows and of the agents keeps it.
LEMMA FlowsStepInv == FlowsInv /\ [FlowsNext]_flowVars => FlowsInv'
<1> SUFFICES ASSUME FlowsInv, [FlowsNext]_flowVars PROVE FlowsInv'
  OBVIOUS
<1>1. CASE UNCHANGED flowVars
  BY <1>1, OtherKeeps
<1>2. CASE User
  <2>1. CASE \E t \in Tasks : UserLift(t)
    BY <2>1, UserLiftKeeps
  <2>2. CASE \E t \in Tasks : OrderStart(t)
    BY <2>2, OrderStartKeeps
  <2>3. CASE \E t \in Tasks : OrderDone(t)
    BY <2>3, OrderDoneKeeps
  <2>4. CASE \E t \in Tasks : OrderRestore(t)
    BY <2>4, OrderRestoreKeeps
  <2>5. CASE \E t \in Tasks : OrderNoAuto(t)
    BY <2>5, OtherKeeps
  <2>6. CASE (\E t, u \in Tasks : OrderLink(t, u)) \/ \E link \in board.links : OrderUnlink(link)
    BY <2>6, LinkKeeps
  <2>7. CASE OrderStartAll
    BY <2>7, OrderStartAllKeeps
  <2>8. CASE OrderClear
    BY <2>8, OrderClearKeeps
  <2> QED
    BY <1>2, <2>1, <2>2, <2>3, <2>4, <2>5, <2>6, <2>7, <2>8 DEF User
<1>3. CASE UserLetsGo
  BY <1>3, DropsKeep, NoMoveKeeps DEF UserLetsGo
<1>4. CASE Follow
  BY <1>4, FollowKeeps
<1>5. CASE Glides
  BY <1>5, DropsKeep, NoMoveKeeps DEF Glides
<1>6. CASE Server
  <2>1. CASE \E t \in Tasks : AgentTurn(t)
    BY <2>1, AgentTurnKeeps
  <2>2. CASE \E t \in Tasks : AgentWorks(t) \/ Refresh(t)
    BY <2>2, OtherKeeps
  <2> QED
    BY <1>6, <2>1, <2>2 DEF Server
<1>7. CASE \E f \in BagToSet(flows) : FlowStep(f)
  <2>1. PICK f \in BagToSet(flows) : FlowStep(f)
    BY <1>7
  <2>2. CASE AskStart(f) \/ AskDone(f)
    BY <2>2, AskKeeps
  <2>3. CASE AskStartUnseen(f)
    BY <2>3, AskStartUnseenKeeps
  <2>4. CASE AskStartCovered(f)
    BY <2>4, AskStartCoveredKeeps
  <2>5. CASE EnsureTree(f)
    BY <2>5, EnsureTreeKeeps
  <2>6. CASE StartSession(f)
    BY <2>6, StartSessionKeeps
  <2>7. CASE FailStart(f)
    BY <2>7, FailStartKeeps
  <2>8. CASE StartAnswered(f)
    BY <2>8, StartAnsweredKeeps
  <2>9. CASE AskDoneUnseen(f)
    BY <2>9, AskDoneUnseenKeeps
  <2>10. CASE StartLinked(f)
    BY <2>10, StartLinkedKeeps
  <2>11. CASE StopDone(f)
    BY <2>11, StopDoneKeeps
  <2>12. CASE AskDoneGone(f) \/ CleanDone(f) \/ Lapse(f) \/ CommitAsked(f)
    BY <2>12, EndKeeps
  <2>13. CASE StopFails(f)
    BY <2>13, StopFailsKeeps
  <2> QED
    BY <2>1, <2>2, <2>3, <2>4, <2>5, <2>6, <2>7, <2>8, <2>9, <2>10, <2>11, <2>12, <2>13 DEF FlowStep
<1>8. CASE \E t \in Tasks : CommitDue(t) \/ FinishDue(t) \/ Deliver(t)
  BY <1>8, CommitDueKeeps, FinishDueKeeps, DeliverKeeps
<1> QED
  BY <1>1, <1>2, <1>3, <1>4, <1>5, <1>6, <1>7, <1>8 DEF FlowsNext

\* The board is tidy and flows and sessions have their types.  A live session has
\* its card in progress or in review, is about to be answered for, or has a flow
\* that is to stop it, unless flows of its task crossed, its card was mixed up in
\* a drop, a stop of it failed, or the answer of its start was lost.
THEOREM FlowsInvariance == FlowsSpec => []FlowsInv
<1>1. FlowsInit => FlowsInv
  BY FlowsInitInv
<1>2. FlowsInv /\ [FlowsNext]_flowVars => FlowsInv'
  BY FlowsStepInv
<1> QED
  BY <1>1, <1>2, PTL DEF FlowsSpec

\* Once the flow that finished a task is over, no agent works on it, whatever else
\* failed; not so where flows of the task crossed, its card was mixed up in a drop,
\* its stop failed, or the answer of its start or restore was lost.
THEOREM NoAgentForDone == FlowsSpec => []NoAgentForDoneTask
<1>1. FlowsInv => NoAgentForDoneTask
  <2> SUFFICES ASSUME FlowsInv, NEW t \in Tasks,
                      ColumnOf(board, t) \in {"trash", "none"},
                      \A f \in BagToSet(flows) : f.task # t,
                      t \notin crossed \cup mixed \cup failed
               PROVE  session[t] \notin Live
    BY DEF NoAgentForDoneTask
  <2>1. LiveIsHeld(t)
    BY DEF FlowsInv, Own, Clear
  <2>2. ~Answering(flows, t) /\ ~Closing(flows, t)
    BY DEF Answering, Closing, Pending, At
  <2> QED
    BY <2>1, <2>2 DEF LiveIsHeld
<1> QED
  BY <1>1, FlowsInvariance, PTL

==============================================================================
