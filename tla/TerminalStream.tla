--------------------------- MODULE TerminalStream ---------------------------
(***************************************************************************)
(* The terminal bridge: one PTY, a headless mirror of its screen, and the  *)
(* browser viewers that watch it. A viewer has two WebSockets. The control *)
(* socket carries the restore snapshot, the acknowledgements and the       *)
(* restore-complete message; the io socket carries the output. The two are *)
(* lost, reconnected and noticed closed independently of one another.      *)
(*                                                                         *)
(* Output chunks are numbered; the bytes of a chunk are one unit of the    *)
(* flow control. enqueueOutput's immediate send of a small chunk is its    *)
(* batch flushed by the next step.                                         *)
(***************************************************************************)
EXTENDS Integers, Sequences, FiniteSets

CONSTANTS
    Viewers,
    OUTPUT_ACK_HIGH_WATER_MARK,
    OUTPUT_ACK_LOW_WATER_MARK,
    MaxChunks,      \* output of the PTY
    MaxLosses       \* sockets lost, over all viewers

ASSUME StreamAssumption ==
    /\ {OUTPUT_ACK_HIGH_WATER_MARK, OUTPUT_ACK_LOW_WATER_MARK} \subseteq Nat \ {0}
    /\ OUTPUT_ACK_LOW_WATER_MARK <= OUTPUT_ACK_HIGH_WATER_MARK
    /\ {MaxChunks, MaxLosses} \subseteq Nat

VARIABLES
    out,            \* chunks the PTY has produced and the mirror has applied
    ptyPaused,
    backpressured,  \* backpressuredViewerIds
    present,        \* viewers of the stream state
    view,           \* viewer -> TerminalViewerState with its IoOutputState
    io,             \* viewer -> chunks on the io socket
    restore,        \* viewer -> snapshot on the control socket, or None
    up,             \* viewer -> messages on the control socket to the server
    client,         \* viewer -> the browser's sockets and screen
    losses,
    past            \* history: reconnections of one socket, dropped acks

streamVars == <<out, ptyPaused, backpressured, present, view, io, restore, up, client,
                losses, past>>

None == -1

NoView == [ioOpen |-> FALSE, batch |-> <<>>, paused |-> FALSE, unacked |-> 0,
           controlOpen |-> FALSE, restored |-> FALSE, held |-> <<>>]
NoMessages == [restored |-> FALSE, acks |-> 0]
Blank == [io |-> FALSE, control |-> FALSE, shown |-> <<>>]

StreamInit ==
    /\ out = 0 /\ ptyPaused = FALSE /\ backpressured = {} /\ present = {}
    /\ view = [v \in Viewers |-> NoView]
    /\ io = [v \in Viewers |-> <<>>]
    /\ restore = [v \in Viewers |-> None]
    /\ up = [v \in Viewers |-> NoMessages]
    /\ client = [v \in Viewers |-> Blank]
    /\ losses = 0
    /\ past = [v \in Viewers |-> [torn |-> FALSE, dropped |-> FALSE]]

UpTo(n) == [k \in 1 .. n |-> k]

(***************************************************************************)
(* The output listener: every viewer of the stream gets the chunk, or      *)
(* holds it until its screen is restored and its io socket is there.       *)
(***************************************************************************)
Streaming(w) == w.restored /\ w.ioOpen

Receive(w, chunk) ==
    IF Streaming(w) THEN [w EXCEPT !.batch = Append(@, chunk)]
                    ELSE [w EXCEPT !.held = Append(@, chunk)]

PtyOutput ==
    /\ out < MaxChunks /\ ~ptyPaused
    /\ out' = out + 1
    /\ view' = [v \in Viewers |-> IF v \in present THEN Receive(view[v], out + 1) ELSE view[v]]
    /\ UNCHANGED <<ptyPaused, backpressured, present, io, restore, up, client, losses, past>>

\* flushPendingOutput.
FlushHeld(w) ==
    IF Streaming(w) THEN [w EXCEPT !.batch = @ \o w.held, !.held = <<>>] ELSE w

(***************************************************************************)
(* Flow control. A viewer that falls behind pauses the PTY all share; the  *)
(* last one that catches up resumes it.                                    *)
(***************************************************************************)
\* Mutant: a viewer that catches up resumes the PTY whoever else is behind.
AnyoneResumes(behind) == FALSE

StaysPaused(behind) == behind # {}

Release(v) ==
    /\ backpressured' = backpressured \ {v}
    /\ ptyPaused' = IF v \in backpressured THEN StaysPaused(backpressured') ELSE ptyPaused

\* flushOutputBatch and checkBackpressureAfterSend. What is sent while the
\* viewer is paused is not counted. lag: the socket's own buffer is full.
FlushBatch(v) ==
    /\ view[v].batch # <<>>
    /\ LET n == Len(view[v].batch)
           w == [view[v] EXCEPT !.batch = <<>>]
       IN  \E lag \in BOOLEAN :
           /\ io' = [io EXCEPT ![v] = IF client[v].io THEN @ \o view[v].batch ELSE @]
           /\ IF w.paused
              THEN view' = [view EXCEPT ![v] = w] /\ UNCHANGED <<backpressured, ptyPaused>>
              ELSE LET behind == lag \/ w.unacked + n >= OUTPUT_ACK_HIGH_WATER_MARK
                   IN  /\ view' = [view EXCEPT ![v] = [w EXCEPT !.unacked = @ + n,
                                                               !.paused = behind]]
                       /\ backpressured' = IF behind THEN backpressured \cup {v} ELSE backpressured
                       /\ ptyPaused' = (ptyPaused \/ behind)
    /\ UNCHANGED <<out, present, restore, up, client, losses, past>>

\* checkResumeAfterBackpressure, by the timer or by the socket's drain. The
\* socket's own buffer is below its low mark once it is empty.
CanResume(w) == w.unacked < OUTPUT_ACK_LOW_WATER_MARK

ResumeCheck(v) ==
    /\ view[v].paused /\ CanResume(view[v])
    /\ view' = [view EXCEPT ![v].paused = FALSE]
    /\ Release(v)
    /\ UNCHANGED <<out, present, io, restore, up, client, losses, past>>

\* acknowledgeOutput, with its own resume check; the socket's buffer may
\* still be above its low mark.
Acknowledged(w, n) == IF w.unacked > n THEN w.unacked - n ELSE 0

TakeAck(v) ==
    /\ up[v].acks > 0 /\ view[v].controlOpen
    /\ \E n \in 1 .. up[v].acks :
       /\ up' = [up EXCEPT ![v].acks = @ - n]
       /\ IF ~view[v].ioOpen
          THEN UNCHANGED <<view, backpressured, ptyPaused>>
          ELSE LET w == [view[v] EXCEPT !.unacked = Acknowledged(view[v], n)] IN
               \/ /\ view' = [view EXCEPT ![v] = w]
                  /\ UNCHANGED <<backpressured, ptyPaused>>
               \/ /\ w.paused /\ CanResume(w)
                  /\ view' = [view EXCEPT ![v] = [w EXCEPT !.paused = FALSE]]
                  /\ Release(v)
    /\ UNCHANGED <<out, present, io, restore, client, losses, past>>

(***************************************************************************)
(* The server's connection handlers.                                       *)
(***************************************************************************)
\* A new io socket disposes the previous one's state: its unsent batch is
\* lost, its pause released. What was held is flushed to the new socket.
ConnectIo(v) ==
    /\ ~client[v].io
    /\ client' = [client EXCEPT ![v].io = TRUE]
    /\ io' = [io EXCEPT ![v] = <<>>]
    /\ present' = present \cup {v}
    /\ view' = [view EXCEPT ![v] = FlushHeld([@ EXCEPT !.ioOpen = TRUE, !.batch = <<>>,
                                                       !.paused = FALSE, !.unacked = 0])]
    /\ Release(v)
    /\ UNCHANGED <<out, restore, up, losses, past>>

\* Mutant: what the viewer holds survives although the snapshot includes it.
HoldOn(w) == [w EXCEPT !.controlOpen = TRUE, !.restored = FALSE]

Restart(w) == [w EXCEPT !.controlOpen = TRUE, !.restored = FALSE, !.held = <<>>]

\* A new control socket starts a restore: the snapshot is the mirror's screen
\* at this moment, and output is held from here.
ConnectControl(v) ==
    /\ ~client[v].control
    /\ client' = [client EXCEPT ![v].control = TRUE]
    /\ present' = present \cup {v}
    /\ view' = [view EXCEPT ![v] = Restart(@)]
    /\ restore' = [restore EXCEPT ![v] = out]
    /\ up' = [up EXCEPT ![v] = NoMessages]
    /\ UNCHANGED <<out, ptyPaused, backpressured, io, losses, past>>

TakeRestoreComplete(v) ==
    /\ up[v].restored /\ view[v].controlOpen
    /\ up' = [up EXCEPT ![v].restored = FALSE]
    /\ view' = [view EXCEPT ![v] = FlushHeld([@ EXCEPT !.restored = TRUE])]
    /\ UNCHANGED <<out, ptyPaused, backpressured, present, io, restore, client, losses, past>>

\* cleanupViewerStateIfUnused; both sockets of a new pair start afresh.
Closed(v, w) ==
    IF w.ioOpen \/ w.controlOpen
    THEN /\ view' = [view EXCEPT ![v] = w] /\ UNCHANGED <<present, past>>
    ELSE /\ view' = [view EXCEPT ![v] = NoView]
         /\ present' = present \ {v}
         /\ past' = [past EXCEPT ![v] = [torn |-> client[v].io \/ client[v].control,
                                         dropped |-> FALSE]]

\* Mutant: the pause of a viewer that goes away is not released.
KeepPause(v) == UNCHANGED <<backpressured, ptyPaused>>

ReleaseClosed(v) == Release(v)

IoClosed(v) ==
    /\ view[v].ioOpen /\ ~client[v].io
    /\ Closed(v, [view[v] EXCEPT !.ioOpen = FALSE, !.batch = <<>>, !.paused = FALSE,
                                 !.unacked = 0])
    /\ ReleaseClosed(v)
    /\ UNCHANGED <<out, io, restore, up, client, losses>>

ControlClosed(v) ==
    /\ view[v].controlOpen /\ ~client[v].control
    /\ Closed(v, [view[v] EXCEPT !.controlOpen = FALSE])
    /\ up' = [up EXCEPT ![v] = NoMessages]
    /\ UNCHANGED <<out, ptyPaused, backpressured, io, restore, client, losses>>

(***************************************************************************)
(* The browser: it writes what arrives, acknowledges it over the control   *)
(* socket if that one is open, and answers a restore.                      *)
(***************************************************************************)
TakeOutput(v) ==
    /\ io[v] # <<>>
    /\ io' = [io EXCEPT ![v] = Tail(@)]
    /\ client' = [client EXCEPT ![v].shown = IF past[v].torn THEN <<>> ELSE Append(@, Head(io[v]))]
    /\ IF client[v].control
       THEN up' = [up EXCEPT ![v].acks = @ + 1] /\ UNCHANGED past
       ELSE past' = [past EXCEPT ![v].dropped = TRUE] /\ UNCHANGED up
    /\ UNCHANGED <<out, ptyPaused, backpressured, present, view, restore, losses>>

TakeRestore(v) ==
    /\ restore[v] # None
    /\ restore' = [restore EXCEPT ![v] = None]
    /\ client' = [client EXCEPT ![v].shown = IF past[v].torn THEN <<>> ELSE UpTo(restore[v])]
    /\ up' = [up EXCEPT ![v].restored = TRUE]
    /\ UNCHANGED <<out, ptyPaused, backpressured, present, view, io, losses, past>>

\* A socket is lost, with what is on it; the server will notice.
LoseIo(v) ==
    /\ client[v].io /\ losses < MaxLosses
    /\ losses' = losses + 1
    /\ client' = [client EXCEPT ![v].io = FALSE, ![v].shown = <<>>]
    /\ io' = [io EXCEPT ![v] = <<>>]
    /\ past' = [past EXCEPT ![v].torn = TRUE]
    /\ UNCHANGED <<out, ptyPaused, backpressured, present, view, restore, up>>

LoseControl(v) ==
    /\ client[v].control /\ losses < MaxLosses
    /\ losses' = losses + 1
    /\ client' = [client EXCEPT ![v].control = FALSE, ![v].shown = <<>>]
    /\ restore' = [restore EXCEPT ![v] = None]
    /\ up' = [up EXCEPT ![v] = NoMessages]
    /\ past' = [past EXCEPT ![v] = [torn |-> TRUE,
                                    dropped |-> @.dropped \/ up[v].acks > 0]]
    /\ UNCHANGED <<out, ptyPaused, backpressured, present, view, io>>

StreamNext ==
    \/ PtyOutput
    \/ \E v \in Viewers :
        \/ FlushBatch(v) \/ ResumeCheck(v) \/ TakeAck(v) \/ TakeRestoreComplete(v)
        \/ ConnectIo(v) \/ ConnectControl(v) \/ IoClosed(v) \/ ControlClosed(v)
        \/ TakeOutput(v) \/ TakeRestore(v) \/ LoseIo(v) \/ LoseControl(v)

\* The event loops run, the sockets deliver, the server notices a lost one.
\* Nobody has to reconnect.
Fairness ==
    \A v \in Viewers :
        /\ WF_streamVars(FlushBatch(v)) /\ WF_streamVars(ResumeCheck(v))
        /\ WF_streamVars(TakeAck(v)) /\ WF_streamVars(TakeOutput(v))
        /\ WF_streamVars(IoClosed(v)) /\ WF_streamVars(ControlClosed(v))

StreamSpec == StreamInit /\ [][StreamNext]_streamVars /\ Fairness

(***************************************************************************)
(* What the bridge promises.                                               *)
(***************************************************************************)

\* A viewer whose pair of sockets is intact sees the PTY's output, whole and
\* once: what it shows or is about to restore, followed by what is on the io
\* socket, in the batch and held for it, is all there is, in order.
Base(v) == IF restore[v] # None THEN UpTo(restore[v]) ELSE client[v].shown

StreamIsExact ==
    \A v \in present :
        (view[v].controlOpen /\ client[v].control /\ ~past[v].torn) =>
            Base(v) \o io[v] \o view[v].batch \o view[v].held = UpTo(out)

\* The PTY is paused for someone who is behind, and whoever is behind has
\* output outstanding whose acknowledgement will release it, or an io socket
\* whose close will - unless its control socket was lost with acknowledgements
\* unsent.
PauseIsOwed ==
    /\ ptyPaused <=> backpressured # {}
    /\ \A v \in Viewers : view[v].paused <=> v \in backpressured
    /\ \A v \in backpressured :
           \/ past[v].dropped \/ ~client[v].io
           \/ view[v].unacked <= Len(io[v]) + up[v].acks

\* A paused PTY is resumed, unless a viewer keeps its io socket after losing
\* acknowledgements with its control socket.
PausedResumes ==
    ptyPaused ~> (~ptyPaused \/ \E v \in Viewers : past[v].dropped)
==============================================================================
