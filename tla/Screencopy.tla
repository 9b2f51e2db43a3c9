----------------------------- MODULE Screencopy -----------------------------
(***************************************************************************)
(* wlr-screencopy (protocols/screencopy.rs): a manager, the frames it      *)
(* makes, and the queue that remembers which of them were not copied yet.  *)
(* A copied frame waits in pending_screencopies of the compositor for its  *)
(* output to be rendered.                                                  *)
(***************************************************************************)
EXTENDS CaptureSources

CONSTANT Copies   \* frames of the protocol

VARIABLES
    manager,               \* the client holds the manager
    queue,                 \* queues has an entry for it
    pending_frames,        \* of that entry: frames not copied yet
    copies,                \* ScreencopyFrameState, the output, and the answer
    pending_screencopies

screencopy == <<manager, queue, pending_frames, copies, pending_screencopies>>

CopyStates == {"unborn", "failed", "pending", "copied", "destroyed"}
Answers == {"none", "ready", "failed"}

Copy(state, o, answer) == [state |-> state, output |-> o, answer |-> answer]
Unborn == Copy("unborn", NoSource, "none")
Destroyed(c) == [copies[c] EXCEPT !.state = "destroyed", !.answer = "none"]

ScreencopyInit ==
    /\ manager = TRUE /\ queue = TRUE
    /\ pending_frames = {}
    /\ copies = [c \in Copies |-> Unborn]
    /\ pending_screencopies = {}

ScreencopyTypeOK ==
    /\ manager \in BOOLEAN /\ queue \in BOOLEAN
    /\ pending_frames \cup pending_screencopies \subseteq Copies
    /\ copies \in [Copies -> [state : CopyStates, output : Outputs \cup {NoSource}, answer : Answers]]

\* The queue goes with the last of its frames once the manager is gone.
Retained(alive, frames) == alive \/ frames # {}

-----------------------------------------------------------------------------
\* CaptureOutput and CaptureOutputRegion: a region that misses the output, or a
\* wl_output that stands for none, fails at once.
CaptureOutput(c, o) ==
    /\ manager
    /\ copies[c].state = "unborn"
    /\ \/ /\ copies' = [copies EXCEPT ![c] = Copy("failed", o, "failed")]
          /\ UNCHANGED pending_frames
       \/ /\ copies' = [copies EXCEPT ![c] = Copy("pending", o, "none")]
          /\ pending_frames' = pending_frames \cup {c}
    /\ UNCHANGED <<world, manager, queue, pending_screencopies>>

\* Copy and CopyWithDamage.  A frame that failed ignores them; a second copy, or a
\* buffer that does not fit, disconnects the client.
CopyFrame(c) ==
    /\ copies[c].state = "pending"
    /\ copies' = [copies EXCEPT ![c].state = "copied"]
    /\ pending_screencopies' = pending_screencopies \cup {c}
    /\ pending_frames' = pending_frames \ {c}
    /\ queue' = Retained(manager, pending_frames')
    /\ UNCHANGED <<world, manager>>

DestroyCopy(c) ==
    /\ copies[c].state \notin {"unborn", "destroyed"}
    /\ copies' = [copies EXCEPT ![c] = Destroyed(c)]
    /\ pending_frames' = pending_frames \ {c}
    /\ queue' = IF copies[c].state = "failed" THEN queue
                ELSE queue /\ Retained(manager, pending_frames')
    /\ UNCHANGED <<world, manager, pending_screencopies>>

\* Frames outlive their manager.
SlipForgotten == FALSE

Forgotten == queue /\ Retained(FALSE, pending_frames)

DestroyManager ==
    /\ manager
    /\ manager' = FALSE
    /\ queue' = Forgotten
    /\ UNCHANGED <<world, pending_frames, copies, pending_screencopies>>

\* The client is gone, and all it had with it.
ScreencopyDisconnect ==
    /\ manager' = FALSE /\ queue' = FALSE
    /\ pending_frames' = {}
    /\ copies' = [c \in Copies |-> IF copies[c] = Unborn THEN Unborn ELSE Destroyed(c)]
    /\ UNCHANGED pending_screencopies

ScreencopyNext ==
    \/ \E c \in Copies : (\E o \in Outputs : CaptureOutput(c, o)) \/ CopyFrame(c) \/ DestroyCopy(c)
    \/ DestroyManager

\* render_screencopy: all that wait for o are answered; ok are the ones rendered and
\* copied into their buffer.  Dropping a Screencopy that was not submitted fails it.
Drained(o) == {c \in pending_screencopies : copies[c].output = o}

render_screencopy(o, ok) ==
    /\ pending_screencopies' = pending_screencopies \ Drained(o)
    /\ copies' = [c \in Copies |->
                    IF c \in Drained(o) /\ copies[c].state = "copied"
                    THEN [copies[c] EXCEPT !.answer = IF c \in ok THEN "ready" ELSE "failed"]
                    ELSE copies[c]]
    /\ UNCHANGED <<manager, queue, pending_frames>>

\* ScreencopyManagerState::remove_output, which looks at the queues only.
ScreencopyRemoveOutput ==
    /\ queue' = (queue /\ Retained(manager, pending_frames))
    /\ UNCHANGED <<manager, pending_frames, copies, pending_screencopies>>
=============================================================================
