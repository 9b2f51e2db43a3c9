------------------------------ MODULE ImageCopy ------------------------------
(***************************************************************************)
(* ext-image-copy-capture (protocols/image_copy_capture.rs): sessions that *)
(* capture an output or a window, and their frames.  The first frame of a  *)
(* session is queued for the frame loop at once; the others wait in the    *)
(* session for the next frame of what they capture.                        *)
(***************************************************************************)
EXTENDS CaptureSources

CONSTANTS
    Sessions,    \* session objects
    Frames,      \* frame objects
    NoFrame,
    NoSession

VARIABLES
    objects,            \* session objects: whether the client has them, and their source
    sessions,           \* ImageCopyCaptureState.sessions
    frames,             \* CaptureFrameData, and how the frame was answered
    pending_captures,   \* frames the frame loop is to render
    overtaken           \* history: frames that lost waiting_frame to another one

image_copy == <<objects, sessions, frames, pending_captures, overtaken>>

\* NoSource is SourceKind::Destroyed.
Sources == Outputs \cup Windows \cup {NoSource}

SessionData ==
    [source : Sources, active : BOOLEAN, stopped : BOOLEAN, once : BOOLEAN,
     waiting : Frames \cup {NoFrame}]

FrameStates == {"unborn", "made", "captured", "destroyed"}
FrameData ==
    [session : Sessions \cup {NoSession}, state : FrameStates, answer : {"none", "ready", "failed"}]

ImageCopyInit ==
    /\ objects = [s \in Sessions |-> [state |-> "unborn", source |-> NoSource]]
    /\ sessions = <<>>
    /\ frames = [f \in Frames |-> [session |-> NoSession, state |-> "unborn", answer |-> "none"]]
    /\ pending_captures = {}
    /\ overtaken = {}

ImageCopyTypeOK ==
    /\ objects \in [Sessions -> [state : {"unborn", "alive", "destroyed"}, source : Sources]]
    /\ DOMAIN sessions \subseteq Sessions
    /\ \A s \in DOMAIN sessions : sessions[s] \in SessionData
    /\ frames \in [Frames -> FrameData]
    /\ pending_captures \cup overtaken \subseteq Frames

\* Sessions whose entry some calls remove.
Without(S) == [s \in DOMAIN sessions \ S |-> sessions[s]]

SourceOf(f) == objects[frames[f].session].source

\* A source that was gone when the session began.  An output never is, here.
Vanished(src) == src = NoSource \/ (src \in Windows /\ ~Lasts(src))

-----------------------------------------------------------------------------
(* Sessions *)

CreateSession(s, src) ==
    /\ objects[s].state = "unborn"
    /\ objects' = [objects EXCEPT ![s] = [state |-> "alive", source |-> src]]
    /\ sessions' = [t \in DOMAIN sessions \cup {s} |->
                      IF t # s THEN sessions[t]
                      ELSE [source |-> src, active |-> FALSE, stopped |-> Vanished(src),
                            once |-> FALSE, waiting |-> NoFrame]]
    /\ UNCHANGED <<world, frames, pending_captures, overtaken>>

DestroySession(s) ==
    /\ objects[s].state = "alive"
    /\ objects' = [objects EXCEPT ![s].state = "destroyed"]
    /\ sessions' = Without({s})
    /\ UNCHANGED <<world, frames, pending_captures, overtaken>>

-----------------------------------------------------------------------------
(* Frames *)

\* One at a time, unless the one before was answered with a picture: else the client
\* is disconnected, as for any request on a captured frame and a capture without buffer.
CreateFrame(f, s) ==
    /\ objects[s].state = "alive"
    /\ frames[f].state = "unborn"
    /\ s \in DOMAIN sessions => ~sessions[s].active
    /\ sessions' = [t \in DOMAIN sessions |->
                      IF t = s THEN [sessions[t] EXCEPT !.active = TRUE] ELSE sessions[t]]
    /\ frames' = [frames EXCEPT ![f].session = s, ![f].state = "made"]
    /\ UNCHANGED <<world, objects, pending_captures, overtaken>>

\* AttachBuffer and Capture, once for each frame: it fails, is queued, or waits.
Captured(f, answer) ==
    frames' = [frames EXCEPT ![f].state = "captured", ![f].answer = answer]

CaptureFails(f) ==
    LET s == frames[f].session IN
    /\ \/ s \notin DOMAIN sessions /\ UNCHANGED sessions
       \/ /\ s \in DOMAIN sessions
          /\ sessions[s].stopped \/ Vanished(sessions[s].source)
          /\ sessions' = [sessions EXCEPT ![s].stopped = TRUE]
    /\ Captured(f, "failed")
    /\ UNCHANGED pending_captures

Usable(s) == s \in DOMAIN sessions /\ ~sessions[s].stopped /\ ~Vanished(sessions[s].source)

CaptureFirst(f) ==
    /\ Usable(frames[f].session)
    /\ ~sessions[frames[f].session].once
    /\ pending_captures' = pending_captures \cup {f}
    /\ Captured(f, "none")
    /\ UNCHANGED sessions

\* A frame that still waited is replaced: with two frames at once, see DestroyFrame.
CaptureNext(f) ==
    /\ Usable(frames[f].session)
    /\ sessions[frames[f].session].once
    /\ sessions' = [sessions EXCEPT ![frames[f].session].waiting = f]
    /\ overtaken' = overtaken \cup ({sessions[frames[f].session].waiting} \ {NoFrame})
    /\ Captured(f, "none")
    /\ UNCHANGED pending_captures

Capture(f) ==
    /\ frames[f].state = "made"
    /\ \/ (CaptureFails(f) \/ CaptureFirst(f)) /\ UNCHANGED overtaken
       \/ CaptureNext(f)
    /\ UNCHANGED <<world, objects>>

\* The frame object goes: whatever frame waits is forgotten with it, and another may
\* be made.
SlipForget(s) == [sessions[s] EXCEPT !.active = FALSE]

Forget(s) == [sessions[s] EXCEPT !.active = FALSE, !.waiting = NoFrame]

DestroyFrame(f) ==
    /\ frames[f].state \notin {"unborn", "destroyed"}
    /\ frames' = [frames EXCEPT ![f].state = "destroyed", ![f].answer = "none"]
    /\ sessions' = [s \in DOMAIN sessions |->
                      IF s = frames[f].session THEN Forget(s) ELSE sessions[s]]
    /\ overtaken' = overtaken \cup
                      {g \in Frames \ {f} : \E s \in DOMAIN sessions :
                         s = frames[f].session /\ sessions[s].waiting = g}
    /\ UNCHANGED <<world, objects, pending_captures>>

\* The client is gone, and all it had with it.
ImageCopyDisconnect ==
    /\ objects' = [s \in Sessions |-> IF objects[s].state = "unborn" THEN objects[s]
                                     ELSE [objects[s] EXCEPT !.state = "destroyed"]]
    /\ sessions' = Without(Sessions)
    /\ frames' = [f \in Frames |-> IF frames[f].state = "unborn" THEN frames[f]
                                  ELSE [frames[f] EXCEPT !.state = "destroyed", !.answer = "none"]]
    /\ UNCHANGED <<pending_captures, overtaken>>

ImageCopyNext ==
    \/ \E s \in Sessions : DestroySession(s) \/ (\E src \in Sources : CreateSession(s, src))
    \/ \E f \in Frames : \/ \E s \in Sessions : CreateFrame(f, s)
                         \/ Capture(f) \/ DestroyFrame(f)

-----------------------------------------------------------------------------
(* What the frame loop does *)

Waiting == {s \in DOMAIN sessions : ~sessions[s].stopped /\ sessions[s].waiting # NoFrame}

\* promote_waiting_frames, and promote_waiting_toplevel_frames, which rendering any
\* output calls.
PromotingFor(o) == {s \in Waiting : sessions[s].source = o}

SlipPromotingToplevels == {}

PromotingToplevels ==
    {s \in Waiting : sessions[s].source \in Windows /\ Lasts(sessions[s].source)}

Promoting(o) == PromotingFor(o) \cup PromotingToplevels

\* What render_capture_frames(o) and render_toplevel_captures drain.
Taken(o) ==
    LET queued == pending_captures \cup {sessions[s].waiting : s \in Promoting(o)}
    IN  {f \in queued : SourceOf(f) = o \/ SourceOf(f) \in Windows}

\* A window must be mapped to be drawn.
SlipDrawable(f) == TRUE

Drawable(f) == SourceOf(f) \in Windows => windows[SourceOf(f)] = "mapped"

\* frame_done: the next frame of the session may be made, and waits.
Done(data) == [data EXCEPT !.active = FALSE, !.once = TRUE]

\* ok are the frames that were rendered and copied; frames that are gone by now are
\* rendered all the same, and hear nothing.
Answered(o, ok) ==
    [f \in Frames |->
        IF f \in Taken(o) /\ frames[f].state = "captured"
        THEN [frames[f] EXCEPT !.answer = IF f \in ok THEN "ready" ELSE "failed"]
        ELSE frames[f]]

render_captures(o, ok) ==
    /\ pending_captures' = (pending_captures \cup {sessions[s].waiting : s \in Promoting(o)})
                           \ Taken(o)
    /\ frames' = Answered(o, ok)
    /\ sessions' = [s \in DOMAIN sessions |->
                      LET data == IF s \in Promoting(o)
                                  THEN [sessions[s] EXCEPT !.waiting = NoFrame] ELSE sessions[s]
                      IN  IF \E f \in ok : frames[f].session = s THEN Done(data) ELSE data]
    /\ UNCHANGED <<objects, overtaken>>

\* remove_output and remove_toplevel: the sessions are told to stop and forgotten,
\* the frames that wait in them too.
RemoveSource(src) ==
    /\ sessions' = Without({s \in DOMAIN sessions : sessions[s].source = src})
    /\ UNCHANGED <<objects, frames, pending_captures, overtaken>>
=============================================================================
