------------------------------- MODULE Capture -------------------------------
(***************************************************************************)
(* Screen capture: both protocols, the frame loop that serves them after   *)
(* it has rendered an output (render/capture.rs), and the outputs and      *)
(* windows that go while captures wait.                                    *)
(***************************************************************************)
EXTENDS Screencopy, ImageCopy

vars == <<world, screencopy, image_copy>>

ASSUME CaptureAssumption ==
    /\ Copies \cap Frames = {}
    /\ NoFrame \notin Frames /\ NoSession \notin Sessions

Init == WorldInit /\ ScreencopyInit /\ ImageCopyInit

\* render_frame of an output: whatever became of the frame itself, captures come after.
Render(o) ==
    /\ o \in redraws_needed
    /\ redraws_needed' = redraws_needed \ {o}
    /\ \E ok \in SUBSET Drained(o) : render_screencopy(o, ok)
    /\ \E ok \in SUBSET {f \in Taken(o) : Drawable(f)} : render_captures(o, ok)
    /\ UNCHANGED <<outputs, windows>>

\* teardown_output.  What waits in pending_screencopies and pending_captures stays.
Unplug(o) ==
    /\ OutputGone(o)
    /\ RemoveSource(o)
    /\ ScreencopyRemoveOutput

\* A window goes.  The sessions of an XWayland window do not hear of it.
Unmapped(w) == IF w \in XWindows THEN UNCHANGED image_copy ELSE RemoveSource(w)

UnmapWindow(w) ==
    /\ WindowUnmapped(w)
    /\ Unmapped(w)
    /\ UNCHANGED screencopy

\* The client exits, or a protocol error disconnects it.
Disconnect ==
    /\ ScreencopyDisconnect
    /\ ImageCopyDisconnect
    /\ UNCHANGED world

Next ==
    \/ Disconnect
    \/ ScreencopyNext /\ UNCHANGED image_copy
    \/ ImageCopyNext /\ UNCHANGED screencopy
    \/ \E o \in Outputs : Render(o) \/ Unplug(o)
    \/ \E o \in Outputs : Damage(o) /\ UNCHANGED <<screencopy, image_copy>>
    \/ \E w \in Windows : UnmapWindow(w)
    \/ \E w \in Windows : SurfaceGone(w) /\ UNCHANGED <<screencopy, image_copy>>

Spec == Init /\ [][Next]_vars

\* An output that needs a redraw gets it: the promise of the frame loop.
FairSpec == Spec /\ \A o \in Outputs : WF_vars(Render(o))

TypeOK == WorldTypeOK /\ ScreencopyTypeOK /\ ImageCopyTypeOK

-----------------------------------------------------------------------------
(* Properties *)

\* Neither copying a frame nor making one misses the queue of its manager, in
\* whatever order the client lets go of manager and frames: the code unwraps it.
QueueIsThere ==
    /\ manager => queue
    /\ \A c \in Copies : copies[c].state = "pending" => queue /\ c \in pending_frames

\* What waits in a session is a frame of the session's that the client has asked for,
\* still wants and was not answered; nothing waits in two places.
WaitingIsWanted ==
    \A s \in DOMAIN sessions : LET f == sessions[s].waiting IN
        f # NoFrame => /\ frames[f] = [session |-> s, state |-> "captured", answer |-> "none"]
                       /\ f \notin pending_captures

\* The contract, for the requests of both protocols.
Requests == Copies \cup Frames

Waits(f) == f \in pending_captures \/ \E s \in DOMAIN sessions : sessions[s].waiting = f

StandingOfCopy(c) ==
    IF copies[c].state \in {"unborn", "pending"} THEN "idle"
    ELSE IF copies[c].state = "destroyed" THEN "gone"
    ELSE IF copies[c].answer # "none" THEN copies[c].answer
    ELSE IF c \in pending_screencopies THEN "asked" ELSE "dropped"

StandingOfFrame(f) ==
    IF frames[f].state \in {"unborn", "made"} THEN "idle"
    ELSE IF frames[f].state = "destroyed" THEN "gone"
    ELSE IF frames[f].answer # "none" THEN frames[f].answer
    ELSE IF Waits(f) THEN "asked" ELSE "dropped"

standing == [r \in Requests |-> IF r \in Copies THEN StandingOfCopy(r) ELSE StandingOfFrame(r)]

lost ==
    {c \in Copies : copies[c].output \in Outputs \ outputs} \cup
    {f \in Frames : /\ frames[f].session # NoSession
                    /\ \/ SourceOf(f) \in Outputs \ outputs
                       \/ SourceOf(f) \in Windows /\ ~Drawable(f)}

ended ==
    overtaken \cup {f \in Frames : /\ frames[f].session # NoSession
                                   /\ objects[frames[f].session].state = "destroyed"}

Contract == INSTANCE CaptureContract WITH request <- standing

\* Both protocols keep the contract of CaptureContract, frame loop, unplugged monitors,
\* closed windows and impatient clients together.
KeepsContract == Contract!Spec

\* As long as what it captures lasts and is drawn again and again, no capture waits for
\* ever: of a window when any output is drawn.
DrawnBy(r) ==
    IF r \in Copies THEN {copies[r].output}
    ELSE IF frames[r].session = NoSession \/ SourceOf(r) \in Windows THEN Outputs ELSE {SourceOf(r)}

CapturesSettle ==
    \A r \in Requests :
        []<>(redraws_needed \cap DrawnBy(r) # {}) =>
            [](standing[r] = "asked" => <>(standing[r] # "asked" \/ r \in lost))
=============================================================================
