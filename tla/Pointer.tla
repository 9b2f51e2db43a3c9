------------------------------ MODULE Pointer ------------------------------
(***************************************************************************)
(* The pointer's own events (input/pointer.rs, input/mod.rs) and what      *)
(* interrupts them: moves and resizes that clients ask for                 *)
(* (handlers/xdg_shell.rs), commits of the window being resized            *)
(* (handlers/compositor.rs), the session lock, fullscreen and unplugged    *)
(* monitors (teardown_output in backend/udev.rs).  With Gestures this is   *)
(* all of the compositor's interaction but for the keyboard.               *)
(***************************************************************************)
EXTENDS Gestures

CONSTANTS
    MouseHasMiddle,  \* whether the mouse has the button that the touchpad taps, too
    MaxPlugs         \* bound: monitors unplugged

VARIABLES
    buttons,   \* the buttons that are physically down
    unheard,   \* history: buttons that went up while there was no output
    plugs

hands == <<buttons, unheard>>
vars == <<session, gestures, hands, plugs>>

Elsewhere == UNCHANGED <<hand, gesture_state, gesture_output, plugs>>

-----------------------------------------------------------------------------
(* Buttons *)

\* A middle press of a touchpad that is bound to nothing waits for the swipe; one
\* that waits already is sent first.
BufferMiddle(b) ==
    /\ b = Middle
    /\ ptr' = IF pending_middle_click = "none" THEN ptr ELSE Flushed(ptr)
    /\ pending_middle_click' = "pressed"
    /\ UNCHANGED session

\* A press of a touchpad's middle button gets here only if it is bound.
SentOn(b) == b # Middle \/ MouseHasMiddle

\* What a press does when no fullscreen window takes it: a layer, a window or nothing
\* gets it; it closes a window or fits it; a decoration or a binding starts a grab.
Dispatch(p, b) ==
    \/ SentOn(b) /\ ptr' = PressTo(p, b)
    \/ ptr' \in {p, StartMove(p), StartResize(p), StartPan(p), StartNavigate(p)}

\* A press on a fullscreen window: toggling or fitting is leaving; any other binding
\* leaves first; no binding, and it is the window's.
PressFullscreen(b) ==
    \/ SentOn(b) /\ ptr' = PressTo(ptr, b) /\ UNCHANGED session
    \/ /\ exit_fullscreen_on(focused_output)
       /\ \E p \in Remapped(ptr) : Dispatch(p, b)
    \/ act_after_leaving /\ Carried

\* With no output at all a button is not looked at, unless the session is locked.
Deaf == Unlocked /\ outputs = {}

\* What a press that is looked at comes to.
PressSeen(b) ==
    \/ BufferMiddle(b) /\ Unlocked
    \/ /\ UNCHANGED pending_middle_click
       /\ \/ ~Unlocked /\ ptr' = PressTo(ptr, b) /\ UNCHANGED session
          \/ Unlocked /\ is_fullscreen /\ PressFullscreen(b)
          \/ Unlocked /\ ~is_fullscreen /\ (Act \/ (Dispatch(ptr, b) /\ UNCHANGED session))

PressButton(b) ==
    /\ b \notin buttons
    /\ buttons' = buttons \cup {b}
    /\ Elsewhere /\ UNCHANGED unheard
    /\ IF Deaf THEN UNCHANGED <<session, ptr, pending_middle_click>> ELSE PressSeen(b)

\* The release of a middle press that waits is kept with it.
ReleaseSeen(b) ==
    \/ /\ Unlocked /\ b = Middle /\ pending_middle_click # "none"
       /\ pending_middle_click' = "clicked"
       /\ UNCHANGED <<ptr, unheard>>
    \/ /\ ~Unlocked \/ b # Middle \/ pending_middle_click = "none"
       /\ ptr' = ReleaseTo(ptr, b)
       /\ unheard' = unheard \ {b}
       /\ UNCHANGED pending_middle_click

ReleaseButton(b) ==
    /\ b \in buttons
    /\ buttons' = buttons \ {b}
    /\ Elsewhere /\ UNCHANGED session
    /\ IF Deaf THEN unheard' = unheard \cup {b} /\ UNCHANGED <<ptr, pending_middle_click>>
       ELSE ReleaseSeen(b)

-----------------------------------------------------------------------------
(* Motion and scrolling *)

\* Motion may cross to another output, but not while a window is resized; a locked
\* screen gives the pointer to the lock surface.
LockedMotion ==
    /\ ~Unlocked
    /\ ptr' \in IF ptr.grab = NoGrab THEN {p \in Entering(ptr) : p.focus = "other"}
                ELSE GrabMotion(ptr, focused_output)
    /\ UNCHANGED <<focused_output, fullscreen, exited>>

UnlockedMotion(o) ==
    /\ Unlocked
    /\ ptr.grab.kind # "navigate"
    /\ focused_output' = FocusAfter(ptr, o)
    /\ ptr' \in GrabMotion(ptr, focused_output')
    /\ UNCHANGED <<fullscreen, exited>>

Motion(o) ==
    /\ o \in outputs \cup {focused_output}
    /\ LockedMotion \/ (o # NoOutput /\ UnlockedMotion(o))
    /\ Elsewhere /\ UNCHANGED <<hands, pending_middle_click, session_lock, monitors>>

\* A navigating drag that has gone far enough acts, once.
Navigate ==
    /\ ptr.grab.kind = "navigate"
    /\ ptr' = [ptr EXCEPT !.grab.kind = "navigated"]
    /\ execute_action("other")
    /\ Elsewhere /\ UNCHANGED <<hands, pending_middle_click>>

\* A bound scroll leaves fullscreen.  Else it moves the camera, and the pointer as Motion
\* does.
Scroll ==
    /\ Unlocked
    /\ exit_fullscreen_on(focused_output)
    /\ ptr' \in Remapped(ptr)
    /\ Elsewhere /\ UNCHANGED <<hands, pending_middle_click>>

-----------------------------------------------------------------------------
(* Clients *)

\* move_request and resize_request: a button went down on a surface of the client.
Request ==
    /\ ptr.grab = ClickGrab /\ ptr.focus = "window"
    /\ focused_output # NoOutput
    /\ ptr' \in {StartMove(ptr), StartResize(ptr)}
    /\ Elsewhere /\ UNCHANGED <<session, hands, pending_middle_click>>

\* handle_resize_commit: the last commit of a resize ends it.
Commit ==
    /\ ptr.resize = "WaitingForLastCommit"
    /\ ptr' = [ptr EXCEPT !.resize = "Idle"]
    /\ Elsewhere /\ UNCHANGED <<session, hands, pending_middle_click>>

\* fullscreen requests; entering gives the pointer to the window.
SetFullscreen ==
    /\ \/ /\ enter_fullscreen
          /\ ptr' \in IF ptr.grab = NoGrab THEN {p \in Entering(ptr) : p.focus = "window"}
                      ELSE GrabMotion(ptr, focused_output)
       \/ \E o \in Outputs : exit_fullscreen_on(o) /\ UNCHANGED ptr
    /\ Elsewhere /\ UNCHANGED <<hands, pending_middle_click>>

-----------------------------------------------------------------------------
(* The session lock and monitors *)

Stilled(p, O) == [p EXCEPT !.edge = @ \ O, !.panning = @ \ O]

\* SessionLockHandler::lock: gesture and grab end where they are, no output of the space
\* pans, and a click that waits is dropped.
DropInteraction ==
    /\ gesture_state' = NoGesture
    /\ ptr' \in {Stilled(p, outputs) : p \in UnsetGrab(ptr)}
    /\ pending_middle_click' = "none"

Lock ==
    /\ BeginLock
    /\ DropInteraction
    /\ UNCHANGED <<hand, gesture_output, hands, plugs>>

LockAnswers ==
    /\ ConfirmLock \/ EndLock
    /\ Elsewhere /\ UNCHANGED <<ptr, hands, pending_middle_click>>

\* teardown_output: every grab ends, and a gesture pinned to the output.  An output that
\* goes takes its flags with it, and the focus and the pointer go to another.
DropPinned(o) ==
    /\ ptr' \in {Stilled(p, outputs \ outputs') :
                  p \in UnsetGrab(ptr) \cup
                         IF focused_output = o /\ ~placeholder' THEN Entering(Unset(ptr)) ELSE {}}
    /\ gesture_output' = IF gesture_output = o THEN NoOutput ELSE gesture_output
    /\ gesture_state' = IF gesture_output = o THEN NoGesture ELSE gesture_state

UnplugOutput(o) ==
    /\ plugs < MaxPlugs
    /\ plugs' = plugs + 1
    /\ Unplug(o)
    /\ DropPinned(o)
    /\ UNCHANGED <<hand, hands, pending_middle_click>>

\* Where a new Output may be: whatever is pinned to an old one is not pinned to it.
Fresh(o) ==
    o \notin {ptr.grab.output, gesture_output} \cup ptr.edge \cup ptr.panning

\* create_surface: the pointer goes to the output if the focus does.
PlugOutput(o) ==
    /\ Fresh(o) /\ Plug(o)
    /\ IF FocusLeft = NoOutput
       THEN focused_output' = FocusAfter(ptr, o) /\ ptr' \in GrabMotion(ptr, focused_output')
       ELSE UNCHANGED ptr
    /\ Elsewhere /\ UNCHANGED <<hands, pending_middle_click>>

PlugFailed ==
    /\ PlugFails
    /\ Elsewhere /\ UNCHANGED <<ptr, hands, pending_middle_click>>

-----------------------------------------------------------------------------
Init ==
    /\ SessionInit
    /\ GesturesInit
    /\ buttons = {} /\ unheard = {}
    /\ plugs = 0

Next ==
    \/ GestureNext /\ UNCHANGED <<hands, plugs>>
    \/ \E b \in Buttons : PressButton(b) \/ ReleaseButton(b)
    \/ \E o \in Outputs : Motion(o) \/ UnplugOutput(o) \/ PlugOutput(o)
    \/ Navigate
    \/ Scroll
    \/ Request
    \/ Commit
    \/ SetFullscreen
    \/ Lock
    \/ LockAnswers
    \/ PlugFailed

Spec == Init /\ [][Next]_vars

TypeOK ==
    /\ SessionTypeOK
    /\ GesturesTypeOK
    /\ buttons \cup unheard \subseteq Buttons

-----------------------------------------------------------------------------
(* Properties *)

\* No client, and no grab that waits for it, takes a button for pressed that is not:
\* not across buffered clicks, locks, and grabs that take over from one another.  The
\* exception is a button that went up while there was no output, until it does again:
\* on_pointer_button looks at nothing then.
ButtonsAreHeld == ptr.client \cup ptr.pressed \subseteq buttons \cup unheard

\* A gesture is never continued by fingers that did not begin it, whatever happened
\* to its end.
GestureHasHand == gesture_state.kind \in {"none"} \cup Hands[hand]

\* What steers an output, or pans it, is pinned to one that is there; the edges of an
\* output pan only while a window is dragged over it; a locked screen is not steered.
\* The exception is what was begun on a placeholder: the monitor that replaces it ends
\* neither grab nor gesture, and they stay pinned to the output that is gone, or to the
\* flags it had.  A gesture begun without any output is pinned to none.
Steering == {"SwipePan", "SwipeMove", "SwipeResize", "PinchZoom"}

PinnedOutputsExist ==
    /\ ptr.grab.output \in Known \cup {NoOutput}
    /\ gesture_state.kind \in Steering => gesture_output \in Known \cup {NoOutput}
    /\ ptr.panning \subseteq Known

EdgePanHasGrab == \A o \in ptr.edge : o \in Known /\ ptr.grab = Grab("move", o)

LockedIsQuiet ==
    ~Unlocked => /\ gesture_state = NoGesture
                 /\ pending_middle_click = "none"
                 /\ ptr.panning \subseteq replaced
                 /\ ptr.grab.kind \notin {"pan", "navigate", "navigated"}

SteeringIsPinned == PinnedOutputsExist /\ EdgePanHasGrab /\ LockedIsQuiet

\* The outputs whose camera moves with a gesture or a drag of the canvas pinned to them.
Led ==
    {o \in outputs : \/ gesture_output = o /\ gesture_state.kind \in {"SwipePan", "PinchZoom"}
                     \/ ptr.grab = Grab("pan", o)}

\* The viewport of a fullscreen window is locked: no gesture and no drag of the canvas
\* begins to lead it while the window stays fullscreen.  The exceptions are a window that
\* is dragged onto the output, which pans it at its edges, and a gesture pinned to no
\* output, which moves the one with the focus.
ViewportStaysLocked ==
    [][\A o \in fullscreen \cap fullscreen' : o \in Led' => o \in Led]_vars
=============================================================================
