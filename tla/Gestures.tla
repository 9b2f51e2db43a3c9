------------------------------ MODULE Gestures ------------------------------
(***************************************************************************)
(* The gestures of a touchpad (input/gestures/*.rs): what a swipe, pinch   *)
(* or hold becomes when it begins, what its updates do, and what its end   *)
(* settles; and the middle click of a three-finger tap, which is held back *)
(* until it is known whether a swipe follows.                              *)
(*                                                                         *)
(* What the config binds a gesture to is a choice made when it begins.     *)
(* The touchpad reports one gesture at a time (hand).                      *)
(***************************************************************************)
EXTENDS Grabs

CONSTANT Middle   \* the button of a three-finger tap

ASSUME GesturesAssumption == Middle \in Buttons

VARIABLES
    ptr,                   \* the pointer, see Grabs
    hand,                  \* the gesture the fingers are making
    gesture_state,         \* what it became, and how often it has fired
    gesture_output,        \* the output it is pinned to
    pending_middle_click   \* none, pressed, or clicked (the release came too)

gestures == <<ptr, hand, gesture_state, gesture_output, pending_middle_click>>

Gesture(kind) == [kind |-> kind, fired |-> 0]
NoGesture == Gesture("none")

\* How often a gesture fires an action: a swipe once, a pinch once in and once out.
Fires == [SwipeThreshold |-> 1, PinchThreshold |-> 2]

Swipes == {"SwipePan", "SwipeMove", "SwipeResize", "SwipeThreshold"}
Pinches == {"PinchZoom", "PinchForward", "PinchThreshold"}
Hands == [none |-> {}, swipe |-> Swipes, pinch |-> Pinches, hold |-> {"HoldAction"}]

GesturesInit ==
    /\ ptr = NewPointer
    /\ hand = "none"
    /\ gesture_state = NoGesture
    /\ gesture_output = NoOutput
    /\ pending_middle_click = "none"

GesturesTypeOK ==
    /\ ptr \in PointerType
    /\ hand \in DOMAIN Hands
    /\ gesture_state \in [kind : {"none"} \cup UNION {Hands[h] : h \in DOMAIN Hands}, fired : 0..2]
    /\ gesture_output \in Known \cup {NoOutput}
    /\ pending_middle_click \in {"none", "pressed", "clicked"}

-----------------------------------------------------------------------------
(* The pointer moves without the mouse *)

\* warp_pointer, the focus being on o or nowhere.
Warp(o) ==
    /\ focused_output' = FocusAfter(ptr, o)
    /\ ptr' \in GrabMotion(ptr, focused_output')
    /\ UNCHANGED <<session_lock, monitors, fullscreen, exited>>

\* exit_fullscreen_remap_pointer and exit_fullscreen_for_gesture keep the pointer where
\* it is on the screen.
Remapped(p) == IF is_fullscreen THEN GrabMotion(p, focused_output) ELSE {p}

\* An action that moves the focus moves the pointer, and one that moves the camera may;
\* a resize draws the focus back.
Carried ==
    /\ ptr.grab.kind = "resize" => focused_output' = focused_output
    /\ \/ ptr' \in GrabMotion(ptr, focused_output')
       \/ UNCHANGED ptr /\ focused_output' = focused_output

Act ==
    \E effect \in Effects :
        /\ execute_action(effect)
        /\ IF effect = "quiet" THEN UNCHANGED ptr ELSE Carried

-----------------------------------------------------------------------------
(* The middle click that waits *)

\* flush_middle_click: the press, and the release if it came.
SlipFlushed(p) == PressTo(p, Middle)

Flushed(p) ==
    IF pending_middle_click = "clicked" THEN ReleaseTo(PressTo(p, Middle), Middle)
    ELSE PressTo(p, Middle)

\* The timer: no swipe followed within DOUBLE_TAP_WINDOW_MS.
FlushPending ==
    /\ pending_middle_click # "none"
    /\ ptr' = Flushed(ptr)
    /\ pending_middle_click' = "none"
    /\ UNCHANGED <<session, hand, gesture_state, gesture_output>>

-----------------------------------------------------------------------------
(* Swipe *)

\* Where a swipe leads: panning (also over no window, or a widget), moving (nowhere,
\* without an output), resizing.
Steer(p, kind) ==
    /\ gesture_output' = focused_output
    /\ IF kind = "SwipeMove" /\ focused_output = NoOutput
       THEN ptr' = p /\ UNCHANGED gesture_state
       ELSE /\ gesture_state' = Gesture(kind)
            /\ ptr' = CASE kind = "SwipeMove"   -> StartMove(p)
                        [] kind = "SwipeResize" -> StartResizing(p)
                        [] OTHER                -> p

\* The tap before the swipe: bound to moving or resizing the window it is over, the
\* click is dropped (a widget pans instead of moving); else it is sent first.
TapSwipe(p) ==
    /\ pending_middle_click # "none"
    /\ \E kind \in {"SwipeMove", "SwipeResize", "SwipePan"} : Steer(p, kind)

\* The binding of the swipe itself.  An unbound one goes to the client; what the
\* gesture was pinned to, or is pinned to for the sake of the tap, stays.
Swipe(p) ==
    \/ \E kind \in Swipes : Steer(p, kind)
    \/ /\ ptr' = p
       /\ gesture_output' \in IF pending_middle_click = "none" THEN {gesture_output}
                              ELSE {gesture_output, focused_output}
       /\ UNCHANGED gesture_state

\* Swipes have three fingers or more: they end fullscreen before anything else.
SlipLeaveFullscreen == UNCHANGED session

LeaveFullscreen ==
    IF is_fullscreen THEN exit_fullscreen_for_gesture ELSE UNCHANGED session

SwipeBegin ==
    /\ LeaveFullscreen
    /\ \E p \in Remapped(ptr) :
          TapSwipe(p) \/ Swipe(IF pending_middle_click = "none" THEN p ELSE Flushed(p))
    /\ pending_middle_click' = "none"

\* An update.  A move may take window, focus and gesture to another output; a resize
\* draws the focus back; a threshold fires once.
Threshold(kind) ==
    /\ gesture_state.kind = kind
    /\ gesture_state.fired < Fires[kind]
    /\ gesture_state' = [gesture_state EXCEPT !.fired = @ + 1]
    /\ \/ Act
       \/ UNCHANGED <<session, ptr>>   \* bound to nothing in this direction
    /\ UNCHANGED gesture_output

SwipeMove ==
    /\ gesture_state.kind = "SwipeMove"
    /\ gesture_output # NoOutput
    /\ \E o \in outputs \cup {gesture_output} :
          /\ gesture_output' = o
          /\ Warp(IF o # gesture_output THEN o ELSE focused_output)
    /\ UNCHANGED gesture_state

SwipeResize ==
    /\ gesture_state.kind = "SwipeResize"
    /\ Warp(IF NoOutput \in {gesture_output, focused_output} THEN focused_output ELSE gesture_output)
    /\ UNCHANGED <<gesture_state, gesture_output>>

\* Panning and zooming keep the pointer where it is on the screen.
SteerCamera(kind) ==
    /\ gesture_state.kind = kind
    /\ Warp(focused_output)
    /\ UNCHANGED <<gesture_state, gesture_output>>

SwipeUpdate ==
    /\ hand = "swipe"
    /\ SteerCamera("SwipePan") \/ SwipeMove \/ SwipeResize \/ Threshold("SwipeThreshold")
    /\ UNCHANGED <<hand, pending_middle_click>>

\* The end: a move takes away whatever grab there is, a resize waits for the commit.
SlipTaken == UNCHANGED gesture_state

Taken == gesture_state' = NoGesture

SwipeEnd ==
    /\ Taken
    /\ gesture_output' = NoOutput
    /\ ptr' \in CASE gesture_state.kind = "SwipeMove"   -> UnsetGrab(ptr)
                  [] gesture_state.kind = "SwipeResize" -> {[ptr EXCEPT !.resize = "WaitingForLastCommit"]}
                  [] OTHER                              -> {ptr}
    /\ UNCHANGED <<session, pending_middle_click>>

-----------------------------------------------------------------------------
(* Pinch and hold *)

\* Two fingers on a fullscreen window are the window's own; more end fullscreen.
PinchBegin ==
    /\ UNCHANGED pending_middle_click
    /\ \/ is_fullscreen /\ UNCHANGED <<session, ptr, gesture_state, gesture_output>>
       \/ /\ LeaveFullscreen
          /\ ptr' \in Remapped(ptr)
          /\ \/ gesture_state' = Gesture("PinchZoom") /\ gesture_output' = focused_output
             \/ /\ \E kind \in {"PinchThreshold", "PinchForward"} : gesture_state' = Gesture(kind)
                /\ UNCHANGED gesture_output

PinchUpdate ==
    /\ hand = "pinch"
    /\ SteerCamera("PinchZoom") \/ Threshold("PinchThreshold")
    /\ UNCHANGED <<hand, pending_middle_click>>

\* The end of a zoom may snap it.
PinchEnd ==
    /\ Taken
    /\ gesture_output' = NoOutput
    /\ \/ gesture_state.kind = "PinchZoom" /\ Warp(focused_output)
       \/ UNCHANGED <<session, ptr>>
    /\ UNCHANGED pending_middle_click

\* A bound hold acts at its end, unless it is cancelled; another goes to the client.
HoldBegin ==
    /\ gesture_state' \in {Gesture("HoldAction"), gesture_state}
    /\ UNCHANGED <<session, ptr, gesture_output, pending_middle_click>>

HoldEnd ==
    /\ Taken
    /\ \/ gesture_state.kind = "HoldAction" /\ Act
       \/ UNCHANGED <<session, ptr>>
    /\ UNCHANGED <<gesture_output, pending_middle_click>>

-----------------------------------------------------------------------------
(* The touchpad.  While the session is locked no gesture event is looked at. *)

BeginGesture(h) ==
    /\ hand = "none"
    /\ hand' = h
    /\ \/ ~Unlocked /\ UNCHANGED <<session, ptr, gesture_state, gesture_output, pending_middle_click>>
       \/ Unlocked /\ h = "swipe" /\ SwipeBegin
       \/ Unlocked /\ h = "pinch" /\ PinchBegin
       \/ Unlocked /\ h = "hold" /\ HoldBegin

EndGesture ==
    /\ hand # "none"
    /\ hand' = "none"
    /\ \/ ~Unlocked /\ UNCHANGED <<session, ptr, gesture_state, gesture_output, pending_middle_click>>
       \/ Unlocked /\ hand = "swipe" /\ SwipeEnd
       \/ Unlocked /\ hand = "pinch" /\ PinchEnd
       \/ Unlocked /\ hand = "hold" /\ HoldEnd

GestureNext ==
    \/ \E h \in DOMAIN Hands \ {"none"} : BeginGesture(h)
    \/ Unlocked /\ (SwipeUpdate \/ PinchUpdate)
    \/ EndGesture
    \/ FlushPending
=============================================================================
