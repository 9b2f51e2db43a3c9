------------------------------- MODULE Grabs -------------------------------
(***************************************************************************)
(* The pointer as smithay keeps it, and the grabs of the compositor        *)
(* (grabs/*.rs): moving, resizing, panning and navigating, each pinned to  *)
(* an output.  The state is a record, so that one event handler may make   *)
(* several calls:                                                          *)
(*   pressed   buttons smithay counts as pressed                           *)
(*   client    buttons the surface under the pointer takes for pressed     *)
(*   focus     that surface: a window, or something else or nothing        *)
(*   grab      the active grab: its kind and output                        *)
(*   edge      outputs with an edge_pan_velocity                           *)
(*   panning   outputs whose panning flag is set                           *)
(*   resize    ResizeState of the window                                   *)
(***************************************************************************)
EXTENDS Session

CONSTANT Buttons   \* the buttons of the mouse and of the touchpad

Pinned == {"move", "resize", "pan", "navigate", "navigated"}

Grab(kind, o) == [kind |-> kind, output |-> o]
NoGrab == Grab("none", NoOutput)
ClickGrab == Grab("client", NoOutput)   \* smithay's: a button that went to a client is down

GrabType == {NoGrab, ClickGrab} \cup [kind : Pinned, output : Outputs]

PointerType ==
    [pressed : SUBSET Buttons, client : SUBSET Buttons, focus : {"window", "other"},
     grab : GrabType, edge : SUBSET Outputs, panning : SUBSET Outputs,
     resize : {"Idle", "Resizing", "WaitingForLastCommit"}]

NewPointer ==
    [pressed |-> {}, client |-> {}, focus |-> "other", grab |-> NoGrab, edge |-> {},
     panning |-> {}, resize |-> "Idle"]

-----------------------------------------------------------------------------
(* Setting and unsetting grabs *)

\* PointerGrab::unset: a move stops the edge panning of the output it is pinned to;
\* the others keep their flags.
Unset(p) ==
    [p EXCEPT !.grab = NoGrab,
              !.edge = IF p.grab.kind = "move" THEN @ \ {p.grab.output} ELSE @]

\* set_grab with Focus::Clear: the grab before is unset, and the surface is left.
SetGrab(p, kind, o) ==
    [Unset(p) EXCEPT !.grab = Grab(kind, o), !.client = {}, !.focus = "other"]

\* The pointer enters another surface, and leaves the one it was on.
Entering(p) == {[p EXCEPT !.focus = f, !.client = {}] : f \in {"window", "other"}}

\* unset_grab, whatever grab there is: what is under the pointer is entered again,
\* be it the same surface or another.  Without a grab nothing happens.
UnsetGrab(p) ==
    IF p.grab = NoGrab THEN {p}
    ELSE {Unset(p)} \cup Entering(Unset(p))

-----------------------------------------------------------------------------
(* Buttons *)

\* The button handlers of the four grabs, once no button is pressed any more.
EndGrab(p) ==
    CASE p.grab.kind = "resize" -> [Unset(p) EXCEPT !.resize = "WaitingForLastCommit"]
      [] p.grab.kind = "pan" -> [Unset(p) EXCEPT !.panning = @ \ {focused_output}]
      [] OTHER -> Unset(p)

\* pointer.button with a press.
PressTo(p, b) ==
    LET q == [p EXCEPT !.pressed = @ \cup {b}]
    IN  IF p.grab \in {NoGrab, ClickGrab}
        THEN [q EXCEPT !.client = @ \cup {b}, !.grab = ClickGrab]
        ELSE q

\* pointer.button with a release.
ReleaseTo(p, b) ==
    LET q == [p EXCEPT !.pressed = @ \ {b}, !.client = @ \ {b}]
    IN  IF q.pressed = {} THEN EndGrab(q) ELSE q

\* Starting a pan marks the output, starting a resize the window.  There is an output,
\* or nobody starts a grab.
StartPan(p) == SetGrab([p EXCEPT !.panning = @ \cup {focused_output}], "pan", focused_output)
StartResizing(p) == [p EXCEPT !.resize = "Resizing"]
StartResize(p) == SetGrab(StartResizing(p), "resize", focused_output)
StartMove(p) == SetGrab(p, "move", focused_output)
StartNavigate(p) == SetGrab(p, "navigate", focused_output)

-----------------------------------------------------------------------------
(* Motion *)

\* MoveSurfaceGrab::motion, the focus being on o, or nowhere: crossing re-pins the
\* grab, and moving near an edge starts or stops panning.
SlipMoveMotion(p, o) ==
    IF o \notin {p.grab.output, NoOutput}
    THEN {[p EXCEPT !.grab = Grab("move", o)]}
    ELSE {[p EXCEPT !.edge = @ \cup {p.grab.output}], [p EXCEPT !.edge = @ \ {p.grab.output}]}

MoveMotion(p, o) ==
    IF o \notin {p.grab.output, NoOutput}
    THEN {[p EXCEPT !.edge = @ \ {p.grab.output}, !.grab = Grab("move", o)]}
    ELSE {[p EXCEPT !.edge = @ \cup {p.grab.output}], [p EXCEPT !.edge = @ \ {p.grab.output}]}

\* A resize draws the focus back to its output, be it there or not.
FocusAfter(p, o) == IF p.grab.kind = "resize" /\ o # NoOutput THEN p.grab.output ELSE o

\* Where the motion of a grab may leave the pointer, the focus being on o; so does
\* warp_pointer, which moves it without the mouse.
GrabMotion(p, o) ==
    CASE p.grab.kind = "move" -> MoveMotion(p, o)
      [] p.grab = NoGrab      -> {p} \cup Entering(p)
      [] OTHER                -> {p}
=============================================================================
