------------------------------ MODULE WindowStage ------------------------------
(***************************************************************************)
(* The windows on the canvas as the handlers see them: which are in the    *)
(* Space, the deferred fit and fullscreen requests of windows that have    *)
(* not committed a size yet, fullscreen per output, keyboard focus, the    *)
(* focus history and the Alt-Tab cycle over it.                            *)
(*                                                                         *)
(* One action is one protocol request, one input event or one callback;    *)
(* calloop runs each to its end.  Positions are left out: where the code   *)
(* picks a window by its place (under the pointer, nearest, overlapping    *)
(* the one that closed) the model picks any window the code could pick.    *)
(* Dialogs nest one level deep.                                            *)
(***************************************************************************)
EXTENDS Naturals, Sequences

CONSTANTS
    Windows,     \* Window values; a destroyed window never comes back
    X11,         \* those that belong to Xwayland
    Widgets,     \* those whose window rule says widget
    Parent,      \* xdg_toplevel.set_parent: a window or NoWindow
    Outputs,
    NoWindow,    \* None
    Other        \* any focusable surface that is no window: layers, lock surfaces

ASSUME WindowStageAssumption ==
    /\ X11 \cup Widgets \subseteq Windows
    /\ X11 \cap Widgets = {}
    /\ Parent \in [Windows -> Windows \cup {NoWindow}]
    /\ \A w \in Windows : Parent[w] # NoWindow =>
           w \notin X11 \cup Widgets /\ Parent[Parent[w]] = NoWindow
    /\ {NoWindow, Other} \cap Windows = {} /\ NoWindow # Other
    /\ Outputs # {}

VARIABLES
    status,              \* "new", "live", "closed" (role gone), "gone" (surface gone)
    dying,               \* a crashed client's window, wl_surface already destroyed
    space,               \* the elements of the Space
    ruled,               \* widgets whose rule has been applied
    modal,               \* windows whose dialog hint is Modal
    pending_center, pending_fit, pending_fullscreen,
    fullscreen,          \* FullscreenState.window by output, NoWindow when absent
    active_output,
    focus,               \* keyboard.current_focus()
    focus_history,
    cycle_state,         \* 0 is None, i is Some(i - 1): the position in focus_history
    shown                \* not in the code: the window the cycle navigated to last

life     == <<status, dying, ruled, modal>>
pending  == <<pending_center, pending_fit, pending_fullscreen>>
keyboard == <<focus, focus_history>>
cycle    == <<cycle_state, shown>>
vars     == <<life, space, pending, fullscreen, active_output, keyboard, cycle>>

Live == {w \in Windows : status[w] = "live"}

-----------------------------------------------------------------------------
(* Helpers.  A keyboard value is [focus, history]; handlers that move the      *)
(* focus several times thread one through.  An operator whose name starts with *)
(* Slip is no part of the model: it is the definition after it with a          *)
(* plausible bug, and shows that a property below notices that bug.            *)

Keyboard == [focus |-> focus, history |-> focus_history]

\* The retain drops nothing.
SlipWithout(h, w) == h

\* focus_history.retain(|v| v != w)
Without(h, w) ==
    LET kept[i \in 0..Len(h)] ==
          IF i = 0 THEN <<>>
          ELSE IF h[i] = w THEN kept[i - 1] ELSE Append(kept[i - 1], h[i])
    IN  kept[Len(h)]

\* A focused window is put in front without being taken from its old place.
SlipPushed(h, w) == <<w>> \o h

\* update_focus_history: most recent first.
Pushed(h, w) == <<w>> \o Without(h, w)

\* Every focus change updates the history.
SlipSetFocus(k, f, sp) ==
    [focus   |-> f,
     history |-> IF f # k.focus /\ f \in sp \ (ruled \cup modal)
                 THEN Pushed(k.history, f) ELSE k.history]

\* keyboard.set_focus with the windows sp mapped, and focus_changed, which it
\* calls unless the target is focused already.
SetFocus(k, f, sp) ==
    [focus   |-> f,
     history |-> IF f # k.focus /\ cycle_state = 0 /\ f \in sp \ (ruled \cup modal)
                 THEN Pushed(k.history, f) ELSE k.history]

ModalChildren(w, sp) == {c \in sp \cap modal : Parent[c] = w}

\* Whom raise_and_focus(w) can focus: the modal child on top, or w.
RaiseTargets(w, sp) ==
    IF ModalChildren(w, sp) = {} THEN {w} ELSE ModalChildren(w, sp)

\* raise_and_focus of one of the windows S, with the windows sp mapped.
RaiseAndFocus(k, S, sp) ==
    {SetFocus(k, t, sp) : t \in UNION {RaiseTargets(w, sp) : w \in S}}

\* sync_pointer_focus_under_cursor: with focus_follows_mouse the window of S under
\* the pointer is focused, unless it is a widget or the output shows a fullscreen
\* window.  NoWindow: nothing to focus.
HoverTargets(S) ==
    {NoWindow} \cup (IF fullscreen[active_output] = NoWindow THEN S \ ruled ELSE {})

HoverFocus(k, v, sp) == IF v = NoWindow THEN {k} ELSE RaiseAndFocus(k, {v}, sp)

\* The cycle is left alone when the history shrinks.
SlipClampCycle(h) == cycle_state

\* The clamp after a removal from the history h.
ClampCycle(h) == IF cycle_state <= Len(h) THEN cycle_state ELSE Len(h)

\* enter_fullscreen(w) with the widgets wd known.  It does nothing for a widget and
\* only configures again where w is fullscreen already; what was fullscreen on the
\* active output is mapped at its old place, whether or not it is still alive.
EntersFullscreen(w, wd) == w \notin wd /\ fullscreen[active_output] # w

EnterFullscreen(w) ==
    /\ fullscreen' = [fullscreen EXCEPT ![active_output] = w]
    /\ space' = (space \cup {w, fullscreen[active_output]}) \ {NoWindow}

\* exit_fullscreen_on the outputs S.
ExitFullscreen(S) ==
    /\ fullscreen' = [o \in Outputs |-> IF o \in S THEN NoWindow ELSE fullscreen[o]]
    /\ space' = (space \cup {fullscreen[o] : o \in S}) \ {NoWindow}

SetKeyboard(k) == focus' = k.focus /\ focus_history' = k.history

-----------------------------------------------------------------------------

Init ==
    /\ status = [w \in Windows |-> "new"]
    /\ dying = NoWindow
    /\ space = {}
    /\ ruled = {}
    /\ modal = {}
    /\ pending_center = {} /\ pending_fit = {} /\ pending_fullscreen = {}
    /\ fullscreen = [o \in Outputs |-> NoWindow]
    /\ active_output \in Outputs
    /\ focus = NoWindow
    /\ focus_history = <<>>
    /\ cycle_state = 0
    /\ shown = NoWindow

-----------------------------------------------------------------------------
(* Windows appear *)

\* new_toplevel: mapped, not focused before its first sized commit.
NewToplevel(w) ==
    /\ w \notin X11 /\ status[w] = "new"
    /\ status' = [status EXCEPT ![w] = "live"]
    /\ space' = space \cup {w}
    /\ pending_center' = pending_center \cup {w}
    /\ UNCHANGED <<dying, ruled, modal, pending_fit, pending_fullscreen, fullscreen,
                   active_output, keyboard, cycle>>

\* map_window_request of the X11 window manager.
X11Map(w) ==
    /\ w \in X11 /\ status[w] = "new"
    /\ status' = [status EXCEPT ![w] = "live"]
    /\ space' = space \cup {w}
    /\ \E v \in HoverTargets((space \cap Live) \cup {w}) :
       \E k \in HoverFocus(Keyboard, v, space') : SetKeyboard(k)
    /\ UNCHANGED <<dying, ruled, modal, pending, fullscreen, active_output, cycle>>

\* Fit wins over fullscreen when both were requested early.
SlipSettlePending(w) ==
    /\ pending_center' = pending_center \ {w}
    /\ pending_fit' = pending_fit \ {w}
    /\ pending_fullscreen' = IF w \in pending_fit THEN pending_fullscreen
                             ELSE pending_fullscreen \ {w}

\* What the sized commit takes from the pending sets.  A fit request stays behind
\* when a fullscreen request came too.
SettlePending(w) ==
    /\ pending_center' = pending_center \ {w}
    /\ pending_fit' = IF w \in pending_fullscreen THEN pending_fit ELSE pending_fit \ {w}
    /\ pending_fullscreen' = pending_fullscreen \ {w}

\* The widget rule is applied without looking at the history.
SlipApplyRule(k, w) == k

\* First application of w's widget rule: out of the history, focus to its head.
ApplyRule(k, w) ==
    IF w \notin Widgets \ ruled THEN k
    ELSE LET h == Without(k.history, w)
             j == [k EXCEPT !.history = h]
         IN  IF h = <<>> THEN j ELSE SetFocus(j, Head(h), space)

\* A commit that does not settle w: still without a size, or a rule forces another.
CommitUnsized(w) ==
    /\ w \in pending_center /\ w \in space
    /\ ruled' = ruled \cup ({w} \cap Widgets)
    /\ SetKeyboard(ApplyRule(Keyboard, w))
    /\ UNCHANGED <<status, dying, modal, space, pending, fullscreen, active_output, cycle>>

\* The first sized commit: placement and tiling (which may move a hover focus), the
\* widget rule, focus for a floating window, and the deferred request.
CommitSized(w) ==
    LET deferred == w \in pending_fit \cup pending_fullscreen
        covers   == \E o \in Outputs : fullscreen[o] = w
    IN
    /\ w \in pending_center /\ w \in space
    /\ ruled' = ruled \cup ({w} \cap Widgets)
    /\ SettlePending(w)
    /\ \E v \in HoverTargets((space \cap Live) \ ({w} \cap Widgets)) :
       \E k1 \in HoverFocus(Keyboard, v, space) :
       \E k2 \in {ApplyRule(k1, w)} \cup
                 (IF w \in Widgets \/ covers \/ deferred THEN {}
                  ELSE RaiseAndFocus(k1, {w}, space)) :
       \E k3 \in HoverFocus(k2, v, space) :
          IF w \in pending_fullscreen /\ EntersFullscreen(w, ruled')
          THEN EnterFullscreen(w) /\ SetKeyboard(SetFocus(k3, w, space))
          ELSE /\ UNCHANGED <<fullscreen, space>>
               /\ IF w \in pending_fit \ (pending_fullscreen \cup Widgets)
                  THEN \E k \in RaiseAndFocus(k3, {w}, space) : SetKeyboard(k)
                  ELSE SetKeyboard(k3)
    /\ UNCHANGED <<status, dying, modal, active_output, cycle>>

-----------------------------------------------------------------------------
(* Requests of a client, or of a taskbar through wlr-foreign-toplevel *)

\* fullscreen_request, set_fullscreen: deferred until the first sized commit.
FullscreenRequest(w) ==
    /\ w \in Live \ X11
    /\ IF w \in pending_center
       THEN /\ pending_fullscreen' = pending_fullscreen \cup {w}
            /\ UNCHANGED <<fullscreen, space, keyboard>>
       ELSE /\ UNCHANGED pending_fullscreen
            /\ IF EntersFullscreen(w, ruled)
               THEN EnterFullscreen(w) /\ SetKeyboard(SetFocus(Keyboard, w, space))
               ELSE UNCHANGED <<fullscreen, space, keyboard>>
    /\ UNCHANGED <<life, pending_center, pending_fit, active_output, cycle>>

\* unfullscreen_request, unset_fullscreen: leaves it on the output found first.
UnfullscreenRequest(w) ==
    /\ w \in Live \ X11
    /\ pending_fullscreen' = pending_fullscreen \ {w}
    /\ LET on == {o \in Outputs : fullscreen[o] = w}
       IN  IF on = {} THEN UNCHANGED <<fullscreen, space>>
           ELSE \E o \in on : ExitFullscreen({o})
    /\ UNCHANGED <<life, pending_center, pending_fit, active_output, keyboard, cycle>>

\* maximize_request, set_maximized: deferred, or fit at once with raise and focus.
MaximizeRequest(w) ==
    /\ w \in Live \ X11
    /\ IF w \in pending_center
       THEN pending_fit' = pending_fit \cup {w} /\ UNCHANGED keyboard
       ELSE /\ UNCHANGED pending_fit
            /\ IF w \in ruled THEN UNCHANGED keyboard
               ELSE \E k \in RaiseAndFocus(Keyboard, {w}, space) : SetKeyboard(k)
    /\ UNCHANGED <<life, space, pending_center, pending_fullscreen, fullscreen,
                   active_output, cycle>>

\* unmaximize_request, unset_maximized: unfit keeps the focus where it is.
UnmaximizeRequest(w) ==
    /\ w \in Live \ X11
    /\ pending_fit' = pending_fit \ {w}
    /\ UNCHANGED <<life, space, pending_center, pending_fullscreen, fullscreen,
                   active_output, keyboard, cycle>>

\* dialog_hint_changed: a dialog that becomes modal takes the focus.
DialogHint(w) ==
    /\ w \in Live \ modal /\ Parent[w] # NoWindow
    /\ modal' = modal \cup {w}
    /\ focus' = w
    /\ UNCHANGED <<status, dying, ruled, space, pending, fullscreen, active_output,
                   focus_history, cycle>>

\* The hint is withdrawn (xdg_dialog.unset_modal, or the xdg_dialog object goes).
DialogUnset(w) ==
    /\ w \in Live \cap modal
    /\ modal' = modal \ {w}
    /\ UNCHANGED <<status, dying, ruled, space, pending, fullscreen, active_output,
                   keyboard, cycle>>

-----------------------------------------------------------------------------
(* Input *)

\* A click, a taskbar's activate, hover, navigation, IPC or a gesture focuses a
\* mapped window; gestures and IPC do not look for a modal child.  Key bindings
\* leave the active output's fullscreen first.
FocusWindow(w, leave) ==
    /\ w \in Live \cap space
    /\ leave => fullscreen[active_output] # NoWindow
    /\ ExitFullscreen(IF leave THEN {active_output} ELSE {})
    /\ \E k \in RaiseAndFocus(Keyboard, {w}, space') \cup {SetFocus(Keyboard, w, space')} :
          SetKeyboard(k)
    /\ UNCHANGED <<life, pending, active_output, cycle>>

\* A layer or lock surface gets the focus, or a click on the empty canvas or a
\* navigation to an anchor takes it from everyone.
FocusElsewhere(f) ==
    /\ f \in {Other, NoWindow} \ {focus}
    /\ focus' = f
    /\ UNCHANGED <<life, space, pending, fullscreen, active_output, focus_history, cycle>>

\* layer_destroyed of the focused layer, or unlock: back to the most recent window.
RefocusHead ==
    /\ focus \in {Other, NoWindow}
    /\ IF focus_history = <<>>
       THEN focus' = NoWindow /\ UNCHANGED focus_history
       ELSE SetKeyboard(SetFocus(Keyboard, Head(focus_history), space))
    /\ UNCHANGED <<life, space, pending, fullscreen, active_output, cycle>>

\* Action::ToggleFullscreen on the focused window.
ToggleFullscreen ==
    /\ IF fullscreen[active_output] # NoWindow
       THEN ExitFullscreen({active_output})
       ELSE focus \in space \ ruled /\ EnterFullscreen(focus)
    /\ UNCHANGED <<life, pending, active_output, keyboard, cycle>>

\* exit_fullscreen_on: another key binding, a gesture, a click, or output o unplugged.
ExitFullscreenOn(o) ==
    /\ fullscreen[o] # NoWindow
    /\ ExitFullscreen({o})
    /\ UNCHANGED <<life, pending, active_output, keyboard, cycle>>

\* The pointer moves to another output.
SwitchOutput(o) ==
    /\ o # active_output
    /\ active_output' = o
    /\ UNCHANGED <<life, space, pending, fullscreen, keyboard, cycle>>

\* Action::CycleWindows: leaves fullscreen, then moves the index (which may lie past
\* the end after a widget left the history) and navigates to the window there.
CycleWindows(backward) ==
    LET len == Len(focus_history)
        idx == IF cycle_state = 0 THEN 1 % len
               ELSE IF backward THEN (cycle_state - 1 + len - 1) % len
               ELSE cycle_state % len
        w   == focus_history[idx + 1]
    IN
    /\ ExitFullscreen({active_output})
    /\ IF focus_history = <<>> THEN UNCHANGED <<focus, cycle>>
       ELSE /\ cycle_state' = idx + 1
            /\ shown' = w
            /\ focus' \in RaiseTargets(w, space')
    /\ UNCHANGED <<life, pending, active_output, focus_history>>

\* The cycle modifier is released: end_cycle puts the selected window in front.
EndCycle ==
    /\ cycle_state # 0
    /\ cycle_state' = 0 /\ shown' = NoWindow
    /\ focus_history' = IF cycle_state > Len(focus_history) THEN focus_history
                        ELSE Pushed(focus_history, focus_history[cycle_state])
    /\ UNCHANGED <<life, space, pending, fullscreen, active_output, focus>>

\* A VT switch, a paused session or a lock request forgets the cycle; a lock request
\* also takes the focus from everyone.
DropCycle(lock) ==
    /\ cycle_state # 0
    /\ cycle_state' = 0 /\ shown' = NoWindow
    /\ focus' = IF lock THEN NoWindow ELSE focus
    /\ UNCHANGED <<life, space, pending, fullscreen, active_output, focus_history>>

-----------------------------------------------------------------------------
(* Windows go *)

\* The window that goes is not taken out of the candidates.
SlipFollowers(w) == ((space \cap Live) \ ruled) \cup ({Parent[w]} \cap space \cap Live)

\* The windows toplevel_destroyed(w) can choose to focus: the parent, a related or
\* recent window of the history that is on the canvas, or the nearest visible one.
Followers(w) == ((space \cap Live) \ (ruled \cup {w})) \cup ({Parent[w]} \cap space \cap Live)

\* toplevel_destroyed: the focus moves on while w is still mapped and listed, then w
\* leaves the history and the Space, and a tiled neighbour may take the focus again.
\* Of the outputs that show w fullscreen only one forgets it.
ToplevelDestroyed(w) ==
    LET on    == {o \in Outputs : fullscreen[o] = w}
        moves == focus \in {w, NoWindow} \/ (focus_history # <<>> /\ Head(focus_history) = w)
        k0    == Keyboard
        rest  == space \ {w}
    IN
    /\ w \in Live \ X11
    /\ status' = [status EXCEPT ![w] = IF dying = w THEN "gone" ELSE "closed"]
    /\ dying' = NoWindow
    /\ pending_center' = pending_center \ {w}
    /\ pending_fit' = pending_fit \ {w}
    /\ pending_fullscreen' = pending_fullscreen \ {w}
    /\ \E o \in IF on = {} THEN {NoWindow} ELSE on :
          fullscreen' = [p \in Outputs |-> IF p = o THEN NoWindow ELSE fullscreen[p]]
    /\ space' = rest
    /\ \E k1 \in IF moves THEN RaiseAndFocus(k0, Followers(w), space)
                               \cup {SetFocus(k0, NoWindow, space)}
                 ELSE {k0} :
       \E k2 \in LET k == [k1 EXCEPT !.history = Without(k1.history, w)]
                 IN  {k} \cup RaiseAndFocus(k, (rest \cap Live) \ ruled, rest) :
          /\ SetKeyboard(k2)
          /\ cycle_state' = ClampCycle(Without(k1.history, w))
          /\ shown' = IF cycle_state' = 0 THEN NoWindow ELSE shown
    /\ UNCHANGED <<ruled, modal, active_output>>

\* CompositorHandler::destroyed.  Normally the role has gone before; a client that
\* crashes may lose the wl_surface first, and toplevel_destroyed follows at once.
SurfaceDestroyed(w) ==
    /\ status[w] \in (IF w \in X11 THEN {"closed"} ELSE {"closed", "live"})
    /\ IF status[w] = "live"
       THEN dying' = w /\ UNCHANGED status
       ELSE status' = [status EXCEPT ![w] = "gone"] /\ UNCHANGED dying
    /\ focus_history' = Without(focus_history, w)
    /\ cycle_state' = ClampCycle(focus_history')
    /\ shown' = IF cycle_state' = 0 THEN NoWindow ELSE shown
    /\ UNCHANGED <<ruled, modal, space, pending, fullscreen, active_output, focus>>

\* unmapped_window, destroyed_window of the X11 window manager: the history, the
\* cycle and fullscreen are not told.  A tiled neighbour may take the focus.
X11Unmapped(w) ==
    /\ w \in X11 \cap Live
    /\ status' = [status EXCEPT ![w] = "closed"]
    /\ space' = space \ {w}
    /\ \E k \in {Keyboard}
                   \cup RaiseAndFocus(Keyboard, (space' \cap Live) \ ruled, space') : SetKeyboard(k)
    /\ UNCHANGED <<dying, ruled, modal, pending, fullscreen, active_output, cycle>>

\* space.refresh() at the end of a dispatch drops what is no longer alive.  An X11
\* window is alive until it is destroyed, which may be later than unmapped.
RefreshSpace ==
    /\ ~(space \subseteq Live)
    /\ \E S \in SUBSET X11 : space' = space \cap (Live \cup S)
    /\ UNCHANGED <<life, pending, fullscreen, active_output, keyboard, cycle>>

-----------------------------------------------------------------------------

Next ==
    \/ /\ dying = NoWindow
       /\ \/ \E w \in Windows :
                \/ NewToplevel(w) \/ X11Map(w) \/ CommitUnsized(w) \/ CommitSized(w)
                \/ FullscreenRequest(w) \/ UnfullscreenRequest(w)
                \/ MaximizeRequest(w) \/ UnmaximizeRequest(w)
                \/ DialogHint(w) \/ DialogUnset(w)
                \/ \E leave \in BOOLEAN : FocusWindow(w, leave)
                \/ ToplevelDestroyed(w) \/ SurfaceDestroyed(w) \/ X11Unmapped(w)
          \/ \E f \in {Other, NoWindow} : FocusElsewhere(f)
          \/ RefocusHead \/ ToggleFullscreen
          \/ \E o \in Outputs : ExitFullscreenOn(o) \/ SwitchOutput(o)
          \/ \E back \in BOOLEAN : CycleWindows(back)
          \/ EndCycle
          \/ \E lock \in BOOLEAN : DropCycle(lock)
          \/ RefreshSpace
    \/ \E w \in {dying} \cap Windows : ToplevelDestroyed(w)

Spec == Init /\ [][Next]_vars

-----------------------------------------------------------------------------
(* Properties *)

Members(h) == {h[i] : i \in 1..Len(h)}

\* Types; the focus history (state/navigation.rs) is a list without repetition.
TypeOK ==
    /\ status \in [Windows -> {"new", "live", "closed", "gone"}]
    /\ dying \in Windows \cup {NoWindow}
    /\ space \subseteq Windows /\ ruled \subseteq Widgets /\ modal \subseteq Windows
    /\ pending_center \cup pending_fit \cup pending_fullscreen \subseteq Windows
    /\ fullscreen \in [Outputs -> Windows \cup {NoWindow}]
    /\ active_output \in Outputs
    /\ focus \in Windows \cup {Other, NoWindow}
    /\ focus_history \in Seq(Windows)
    /\ \A i, j \in 1..Len(focus_history) : focus_history[i] = focus_history[j] => i = j
    /\ cycle_state \in Nat
    /\ shown \in Windows \cup {NoWindow} /\ (shown = NoWindow <=> cycle_state = 0)

\* A Wayland window in the focus history is alive and in the Space, whatever order
\* closing, crashing, focusing and cycling come in: toplevel_destroyed moves the
\* focus first and must still leave no trace of the window.  And no widget is listed
\* once its rule is applied, though it may have been focused before its first commit
\* (taskbar, IPC, modal hint).
WidgetsLeaveHistory == Members(focus_history) \cap ruled = {}

HistoryIsMapped ==
    /\ Members(focus_history) \ X11 \subseteq space \cap Live
    /\ WidgetsLeaveHistory

\* Keyboard focus is never left on a Wayland window that has closed, as far as it is
\* not a modal dialog (which raise_and_focus of its parent finds again while
\* toplevel_destroyed runs).
FocusIsMapped == focus \in Windows \ (X11 \cup modal) => focus \in space \cap Live

\* A deferred fullscreen request always has a first sized commit ahead that takes it
\* up: none is left behind by the commit, by closing or by a withdrawn request.
DeferredHasCommit == pending_fullscreen \subseteq pending_center

\* g is h without some of its elements.
Thinned(g, h) ==
    \E f \in [1..Len(g) -> 1..Len(h)] :
        /\ \A i, j \in 1..Len(g) : i < j => f[i] < f[j]
        /\ \A i \in 1..Len(g) : g[i] = h[f[i]]

\* While an Alt-Tab cycle goes on windows may only leave the focus history; nothing
\* is added or moved, whatever gets the focus meanwhile.
HistoryFrozen ==
    [][cycle_state # 0 /\ cycle_state' # 0 => Thinned(focus_history', focus_history)]_vars

\* The cycle index stays inside the history in every step, the widget rule apart: the
\* two ways a window can close, in either order, both clamp it.
CycleStaysInRange ==
    [][cycle_state <= Len(focus_history) /\ ruled' = ruled =>
         cycle_state' <= Len(focus_history')]_vars

\* What state/navigation.rs:239 says: "End Alt-Tab cycling: commit the selected
\* window to focus history".  Selected is the window the cycle showed last, as long as
\* it is listed and focused.
CycleCommitsShown ==
    [][EndCycle /\ shown \in Members(focus_history) /\ focus = shown =>
         Head(focus_history') = shown]_vars
=============================================================================
