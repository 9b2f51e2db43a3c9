--------------------------- MODULE ForeignToplevels ---------------------------
(***************************************************************************)
(* wlr-foreign-toplevel-management (protocols/foreign_toplevel.rs): what   *)
(* taskbars and docks are told of the windows.  Nothing is told when it    *)
(* happens: a pass of the frame loop compares the windows with what it     *)
(* told before.  Outputs are told when they come and go.                   *)
(*                                                                         *)
(* A watcher is a manager object with its client.  The title, app id and   *)
(* states of a window are one value of Looks.  A wl_output that stands for *)
(* an Output that was replaced is not followed.                            *)
(***************************************************************************)
EXTENDS OutputTopology

CONSTANTS
    Windows,     \* wl_surfaces of windows
    Watchers,
    Looks,
    NoWindow

ASSUME ForeignToplevelsAssumption == NoWindow \notin Windows

VARIABLES
    shown,        \* windows of the Space that are no widgets
    look,
    focused,      \* keyboard focus, if that is a window
    toplevels,    \* ForeignToplevelManagerState.toplevels: what was told last
    watching,     \* watchers whose manager is in instances
    wl_outputs,   \* outputs a watcher has bound
    handles,      \* what a watcher was told, for the windows it has a handle of
    dismissed     \* history: handles the watcher destroyed

windows    == <<shown, look, focused>>
told       == <<toplevels, watching, wl_outputs, handles, dismissed>>
foreign    == <<windows, told>>

ForeignInit ==
    /\ shown = {} /\ look \in [Windows -> Looks] /\ focused = NoWindow
    /\ toplevels = <<>>
    /\ watching = {}
    /\ wl_outputs = [m \in Watchers |-> {}]
    /\ handles = [m \in Watchers |-> <<>>]
    /\ dismissed = wl_outputs

ToplevelData == [look : Looks, active : BOOLEAN]
HandleData == [look : Looks, active : BOOLEAN, on : SUBSET Outputs]

ForeignTypeOK ==
    /\ shown \subseteq Windows /\ look \in [Windows -> Looks]
    /\ focused \in Windows \cup {NoWindow}
    /\ DOMAIN toplevels \subseteq Windows
    /\ \A w \in DOMAIN toplevels : toplevels[w] \in ToplevelData
    /\ watching \subseteq Watchers
    /\ wl_outputs \in [Watchers -> SUBSET Outputs]
    /\ \A m \in Watchers : \A w \in DOMAIN handles[m] : handles[m][w] \in HandleData

-----------------------------------------------------------------------------
(* Watchers *)

\* add_instance: a handle is on every output whose wl_output its client has bound.
Instance(m, data) ==
    [look |-> data.look, active |-> data.active, on |-> wl_outputs[m] \cap Mapped]

WatchToplevels(m) ==
    /\ m \notin watching /\ handles[m] = <<>>
    /\ watching' = watching \cup {m}
    /\ handles' = [handles EXCEPT ![m] = [w \in DOMAIN toplevels |-> Instance(m, toplevels[w])]]
    /\ dismissed' = [dismissed EXCEPT ![m] = {}]
    /\ UNCHANGED <<windows, toplevels, wl_outputs>>

\* stop, and the end of the manager object.  The handles live on.
StopWatching(m) ==
    /\ m \in watching
    /\ watching' = watching \ {m}
    /\ UNCHANGED <<windows, toplevels, wl_outputs, handles, dismissed>>

DestroyHandle(m, w) ==
    /\ w \in DOMAIN handles[m]
    /\ handles' = [handles EXCEPT ![m] = [v \in DOMAIN handles[m] \ {w} |-> handles[m][v]]]
    /\ dismissed' = [dismissed EXCEPT ![m] = @ \cup {w}]
    /\ UNCHANGED <<windows, toplevels, watching, wl_outputs>>

WatcherGone(m) ==
    /\ watching' = watching \ {m}
    /\ wl_outputs' = [wl_outputs EXCEPT ![m] = {}]
    /\ handles' = [handles EXCEPT ![m] = <<>>]
    /\ dismissed' = [dismissed EXCEPT ![m] = {}]
    /\ UNCHANGED <<windows, toplevels>>

\* The handles of m, told of outputs they leave and enter.
Moved(m, leave, enter) ==
    [w \in DOMAIN handles[m] |-> [handles[m][w] EXCEPT !.on = (@ \ leave) \cup enter]]

\* The global of the placeholder is disabled, which stops no bind that is under way.
BindOutput(m, o) ==
    /\ o \in Mapped \ wl_outputs[m]
    /\ wl_outputs' = [wl_outputs EXCEPT ![m] = @ \cup {o}]
    /\ UNCHANGED <<windows, toplevels, watching, handles, dismissed>>

\* A wl_output that is released is no output of any handle.
ReleaseOutput(m, o) ==
    /\ o \in wl_outputs[m]
    /\ wl_outputs' = [wl_outputs EXCEPT ![m] = @ \ {o}]
    /\ handles' = [handles EXCEPT ![m] = Moved(m, {o}, {})]
    /\ UNCHANGED <<windows, toplevels, watching, dismissed>>

\* activate, set_fullscreen and their like, as far as they are seen here; a handle that
\* was closed asks for nothing.
HandleRequest(m, w) ==
    /\ w \in DOMAIN handles[m] /\ w \in DOMAIN toplevels
    /\ \/ focused' \in {focused, w} /\ UNCHANGED look
       \/ look' \in {[look EXCEPT ![w] = l] : l \in Looks} /\ UNCHANGED focused
    /\ UNCHANGED <<shown, told>>

\* What becomes of windows: they come and go, change their title, and are focused.
WindowsChange ==
    /\ \/ \E w \in Windows : /\ shown' \in {shown \cup {w}, shown \ {w}}
                             /\ UNCHANGED <<look, focused>>
       \/ \E w \in Windows, l \in Looks : /\ look' = [look EXCEPT ![w] = l]
                                         /\ UNCHANGED <<shown, focused>>
       \/ focused' \in Windows \cup {NoWindow} /\ UNCHANGED <<shown, look>>
    /\ UNCHANGED told

ForeignRequest ==
    \/ WindowsChange
    \/ \E m \in Watchers :
         \/ WatchToplevels(m) \/ StopWatching(m) \/ WatcherGone(m)
         \/ \E w \in Windows : DestroyHandle(m, w) \/ HandleRequest(m, w)
         \/ \E o \in Outputs : BindOutput(m, o) \/ ReleaseOutput(m, o)

-----------------------------------------------------------------------------
(* The frame loop *)

Data(w) == [look |-> look[w], active |-> w = focused]

\* Windows that m gets a handle of: those it has, and new ones.
SlipInstances(m) == IF m \in watching THEN shown ELSE shown \cap DOMAIN handles[m]

Instances(m) ==
    shown \cap (DOMAIN handles[m] \cup (IF m \in watching THEN Windows \ DOMAIN toplevels ELSE {}))

\* refresh: the windows that went are closed, the others compared, and new ones told.
ToplevelsRefreshed ==
    /\ toplevels' = [w \in shown |-> Data(w)]
    /\ handles' = [m \in Watchers |->
                     [w \in Instances(m) |->
                        IF w \in DOMAIN handles[m]
                        THEN [handles[m][w] EXCEPT !.look = look[w], !.active = (w = focused)]
                        ELSE Instance(m, Data(w))]]
    /\ dismissed' = [m \in Watchers |-> dismissed[m] \cap shown]
    /\ UNCHANGED <<windows, watching, wl_outputs>>

\* The windows that were told when refresh is under way: the focused one comes last, the
\* others come in the order of the Space, which may be any.
SlipUnderWay == SUBSET shown

UnderWay == {shown} \cup SUBSET (shown \ {focused})

-----------------------------------------------------------------------------
(* Outputs *)

\* send_output_leave_all, in teardown_output.  The wl_output of the last output stays
\* with the placeholder.
ForeignUnplugged(o) ==
    /\ handles' = [m \in Watchers |-> Moved(m, {o}, {})]
    /\ wl_outputs' = [m \in Watchers |-> wl_outputs[m] \ GivenUp(o)]
    /\ UNCHANGED <<windows, toplevels, watching, dismissed>>

\* send_output_enter_all, right after the new output was made: its client_outputs are
\* those of an Output that nobody has seen yet.
ForeignPlugged(o, created) ==
    LET bound(m) == wl_outputs[m] \ Replaced(o, created)
        enter(m) == IF created THEN bound(m) \cap {o} ELSE {}
    IN  /\ wl_outputs' = [m \in Watchers |-> bound(m)]
        /\ handles' = [m \in Watchers |-> Moved(m, Replaced(o, created), enter(m))]
        /\ UNCHANGED <<windows, toplevels, watching, dismissed>>

-----------------------------------------------------------------------------
(* Properties *)

\* A watcher has a handle of every window that is listed, unless it destroyed it or has
\* stopped, and of no other, each on outputs that are there; and the handle shows what was
\* told last, whenever it was made.
HandlesAreTold ==
    \A m \in Watchers :
      /\ IF m \in watching THEN DOMAIN handles[m] = DOMAIN toplevels \ dismissed[m]
         ELSE DOMAIN handles[m] \subseteq DOMAIN toplevels \ dismissed[m]
      /\ \A w \in DOMAIN handles[m] :
           /\ handles[m][w].look = toplevels[w].look /\ handles[m][w].active = toplevels[w].active
           /\ handles[m][w].on \subseteq wl_outputs[m] \cap Mapped

\* Wherever the next refresh has got to, a watcher sees one active window at most:
\* "deactivate-before-activate ordering".
OneActivated ==
    \A m \in Watchers : \A done \in UnderWay :
      \A v, w \in shown \cap DOMAIN handles[m] :
        LET active(u) == IF u \in done THEN u = focused ELSE handles[m][u].active
        IN  active(v) /\ active(w) => v = w

\* "Canvas windows appear on all outputs": while the session is switched to, a handle is
\* soon on every output that its client has bound, also on one that was plugged in later.
OutputsAreEntered ==
    \A m \in Watchers, w \in Windows, o \in Outputs :
      LET missing == /\ drm_active /\ w \in DOMAIN handles[m] /\ o \in surfaces \cap wl_outputs[m]
                     /\ o \notin handles[m][w].on
      IN  missing ~> ~missing
=============================================================================
