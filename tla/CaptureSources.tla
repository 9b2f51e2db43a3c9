--------------------------- MODULE CaptureSources ---------------------------
(***************************************************************************)
(* What can be captured, as screen capture sees it: outputs that have a    *)
(* surface, and windows; and which outputs wait for a redraw.              *)
(***************************************************************************)
EXTENDS FiniteSets

CONSTANTS
    Outputs,
    Windows,
    XWindows,    \* the windows that XWayland shows
    NoSource

ASSUME CaptureSourcesAssumption ==
    /\ Outputs \cap Windows = {} /\ XWindows \subseteq Windows
    /\ NoSource \notin Outputs \cup Windows

VARIABLES
    outputs,          \* outputs with a surface; a monitor that comes back is a new one
    windows,          \* mapped, unmapped while the wl_surface lives on, or dead
    redraws_needed    \* outputs the frame loop is going to render

world == <<outputs, windows, redraws_needed>>

WorldInit ==
    /\ outputs = Outputs
    /\ windows = [w \in Windows |-> "mapped"]
    /\ redraws_needed = {}

WorldTypeOK ==
    /\ outputs \subseteq Outputs
    /\ windows \in [Windows -> {"mapped", "unmapped", "dead"}]
    /\ redraws_needed \subseteq outputs

\* What a source shows can still be had.
Lasts(src) == IF src \in Windows THEN windows[src] # "dead" ELSE src \in outputs

\* Something an output shows changes: a commit, the cursor, an animation.
Damage(o) ==
    /\ o \in outputs \ redraws_needed
    /\ redraws_needed' = redraws_needed \cup {o}
    /\ UNCHANGED <<outputs, windows>>

OutputGone(o) ==
    /\ o \in outputs
    /\ outputs' = outputs \ {o}
    /\ redraws_needed' = redraws_needed \ {o}
    /\ UNCHANGED windows

\* toplevel_destroyed and unmapped_window leave the wl_surface alone.
WindowUnmapped(w) ==
    /\ windows[w] = "mapped"
    /\ windows' = [windows EXCEPT ![w] = "unmapped"]
    /\ redraws_needed' \in IF w \in XWindows THEN {outputs} ELSE {redraws_needed, outputs}
    /\ UNCHANGED <<outputs>>

SurfaceGone(w) ==
    /\ windows[w] = "unmapped"
    /\ windows' = [windows EXCEPT ![w] = "dead"]
    /\ UNCHANGED <<outputs, redraws_needed>>
=============================================================================
