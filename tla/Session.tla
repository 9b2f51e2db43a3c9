------------------------------ MODULE Session ------------------------------
(***************************************************************************)
(* What keyboard and pointer input have in common: the session lock        *)
(* (SessionLockHandler in handlers/mod.rs), the focused output, fullscreen *)
(* (state/fullscreen.rs) and the actions bindings execute                  *)
(* (execute_action in input/actions.rs), as far as they touch these.       *)
(*                                                                         *)
(* Every operator here is one call on the thread of the compositor; the    *)
(* modules that extend this one say when it is made and what else it does. *)
(***************************************************************************)
EXTENDS Naturals, FiniteSets

CONSTANTS
    Outputs,    \* the Output objects: a monitor that comes gets a new one
    NoOutput

ASSUME OutputsAssumption == Outputs # {} /\ NoOutput \notin Outputs

VARIABLES
    session_lock,    \* SessionLock
    outputs,         \* the outputs of the space
    placeholder,     \* disconnected_outputs: the last monitor went, its output stayed
    replaced,        \* history: placeholders that made room for a monitor
    focused_output,  \* where input goes
    fullscreen,      \* outputs with a fullscreen window
    exited           \* gesture_exited_fullscreen holds a window

monitors == <<outputs, placeholder, replaced>>
session == <<session_lock, monitors, focused_output, fullscreen, exited>>

\* The outputs that something may still hold: nobody is told of a replaced one.
Known == outputs \cup replaced

SessionInit ==
    /\ session_lock = "unlocked"
    /\ outputs \in (SUBSET Outputs) \ {{}}
    /\ placeholder = FALSE
    /\ replaced = {}
    /\ focused_output \in outputs
    /\ fullscreen = {}
    /\ exited = FALSE

SessionTypeOK ==
    /\ session_lock \in {"unlocked", "pending", "locked"}
    /\ outputs \cup replaced \subseteq Outputs /\ outputs \cap replaced = {}
    /\ placeholder \in BOOLEAN
    /\ focused_output \in Known \cup {NoOutput}
    /\ outputs # {} => focused_output # NoOutput
    /\ fullscreen \subseteq Known
    /\ exited \in BOOLEAN

Unlocked == session_lock = "unlocked"
is_fullscreen == focused_output \in fullscreen

-----------------------------------------------------------------------------
(* The session lock *)

\* A client asks for the lock; it may do so again while it is locked.
BeginLock ==
    /\ session_lock' = "pending"
    /\ UNCHANGED <<monitors, focused_output, fullscreen, exited>>

\* The first commit of a lock surface confirms the lock.
ConfirmLock ==
    /\ session_lock = "pending"
    /\ session_lock' = "locked"
    /\ UNCHANGED <<monitors, focused_output, fullscreen, exited>>

\* SessionLockHandler::unlock
EndLock ==
    /\ session_lock = "locked"
    /\ session_lock' = "unlocked"
    /\ UNCHANGED <<monitors, focused_output, fullscreen, exited>>

-----------------------------------------------------------------------------
(* Fullscreen *)

\* enter_fullscreen, on the focused output; the window that was there leaves first.
enter_fullscreen ==
    /\ focused_output # NoOutput
    /\ fullscreen' = fullscreen \cup {focused_output}
    /\ UNCHANGED <<session_lock, monitors, focused_output, exited>>

\* exit_fullscreen_on: a client asks, or its window goes.
exit_fullscreen_on(o) ==
    /\ o \in fullscreen
    /\ fullscreen' = fullscreen \ {o}
    /\ UNCHANGED <<session_lock, monitors, focused_output, exited>>

\* exit_fullscreen_for_gesture, which runs only under is_fullscreen: what a gesture
\* left is remembered for the action it may come to.
exit_fullscreen_for_gesture ==
    /\ fullscreen' = fullscreen \ {focused_output}
    /\ exited' = TRUE
    /\ UNCHANGED <<session_lock, monitors, focused_output>>

-----------------------------------------------------------------------------
(* Actions.  Spawn and ReloadConfig leave fullscreen alone, ToggleFullscreen       *)
(* decides itself, FocusOutput moves the focus, all others only leave fullscreen.  *)

Effects == {"quiet", "toggle", "focus", "other"}

\* execute_action: what a gesture left counts as fullscreen, once.
execute_action(effect) ==
    /\ exited' = (exited /\ is_fullscreen)
    /\ UNCHANGED <<session_lock, monitors>>
    /\ \/ /\ effect = "quiet"
          /\ UNCHANGED <<fullscreen, focused_output>>
       \/ /\ effect = "toggle"
          /\ \/ /\ is_fullscreen
                /\ fullscreen' = fullscreen \ {focused_output}
             \/ /\ ~is_fullscreen /\ exited
                /\ UNCHANGED fullscreen
             \/ /\ ~is_fullscreen /\ ~exited   \* with or without a focused window
                /\ fullscreen' \in {fullscreen, fullscreen \cup ({focused_output} \ {NoOutput})}
          /\ UNCHANGED focused_output
       \/ /\ effect = "focus"   \* of an output there is not, nothing
          /\ fullscreen' = fullscreen \ {focused_output}
          /\ focused_output' \in outputs \cup {focused_output}
       \/ /\ effect = "other"
          /\ fullscreen' = fullscreen \ {focused_output}
          /\ UNCHANGED focused_output

\* execute_action, when the click that is bound to it has left fullscreen already: what
\* a gesture left counts no more, and a toggle may bring back what the click left.
act_after_leaving ==
    /\ exited' = FALSE
    /\ \/ /\ fullscreen' = fullscreen \ {focused_output}
          /\ focused_output' \in outputs \cup {focused_output}
       \/ UNCHANGED <<fullscreen, focused_output>>
    /\ UNCHANGED <<session_lock, monitors>>

-----------------------------------------------------------------------------
(* Monitors *)

\* teardown_output: the output of the last monitor stays, as a placeholder.
Unplug(o) ==
    /\ o \in outputs /\ ~placeholder
    /\ placeholder' = (outputs = {o})
    /\ outputs' = IF placeholder' THEN outputs ELSE outputs \ {o}
    /\ fullscreen' = fullscreen \ {o}
    /\ focused_output' \in IF focused_output = o THEN outputs' ELSE {focused_output}
    /\ UNCHANGED <<session_lock, replaced, exited>>

\* What a monitor that comes finds: a placeholder is unmapped first, with whatever
\* was begun on it, and the focus is cleared.
Left == IF placeholder THEN {} ELSE outputs
FocusLeft == IF placeholder THEN NoOutput ELSE focused_output

\* A monitor comes: create_surface makes its Output, and gives it the focus that
\* nobody has.  The pointer is warped there; a resize that goes on draws the focus
\* back to the placeholder that is gone (see Grabs).
Plug(o) ==
    /\ o \in Outputs \ (outputs \cup fullscreen \cup {focused_output})
    /\ outputs' = Left \cup {o}
    /\ replaced' = (replaced \cup (outputs \ Left)) \ {o}
    /\ placeholder' = FALSE
    /\ focused_output' \in IF FocusLeft = NoOutput THEN {o} \cup replaced' ELSE {FocusLeft}
    /\ UNCHANGED <<session_lock, fullscreen, exited>>

\* create_surface fails; what came before it stays done.
PlugFails ==
    /\ placeholder
    /\ outputs' = Left
    /\ replaced' = replaced \cup outputs
    /\ placeholder' = FALSE
    /\ focused_output' = FocusLeft
    /\ UNCHANGED <<session_lock, fullscreen, exited>>
=============================================================================
