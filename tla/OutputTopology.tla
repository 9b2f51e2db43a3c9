---------------------------- MODULE OutputTopology ----------------------------
(***************************************************************************)
(* What the output protocols share (backend/udev.rs): the monitors that    *)
(* have a surface, the virtual placeholder that stands for the last one    *)
(* while none is attached, and whether the session is switched to.         *)
(* Handlers run one at a time on the event loop.                           *)
(***************************************************************************)
EXTENDS FiniteSets

CONSTANT Outputs     \* the connectors of the GPU

VARIABLES
    surfaces,        \* DeviceData.surfaces
    placeholder,     \* disconnected_outputs
    drm_active       \* FALSE while switched to another VT

topology == <<surfaces, placeholder, drm_active>>

\* The outputs of the Space.
Mapped == surfaces \cup placeholder

TopologyInit ==
    /\ surfaces \in (SUBSET Outputs) \ {{}}
    /\ placeholder = {}
    /\ drm_active = TRUE

\* DrmScanEvent::Connected: placeholders go first, then create_surface succeeds or not.
Plugged(o, created) ==
    /\ o \notin surfaces
    /\ placeholder' = {}
    /\ surfaces' = IF created THEN surfaces \cup {o} ELSE surfaces
    /\ UNCHANGED drm_active

\* The Output objects that a connection makes unreachable by name.
Replaced(o, created) == placeholder \cup (IF created THEN {o} ELSE {})

\* DrmScanEvent::Disconnected: the last output stays as placeholder.
Unplugged(o) ==
    /\ o \in surfaces
    /\ surfaces' = surfaces \ {o}
    /\ placeholder' = IF surfaces = {o} THEN {o} ELSE placeholder
    /\ UNCHANGED drm_active

\* What the protocols keep of an unplugged output stays.
SlipGivenUp(o) == {}

\* The Output objects that are given up when o is unplugged.
GivenUp(o) == IF surfaces = {o} THEN {} ELSE {o}

Switched(active) ==
    /\ drm_active = ~active
    /\ drm_active' = active
    /\ UNCHANGED <<surfaces, placeholder>>
=============================================================================
