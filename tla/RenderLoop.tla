------------------------------- MODULE RenderLoop -------------------------------
(***************************************************************************)
(* The frame loop of the udev backend (backend/udev.rs): which outputs     *)
(* need a repaint, which CRTCs are waiting for a page flip or for an       *)
(* estimated vblank, DPMS, queued mode changes, VT switches and hotplug.   *)
(*                                                                         *)
(* The compositor is one calloop thread.  Every event source is an action  *)
(* that runs to its end; render_if_needed is the callback calloop runs     *)
(* after the sources that were ready have been dispatched, so any number   *)
(* of events may happen between two RenderIfNeeded steps.                  *)
(*                                                                         *)
(* An output, its connector name and its CRTC are one element of Outputs.  *)
(* A reconnected monitor gets a new Output object; what older objects      *)
(* leave behind in a set keyed by Output cannot match it and is dropped    *)
(* from the set here, except that it still defeats the idle test, which    *)
(* orphan_redraw and orphan_dpms remember.                                 *)
(***************************************************************************)
EXTENDS Naturals, FiniteSets

CONSTANTS
    Outputs,     \* the connectors of the GPU
    NoOutput,    \* Option::<Output>::None
    MaxRetries,  \* deferrals of a queued mode change before it is dropped
    StuckOn      \* outputs whose compositor.clear may fail

ASSUME RenderLoopAssumption ==
    /\ NoOutput \notin Outputs
    /\ MaxRetries \in Nat
    /\ StuckOn \subseteq Outputs

VARIABLES
    surfaces,                \* CRTCs with a DRM surface (DeviceData.surfaces)
    space_outputs,           \* outputs mapped in the Space, placeholder included
    disconnected_outputs,    \* the virtual placeholder, when there is one
    focused_output,
    active_outputs,          \* the universe of mark_all_dirty
    drm_active,              \* FALSE while switched to another VT
    redraws_needed,
    orphan_redraw,           \* redraws_needed names an Output without a surface
    frames_pending,
    estimated_vblank_timers,
    dpms_off_outputs,
    pending_dpms,
    orphan_dpms,             \* pending_dpms names an Output that was replaced
    pending_modes,           \* keys of pending_mode_changes
    retry_count,             \* PendingMode.retry_count, 0 when nothing is queued
    output_config_dirty,
    animating,               \* outputs with an animation or a chunk still loading
    global_animation,        \* key repeat, loading cursor, animated background
    \* The device, as the code sees it:
    inflight,                \* frames queued whose flip has not completed
    late,                    \* flips cancelled by a clear whose event is unread
    blanked                  \* cleared by DPMS off, no frame rendered since

topology == <<surfaces, space_outputs, disconnected_outputs, focused_output,
              active_outputs>>
pacing   == <<redraws_needed, orphan_redraw, frames_pending,
              estimated_vblank_timers>>
power    == <<dpms_off_outputs, pending_dpms, orphan_dpms>>
modes    == <<pending_modes, retry_count, output_config_dirty>>
ticks    == <<animating, global_animation>>
device   == <<inflight, late, blanked>>
vars     == <<topology, drm_active, pacing, power, modes, ticks, device>>

-----------------------------------------------------------------------------
(* Helpers.  An operator whose name starts with Slip is no part of the model:  *)
(* it is the definition after it with a plausible bug, and shows that a        *)
(* property below notices that bug.                                            *)

\* The outcomes render_frame can have on the outputs of S: those queued to the
\* kernel.  The others got an empty frame or an error; a paused device refuses
\* every frame.
Queued(S) == IF drm_active THEN SUBSET S ELSE {{}}

\* A frame that was rendered counts as pending even when none was queued.
SlipRenderFrames(S, ok, redraws, pending, timers, flips) ==
    /\ redraws_needed' = redraws \ S
    /\ frames_pending' = pending \cup S
    /\ estimated_vblank_timers' = timers
    /\ inflight' = [o \in Outputs |-> IF o \in ok /\ flips[o] < 2
                                     THEN flips[o] + 1 ELSE flips[o]]

\* render_frame on every output of S, of which ok are queued, from the given
\* redraw set, pacing tokens and flips.  DrmCompositor keeps one frame behind the
\* flip in progress and replaces it when a further one is queued.
RenderFrames(S, ok, redraws, pending, timers, flips) ==
    /\ redraws_needed' = redraws \ S
    /\ frames_pending' = pending \cup ok
    /\ estimated_vblank_timers' = timers \cup (S \ ok)
    /\ inflight' = [o \in Outputs |-> IF o \in ok /\ flips[o] < 2
                                     THEN flips[o] + 1 ELSE flips[o]]

\* Everything mapped is dirty, the placeholder included.
SlipMarkAllDirty ==
    /\ redraws_needed' = space_outputs
    /\ orphan_redraw' = FALSE

MarkAllDirty ==
    /\ redraws_needed' = active_outputs
    /\ orphan_redraw' = FALSE

\* Only a flip in progress holds a frame back.
SlipWaiting(pending, timers) == pending

\* The outputs that render_if_needed does not render yet.
Waiting(pending, timers) == pending \cup timers

\* DPMS off forgets the pacing token of the frame it cancels.
SlipAfterPowerOff(tokens, off) == tokens

\* The pacing tokens left by the DPMS transitions that switch `off` off.
AfterPowerOff(tokens, off) == tokens \ off

\* Nothing needs attention: render_if_needed returns at once.
FastPath ==
    /\ redraws_needed = {}
    /\ ~orphan_redraw
    /\ animating = {}
    /\ ~global_animation
    /\ ~output_config_dirty
    /\ ~orphan_dpms
    /\ \A o \in Outputs : pending_dpms[o] = "none"

-----------------------------------------------------------------------------
(* Start-up: init_udev created a surface for some connector, rendered it,  *)
(* and failed unless there was one.                                        *)

Init ==
    \E S \in (SUBSET Outputs) \ {{}} : \E ok \in SUBSET S : \E first \in S :
        /\ surfaces = S
        /\ space_outputs = S
        /\ disconnected_outputs = {}
        /\ focused_output = first
        /\ active_outputs = S
        /\ drm_active = TRUE
        /\ redraws_needed = {}
        /\ orphan_redraw = FALSE
        /\ frames_pending = ok
        /\ estimated_vblank_timers = S \ ok
        /\ dpms_off_outputs = {}
        /\ pending_dpms = [o \in Outputs |-> "none"]
        /\ orphan_dpms = FALSE
        /\ pending_modes = {}
        /\ retry_count = [o \in Outputs |-> 0]
        /\ output_config_dirty = FALSE
        /\ animating = {}
        /\ global_animation = FALSE
        /\ inflight = [o \in Outputs |-> IF o \in ok THEN 1 ELSE 0]
        /\ late = {}
        /\ blanked = {}

-----------------------------------------------------------------------------
(* Requests of clients and of the user *)

\* mark_dirty_for_surface: a commit visible on o, which may be the placeholder.
ClientDamage(o) ==
    /\ o \in space_outputs
    /\ IF o \in surfaces
       THEN redraws_needed' = redraws_needed \cup {o} /\ UNCHANGED orphan_redraw
       ELSE orphan_redraw' = TRUE /\ UNCHANGED redraws_needed
    /\ UNCHANGED <<topology, drm_active, frames_pending, estimated_vblank_timers,
                   power, modes, ticks, device>>

\* Any handler that calls mark_all_dirty: layout changes, lock, pointer motion.
DamageAll ==
    /\ MarkAllDirty
    /\ UNCHANGED <<topology, drm_active, frames_pending, estimated_vblank_timers,
                   power, modes, ticks, device>>

\* set_dpms, called for zwlr_output_power_v1.set_mode.
SetDpms(o, on) ==
    /\ o \in space_outputs
    /\ IF (o \notin dpms_off_outputs) = on
       THEN /\ pending_dpms' = [pending_dpms EXCEPT ![o] = "none"]
            /\ UNCHANGED dpms_off_outputs
       ELSE /\ dpms_off_outputs' = IF on THEN dpms_off_outputs \ {o}
                                   ELSE dpms_off_outputs \cup {o}
            /\ pending_dpms' = [pending_dpms EXCEPT ![o] = IF on THEN "on" ELSE "off"]
    /\ UNCHANGED <<topology, drm_active, pacing, orphan_dpms, modes, ticks, device>>

QueueModes(S) ==
    /\ pending_modes' = pending_modes \cup S
    /\ retry_count' = [o \in Outputs |-> IF o \in S THEN 0 ELSE retry_count[o]]

\* apply_output_config: a validated wlr-output-management Apply that changes the
\* mode of the outputs S (possibly none).
ApplyOutputConfig(S) ==
    /\ S \subseteq space_outputs
    /\ QueueModes(S)
    /\ output_config_dirty' = TRUE
    /\ MarkAllDirty
    /\ UNCHANGED <<topology, drm_active, frames_pending, estimated_vblank_timers,
                   power, ticks, device>>

\* reload_config: the [[outputs]] rules ask new modes for S; scale, transform or
\* position may change too.
ReloadConfig(S) ==
    /\ S \subseteq space_outputs
    /\ QueueModes(S)
    /\ output_config_dirty' \in {output_config_dirty, TRUE}
    /\ MarkAllDirty
    /\ UNCHANGED <<topology, drm_active, frames_pending, estimated_vblank_timers,
                   power, ticks, device>>

\* The pointer or a gesture moves to another output.
FocusOutput(o) ==
    /\ o \in space_outputs
    /\ focused_output' = o
    /\ UNCHANGED <<surfaces, space_outputs, disconnected_outputs, active_outputs,
                   drm_active, pacing, power, modes, ticks, device>>

\* A camera or zoom target, momentum or edge pan is set on o.
StartAnimation(o) ==
    /\ o \in space_outputs
    /\ animating' = animating \cup {o}
    /\ UNCHANGED <<topology, drm_active, pacing, power, modes, global_animation,
                   device>>

\* A repeating key goes down or up, the loading cursor is shown or removed.
ToggleGlobalAnimation ==
    /\ global_animation' = ~global_animation
    /\ UNCHANGED <<topology, drm_active, pacing, power, modes, animating, device>>

-----------------------------------------------------------------------------
(* The device: vblanks, estimated vblanks, VT switches, hotplug *)

\* DrmEvent::VBlank.  Events are read in order: the one of a cancelled flip
\* precedes the one of a flip queued after it.
VBlank(o) ==
    /\ o \in surfaces
    /\ o \in late \/ inflight[o] > 0
    /\ late' = late \ {o}
    /\ LET flips == IF o \in late THEN inflight
                    ELSE [inflight EXCEPT ![o] = @ - 1]
           repaint == {o} \cap redraws_needed
       IN \E ok \in Queued(repaint) :
            /\ RenderFrames(repaint, ok, redraws_needed, frames_pending \ {o},
                            estimated_vblank_timers \ {o}, flips)
            /\ blanked' = blanked \ repaint
    /\ UNCHANGED <<topology, drm_active, orphan_redraw, power, modes, ticks>>

\* The timer fires and its token stays.
SlipEstimatedVBlank(o) == o \in estimated_vblank_timers /\ UNCHANGED vars

\* The timer of queue_estimated_vblank_timer.
EstimatedVBlank(o) ==
    /\ o \in estimated_vblank_timers
    /\ estimated_vblank_timers' = estimated_vblank_timers \ {o}
    /\ UNCHANGED <<topology, drm_active, redraws_needed, orphan_redraw,
                   frames_pending, power, modes, ticks, device>>

PauseSession ==
    /\ drm_active
    /\ drm_active' = FALSE
    /\ estimated_vblank_timers' = {}
    /\ UNCHANGED <<topology, redraws_needed, orphan_redraw, frames_pending, power,
                   modes, ticks, device>>

\* A failed drm.activate returns early and changes nothing.  Otherwise flips
\* queued before the switch are written off and every surface is rendered.
ActivateSession ==
    /\ ~drm_active
    /\ late = {}
    /\ drm_active' = TRUE
    /\ dpms_off_outputs' = {}
    /\ pending_dpms' = [o \in Outputs |-> "none"]
    /\ orphan_dpms' = FALSE
    /\ blanked' = {}
    /\ \E ok \in SUBSET surfaces :
         RenderFrames(surfaces, ok, redraws_needed, {}, {}, [o \in Outputs |-> 0])
    /\ UNCHANGED <<topology, orphan_redraw, modes, ticks, late>>

\* DrmScanEvent::Connected for a CRTC without a surface: placeholders are
\* unmapped first, then create_surface succeeds or returns None.
HotplugConnect(o, created) ==
    LET unplugged  == disconnected_outputs
        space      == space_outputs \ unplugged
        focus      == IF unplugged = {} THEN focused_output ELSE NoOutput
        stale      == unplugged \cup (IF created THEN {o} ELSE {})
    IN /\ o \notin surfaces
       /\ disconnected_outputs' = {}
       /\ dpms_off_outputs' = dpms_off_outputs \ stale
       /\ pending_dpms' = [p \in Outputs |-> IF p \in stale THEN "none"
                                             ELSE pending_dpms[p]]
       /\ orphan_dpms' = (orphan_dpms \/ \E p \in stale : pending_dpms[p] # "none")
       /\ animating' = animating \ unplugged
       /\ IF created
          THEN /\ surfaces' = surfaces \cup {o}
               /\ space_outputs' = space \cup {o}
               /\ focused_output' = IF focus = NoOutput THEN o ELSE focus
               /\ active_outputs' = active_outputs \cup {o}
               /\ blanked' = blanked \ {o}
               /\ \E ok \in Queued({o}) :
                    RenderFrames({o}, ok, redraws_needed, frames_pending,
                                 estimated_vblank_timers, inflight)
          ELSE /\ space_outputs' = space
               /\ focused_output' = focus
               /\ UNCHANGED <<surfaces, active_outputs, redraws_needed,
                              frames_pending, estimated_vblank_timers, inflight,
                              blanked>>
       /\ UNCHANGED <<drm_active, orphan_redraw, modes, global_animation, late>>

\* The pointer stays on the output that is unmapped.
SlipFocusAfterUnmap(o) == {focused_output}

\* Where focused_output can be once o is unmapped: the first output left.
FocusAfterUnmap(o) ==
    IF focused_output = o THEN space_outputs \ {o} ELSE {focused_output}

\* DrmScanEvent::Disconnected and teardown_output.  The last output stays mapped
\* as a virtual placeholder.
HotplugDisconnect(o) ==
    LET is_last == surfaces = {o}
    IN /\ o \in surfaces
       /\ surfaces' = surfaces \ {o}
       /\ active_outputs' = active_outputs \ {o}
       /\ redraws_needed' = redraws_needed \ {o}
       /\ frames_pending' = frames_pending \ {o}
       /\ estimated_vblank_timers' = estimated_vblank_timers \ {o}
       /\ inflight' = [inflight EXCEPT ![o] = 0]
       /\ late' = late \ {o}
       /\ blanked' = blanked \ {o}
       /\ IF is_last
          THEN /\ disconnected_outputs' = disconnected_outputs \cup {o}
               /\ UNCHANGED <<space_outputs, focused_output, power, animating>>
          ELSE /\ space_outputs' = space_outputs \ {o}
               /\ dpms_off_outputs' = dpms_off_outputs \ {o}
               /\ pending_dpms' = [pending_dpms EXCEPT ![o] = "none"]
               /\ focused_output' \in FocusAfterUnmap(o)
               /\ UNCHANGED orphan_dpms
               /\ animating' = animating \ {o}
               /\ UNCHANGED disconnected_outputs
       /\ UNCHANGED <<drm_active, orphan_redraw, modes, global_animation>>

-----------------------------------------------------------------------------
(* The callback after each dispatch *)

\* render_if_needed while the device is paused: animations tick, nothing renders.
TickWhilePaused ==
    /\ ~FastPath
    /\ ~drm_active
    /\ animating' \in SUBSET animating
    /\ UNCHANGED <<topology, drm_active, pacing, power, modes, global_animation,
                   device>>

\* Gives up one deferral early.
SlipModesDeferred(busy) == {o \in pending_modes \cap surfaces \cap busy :
                                retry_count[o] + 1 < MaxRetries}

\* apply_pending_mode_changes: with flips pending on `busy`, the entries that are
\* tried now, and those kept for a later pass.
ModesTried(busy)    == (pending_modes \cap surfaces) \ busy
ModesDeferred(busy) == {o \in pending_modes \cap surfaces \cap busy :
                            retry_count[o] < MaxRetries}

\* render_if_needed with an active device.  `stuck` are the outputs whose clear
\* fails, which is only warned about: their flips go on, their marks go all the
\* same.  `still` are the animations that survive the tick, `applied` the modes the
\* kernel accepts, `read` the cancelled flips whose event will still be read.  The
\* event of a cancelled flip is in the device's queue when the clear returns, so
\* the next poll dispatches it before the next pass: late is empty here.
RenderIfNeeded ==
    /\ ~FastPath
    /\ drm_active
    /\ late = {}
    /\ LET on      == {o \in surfaces : pending_dpms[o] = "on"}
           off     == {o \in surfaces : pending_dpms[o] = "off"}
           pending == AfterPowerOff(frames_pending, off)
           timers  == AfterPowerOff(estimated_vblank_timers, off)
       IN \E stuck \in SUBSET (off \cap StuckOn) :
          \E still \in SUBSET animating :
          \E applied \in SUBSET ModesTried(pending) :
          \E read \in SUBSET {o \in off \ stuck : inflight[o] > 0} :
          LET cleared == off \ stuck
              flips   == [o \in Outputs |-> IF o \in cleared THEN 0 ELSE inflight[o]]
              drained == (redraws_needed \cup on) \ off
              ticked  == drained \cup ((still \cap surfaces) \ dpms_off_outputs)
              marked  == IF global_animation THEN active_outputs ELSE ticked
              redraws == marked \cup applied
              awake   == surfaces \ dpms_off_outputs
              ready   == (redraws \cap awake) \ Waiting(pending, timers)
          IN /\ \E ok \in SUBSET ready :
                  RenderFrames(ready, ok, redraws \ (surfaces \cap dpms_off_outputs),
                               pending, timers, flips)
             /\ orphan_redraw' = (orphan_redraw /\ ~global_animation)
             /\ pending_modes' = ModesDeferred(pending)
             /\ retry_count' = [o \in Outputs |->
                                  IF o \in ModesDeferred(pending)
                                  THEN retry_count[o] + 1 ELSE 0]
             /\ animating' = still
             /\ late' = read
             /\ blanked' = (blanked \cup cleared) \ ready
    /\ pending_dpms' = [o \in Outputs |-> "none"]
    /\ orphan_dpms' = FALSE
    /\ output_config_dirty' = FALSE
    /\ UNCHANGED <<topology, drm_active, dpms_off_outputs, global_animation>>

-----------------------------------------------------------------------------

Next ==
    \/ \E o \in Outputs :
         \/ ClientDamage(o)
         \/ \E on \in BOOLEAN : SetDpms(o, on)
         \/ FocusOutput(o)
         \/ StartAnimation(o)
         \/ VBlank(o)
         \/ EstimatedVBlank(o)
         \/ \E created \in BOOLEAN : HotplugConnect(o, created)
         \/ HotplugDisconnect(o)
    \/ \E S \in SUBSET Outputs : ApplyOutputConfig(S) \/ ReloadConfig(S)
    \/ DamageAll
    \/ ToggleGlobalAnimation
    \/ PauseSession
    \/ ActivateSession
    \/ TickWhilePaused
    \/ RenderIfNeeded

Spec == Init /\ [][Next]_vars

\* calloop runs the callback after every dispatch, and polls the DRM fd and the
\* timers; the kernel completes the flips it accepted.  Nothing is assumed of
\* clients, of the user, of the session or of hotplug.
Fairness ==
    /\ WF_vars(RenderIfNeeded)
    /\ \A o \in Outputs : WF_vars(VBlank(o)) /\ WF_vars(EstimatedVBlank(o))

FairSpec == Spec /\ Fairness

-----------------------------------------------------------------------------
(* Properties *)

\* Types, and the outputs the sets can name: active_outputs is kept equal to the
\* outputs with a surface, and redraws, tokens and flips belong to them.
TypeOK ==
    /\ surfaces \subseteq Outputs
    /\ space_outputs \subseteq Outputs
    /\ disconnected_outputs \subseteq Outputs
    /\ focused_output \in Outputs \cup {NoOutput}
    /\ active_outputs = surfaces
    /\ drm_active \in BOOLEAN
    /\ redraws_needed \subseteq surfaces
    /\ orphan_redraw \in BOOLEAN
    /\ frames_pending \subseteq surfaces
    /\ estimated_vblank_timers \subseteq surfaces
    /\ dpms_off_outputs \subseteq Outputs
    /\ pending_dpms \in [Outputs -> {"none", "on", "off"}]
    /\ orphan_dpms \in BOOLEAN
    /\ pending_modes \subseteq Outputs
    /\ retry_count \in [Outputs -> 0..MaxRetries]
    /\ output_config_dirty \in BOOLEAN
    /\ animating \subseteq space_outputs
    /\ global_animation \in BOOLEAN
    /\ inflight \in [Outputs -> 0..2]
    /\ late \subseteq surfaces
    /\ blanked \subseteq surfaces

\* frames_pending against the hardware, across DPMS, hotplug, VT switches and
\* repaints from the vblank handler.  On every output a mark stands for a flip in
\* progress: a mark without one would freeze the output for good.  Where no clear
\* fails, a flip has its mark too, and there is one flip: one without a mark lets
\* render_if_needed queue a second frame and apply a mode on top of the first.
\* The exception is real: the DPMS drain removes the mark whether or not
\* compositor.clear cancelled the flip, so an output of StuckOn can have flips
\* that nothing counts.
FramesPendingIsFlips ==
    \A o \in Outputs :
        /\ o \in frames_pending => inflight[o] > 0
        /\ o \notin StuckOn => inflight[o] = IF o \in frames_pending THEN 1 ELSE 0

\* A CRTC waits for a vblank or for its estimated-vblank timer, never for both:
\* otherwise the timer of an old frame ends the wait for a new one.
OneWaitPerCrtc == frames_pending \cap estimated_vblank_timers = {}

\* A panel that DPMS has blanked has nothing left to wait for, so the repaint of
\* a later wake-up is not held back by a token that nobody will release.
BlankedIsIdle ==
    \A o \in blanked :
        /\ o \notin frames_pending \cup estimated_vblank_timers
        /\ inflight[o] = 0

\* Input routing never points at an output that was unmapped, and the placeholder
\* exists only while no monitor does.
RoutingIsMapped ==
    /\ focused_output \in space_outputs \cup {NoOutput}
    /\ space_outputs = surfaces \cup disconnected_outputs
    /\ disconnected_outputs # {} => surfaces = {}
    /\ surfaces # {} => focused_output # NoOutput

\* A queued mode change of o leaves the queue while a flip is in progress on o,
\* for another reason than its last retry.  (DPMS off in the same pass ends the
\* flip first, unless its clear fails.)
AppliedOverFlip(o) ==
    /\ inflight[o] > 0
    /\ o \notin pending_modes' /\ o \in surfaces' \ blanked'
    /\ retry_count[o] # MaxRetries

\* The mark of the flip is lost to a clear that failed, now or in an earlier pass.
MarkLostToClear(o) ==
    /\ o \in StuckOn
    /\ o \notin frames_pending \/ pending_dpms[o] = "off"

\* No queued mode change is applied over a flip in progress, with one exception: a
\* flip whose mark went with a DPMS clear that failed does not hold it back.
ModesetStep ==
    \A o \in pending_modes \cap surfaces :
        AppliedOverFlip(o) => MarkLostToClear(o)

ModesetWaitsForFlip == [][ModesetStep]_vars

\* Everything that asked for a repaint is rendered, or dropped because its output
\* is powered off or gone, unless the session is switched away.
DirtyOutputsArePainted ==
    \A o \in Outputs :
        o \in redraws_needed ~> (o \notin redraws_needed \/ ~drm_active)

\* handlers/mod.rs:733 says that the backend transition of a set_dpms happens when
\* the render loop drains pending_dpms: once nothing is queued for an output, a
\* powered-off panel has been cleared and a powered-on one is about to repaint.
PowerRequestHonoured ==
    \A o \in surfaces \ StuckOn :
        drm_active /\ pending_dpms[o] = "none" =>
            IF o \in dpms_off_outputs THEN o \in blanked
            ELSE o \in blanked => o \in redraws_needed

=============================================================================
