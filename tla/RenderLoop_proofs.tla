--------------------------- MODULE RenderLoop_proofs ---------------------------
(***************************************************************************)
(* Proofs about RenderLoop, for every set of outputs.                      *)
(*                                                                         *)
(* The safety invariants are not inductive alone.  IInv adds to them what  *)
(* a clear leaves behind (LateIsIdle) and the agreement of the two DPMS    *)
(* records (PowerAgrees).  Init and every action are shown to establish    *)
(* and to keep IInv, and the theorems of the last section follow.          *)
(***************************************************************************)
EXTENDS RenderLoop, TLAPS

\* A cancelled flip whose event is still unread leaves its CRTC idle until then:
\* the event cannot be taken for the completion of a later frame.
LateIsIdle ==
    \A o \in late :
        /\ o \notin frames_pending \cup estimated_vblank_timers
        /\ inflight[o] = 0

\* A queued transition leads to the state that set_dpms already reports.
PowerAgrees ==
    \A o \in Outputs :
        /\ pending_dpms[o] = "off" => o \in dpms_off_outputs
        /\ pending_dpms[o] = "on" => o \notin dpms_off_outputs

IInv ==
    /\ TypeOK
    /\ FramesPendingIsFlips
    /\ OneWaitPerCrtc
    /\ BlankedIsIdle
    /\ RoutingIsMapped
    /\ LateIsIdle
    /\ PowerAgrees

-----------------------------------------------------------------------------
(* The initial states *)

\* Start-up (init_udev) establishes the inductive invariant.
LEMMA InitIInv == Init => IInv
<1> SUFFICES ASSUME Init PROVE IInv
  OBVIOUS
<1> USE RenderLoopAssumption
<1>1. PICK S \in (SUBSET Outputs) \ {{}} :
        /\ surfaces = S
        /\ space_outputs = S
        /\ active_outputs = S
        /\ focused_output \in S
        /\ frames_pending \in SUBSET S
        /\ estimated_vblank_timers = S \ frames_pending
        /\ inflight = [o \in Outputs |-> IF o \in frames_pending THEN 1 ELSE 0]
  BY DEF Init
<1>2. /\ disconnected_outputs = {} /\ drm_active = TRUE
      /\ redraws_needed = {} /\ orphan_redraw = FALSE
      /\ dpms_off_outputs = {} /\ pending_dpms = [o \in Outputs |-> "none"]
      /\ orphan_dpms = FALSE /\ pending_modes = {}
      /\ retry_count = [o \in Outputs |-> 0] /\ output_config_dirty = FALSE
      /\ animating = {} /\ global_animation = FALSE
      /\ late = {} /\ blanked = {}
  BY DEF Init
<1>3. TypeOK
  <2>1. retry_count \in [Outputs -> 0..MaxRetries] /\ inflight \in [Outputs -> 0..2]
    BY <1>1, <1>2
  <2>2. pending_dpms \in [Outputs -> {"none", "on", "off"}]
    BY <1>2
  <2>3. drm_active \in BOOLEAN /\ orphan_redraw \in BOOLEAN /\ orphan_dpms \in BOOLEAN
        /\ output_config_dirty \in BOOLEAN /\ global_animation \in BOOLEAN
    BY <1>2
  <2> QED
    BY <1>1, <1>2, <2>1, <2>2, <2>3 DEF TypeOK
<1>4. FramesPendingIsFlips /\ OneWaitPerCrtc
  BY <1>1 DEF FramesPendingIsFlips, OneWaitPerCrtc
<1>5. BlankedIsIdle /\ LateIsIdle /\ PowerAgrees
  BY <1>2 DEF BlankedIsIdle, LateIsIdle, PowerAgrees
<1>6. RoutingIsMapped
  BY <1>1, <1>2 DEF RoutingIsMapped
<1> QED
  BY <1>3, <1>4, <1>5, <1>6 DEF IInv

-----------------------------------------------------------------------------
(* The actions *)

\* Requests, session pauses and ticks only touch redraws, power and queues: they
\* leave topology, tokens and the device alone.
LEMMA RequestsKeepIInv ==
    ASSUME IInv,
           \/ \E o \in Outputs :
                \/ ClientDamage(o) \/ \E on \in BOOLEAN : SetDpms(o, on)
                \/ FocusOutput(o) \/ StartAnimation(o) \/ EstimatedVBlank(o)
           \/ \E S \in SUBSET Outputs : ApplyOutputConfig(S) \/ ReloadConfig(S)
           \/ DamageAll \/ ToggleGlobalAnimation \/ PauseSession \/ TickWhilePaused
    PROVE  IInv'
<1> USE RenderLoopAssumption DEF IInv, topology, pacing, power, modes, ticks, device
<1>1. ASSUME NEW o \in Outputs, ClientDamage(o) PROVE IInv'
  BY <1>1 DEF ClientDamage, TypeOK, FramesPendingIsFlips, OneWaitPerCrtc,
              BlankedIsIdle, RoutingIsMapped, LateIsIdle, PowerAgrees
<1>2. CASE DamageAll
  BY <1>2 DEF DamageAll, MarkAllDirty, TypeOK, FramesPendingIsFlips,
              OneWaitPerCrtc, BlankedIsIdle, RoutingIsMapped, LateIsIdle, PowerAgrees
<1>3. ASSUME NEW o \in Outputs, NEW on \in BOOLEAN, SetDpms(o, on) PROVE IInv'
  <2>1. TypeOK' /\ PowerAgrees'
    BY <1>3 DEF SetDpms, TypeOK, PowerAgrees
  <2>2. QED
    BY <1>3, <2>1 DEF SetDpms, FramesPendingIsFlips, OneWaitPerCrtc, BlankedIsIdle,
                      RoutingIsMapped, LateIsIdle
<1>4. ASSUME NEW S \in SUBSET Outputs, ApplyOutputConfig(S) PROVE IInv'
  <2>1. retry_count' \in [Outputs -> 0..MaxRetries]
    BY <1>4 DEF ApplyOutputConfig, QueueModes, TypeOK
  <2>2. output_config_dirty' \in BOOLEAN
    BY <1>4 DEF ApplyOutputConfig, TypeOK
  <2>3. TypeOK'
    BY <1>4, <2>1, <2>2 DEF ApplyOutputConfig, QueueModes, MarkAllDirty, TypeOK
  <2>4. QED
    BY <1>4, <2>3 DEF ApplyOutputConfig, FramesPendingIsFlips, OneWaitPerCrtc,
                      BlankedIsIdle, RoutingIsMapped, LateIsIdle, PowerAgrees
<1>5. ASSUME NEW S \in SUBSET Outputs, ReloadConfig(S) PROVE IInv'
  <2>1. retry_count' \in [Outputs -> 0..MaxRetries]
    BY <1>5 DEF ReloadConfig, QueueModes, TypeOK
  <2>2. output_config_dirty' \in BOOLEAN
    BY <1>5 DEF ReloadConfig, TypeOK
  <2>3. TypeOK'
    BY <1>5, <2>1, <2>2 DEF ReloadConfig, QueueModes, MarkAllDirty, TypeOK
  <2>4. QED
    BY <1>5, <2>3 DEF ReloadConfig, FramesPendingIsFlips, OneWaitPerCrtc,
                      BlankedIsIdle, RoutingIsMapped, LateIsIdle, PowerAgrees
<1>6. ASSUME NEW o \in Outputs, FocusOutput(o) PROVE IInv'
  BY <1>6 DEF FocusOutput, TypeOK, FramesPendingIsFlips, OneWaitPerCrtc,
              BlankedIsIdle, RoutingIsMapped, LateIsIdle, PowerAgrees
<1>7. ASSUME NEW o \in Outputs, StartAnimation(o) PROVE IInv'
  BY <1>7 DEF StartAnimation, TypeOK, FramesPendingIsFlips, OneWaitPerCrtc,
              BlankedIsIdle, RoutingIsMapped, LateIsIdle, PowerAgrees
<1>8. CASE ToggleGlobalAnimation
  BY <1>8 DEF ToggleGlobalAnimation, TypeOK, FramesPendingIsFlips, OneWaitPerCrtc,
              BlankedIsIdle, RoutingIsMapped, LateIsIdle, PowerAgrees
<1>9. ASSUME NEW o \in Outputs, EstimatedVBlank(o) PROVE IInv'
  BY <1>9 DEF EstimatedVBlank, TypeOK, FramesPendingIsFlips, OneWaitPerCrtc,
              BlankedIsIdle, RoutingIsMapped, LateIsIdle, PowerAgrees
<1>10. CASE PauseSession
  BY <1>10 DEF PauseSession, TypeOK, FramesPendingIsFlips, OneWaitPerCrtc,
               BlankedIsIdle, RoutingIsMapped, LateIsIdle, PowerAgrees
<1>11. CASE TickWhilePaused
  BY <1>11 DEF TickWhilePaused, TypeOK, FramesPendingIsFlips, OneWaitPerCrtc,
               BlankedIsIdle, RoutingIsMapped, LateIsIdle, PowerAgrees
<1> QED
  BY <1>1, <1>2, <1>3, <1>4, <1>5, <1>6, <1>7, <1>8, <1>9, <1>10, <1>11

\* A completed flip, and the repaint that follows it in the same handler.
LEMMA VBlankKeepsIInv ==
    ASSUME IInv, NEW o \in Outputs, VBlank(o)
    PROVE  IInv'
<1> DEFINE flips   == IF o \in late THEN inflight
                      ELSE [inflight EXCEPT ![o] = @ - 1]
           repaint == {o} \cap redraws_needed
<1> USE RenderLoopAssumption DEF IInv, topology, power, modes, ticks
<1>1. PICK ok \in Queued(repaint) :
        /\ redraws_needed' = redraws_needed \ repaint
        /\ frames_pending' = (frames_pending \ {o}) \cup ok
        /\ estimated_vblank_timers' =
               (estimated_vblank_timers \ {o}) \cup (repaint \ ok)
        /\ inflight' = [p \in Outputs |-> IF p \in ok /\ flips[p] < 2
                                         THEN flips[p] + 1 ELSE flips[p]]
        /\ blanked' = blanked \ repaint
  BY DEF VBlank, RenderFrames
<1>2. ok \subseteq repaint
  BY DEF Queued
<1>3. /\ o \in surfaces
      /\ o \in late \/ inflight[o] > 0
      /\ late' = late \ {o}
      /\ UNCHANGED <<topology, drm_active, orphan_redraw, power, modes, ticks>>
  BY DEF VBlank
<1>4. /\ flips \in [Outputs -> 0..2]
      /\ \A p \in Outputs \ {o} : flips[p] = inflight[p]
      /\ o \notin StuckOn => flips[o] = 0
      /\ o \in blanked => flips[o] = 0
      /\ \A p \in Outputs \ {o} : p \in frames_pending => inflight[p] > 0
  BY <1>3 DEF TypeOK, FramesPendingIsFlips, LateIsIdle, BlankedIsIdle
<1> HIDE DEF flips
<1>5. TypeOK'
  BY <1>1, <1>2, <1>3, <1>4 DEF TypeOK
<1>6. FramesPendingIsFlips'
  BY <1>1, <1>2, <1>4 DEF TypeOK, FramesPendingIsFlips
<1>7. OneWaitPerCrtc'
  BY <1>1, <1>2 DEF OneWaitPerCrtc
<1>8. BlankedIsIdle'
  BY <1>1, <1>2, <1>3, <1>4 DEF TypeOK, BlankedIsIdle
<1>9. RoutingIsMapped' /\ PowerAgrees'
  BY <1>3 DEF RoutingIsMapped, PowerAgrees
<1>10. LateIsIdle'
  BY <1>1, <1>2, <1>3, <1>4 DEF TypeOK, LateIsIdle
<1> QED
  BY <1>5, <1>6, <1>7, <1>8, <1>9, <1>10

\* The session comes back: every surface is rendered and every token is new.
LEMMA ActivateKeepsIInv ==
    ASSUME IInv, ActivateSession
    PROVE  IInv'
<1> USE RenderLoopAssumption DEF IInv, topology, modes, ticks
<1>1. PICK ok \in SUBSET surfaces :
        /\ redraws_needed' = redraws_needed \ surfaces
        /\ frames_pending' = {} \cup ok
        /\ estimated_vblank_timers' = {} \cup (surfaces \ ok)
        /\ inflight' = [p \in Outputs |-> IF p \in ok THEN 1 ELSE 0]
  BY DEF ActivateSession, RenderFrames
<1>2. /\ drm_active' = TRUE /\ late = {} /\ blanked' = {}
      /\ dpms_off_outputs' = {} /\ pending_dpms' = [o \in Outputs |-> "none"]
      /\ orphan_dpms' = FALSE
      /\ UNCHANGED <<topology, orphan_redraw, modes, ticks, late>>
  BY DEF ActivateSession
<1>3. TypeOK'
  <2>1. inflight' \in [Outputs -> 0..2]
    BY <1>1
  <2>2. pending_dpms' \in [Outputs -> {"none", "on", "off"}]
    BY <1>2
  <2>3. drm_active' \in BOOLEAN /\ orphan_dpms' \in BOOLEAN
    BY <1>2
  <2> QED
    BY <1>1, <1>2, <2>1, <2>2, <2>3 DEF TypeOK
<1>4. FramesPendingIsFlips' /\ OneWaitPerCrtc'
  BY <1>1 DEF FramesPendingIsFlips, OneWaitPerCrtc
<1>5. BlankedIsIdle' /\ LateIsIdle' /\ PowerAgrees'
  BY <1>2 DEF BlankedIsIdle, LateIsIdle, PowerAgrees
<1>6. RoutingIsMapped'
  BY <1>2 DEF RoutingIsMapped
<1> QED
  BY <1>3, <1>4, <1>5, <1>6

\* A connector comes up: the placeholder goes, the new surface has no history.
LEMMA ConnectKeepsIInv ==
    ASSUME IInv, NEW o \in Outputs, NEW created \in BOOLEAN,
           HotplugConnect(o, created)
    PROVE  IInv'
<1> DEFINE stale == disconnected_outputs \cup (IF created THEN {o} ELSE {})
<1> USE RenderLoopAssumption DEF IInv, modes
<1>1. /\ o \notin surfaces
      /\ disconnected_outputs' = {}
      /\ dpms_off_outputs' = dpms_off_outputs \ stale
      /\ pending_dpms' = [p \in Outputs |-> IF p \in stale THEN "none"
                                           ELSE pending_dpms[p]]
      /\ orphan_dpms' \in BOOLEAN
      /\ animating' = animating \ disconnected_outputs
      /\ UNCHANGED <<drm_active, orphan_redraw, modes, global_animation, late>>
  <2>1. orphan_dpms' \in BOOLEAN
    BY DEF HotplugConnect, TypeOK
  <2> QED
    BY <2>1 DEF HotplugConnect
<1>2. PowerAgrees'
  BY <1>1 DEF PowerAgrees, TypeOK
<1>3. CASE created
  <2>1. /\ surfaces' = surfaces \cup {o}
        /\ active_outputs' = active_outputs \cup {o}
        /\ space_outputs' = (space_outputs \ disconnected_outputs) \cup {o}
        /\ focused_output' =
              IF disconnected_outputs # {} \/ focused_output = NoOutput THEN o
              ELSE focused_output
        /\ blanked' = blanked \ {o}
    BY <1>3 DEF HotplugConnect
  <2>2. PICK ok \in Queued({o}) :
           /\ redraws_needed' = redraws_needed \ {o}
           /\ frames_pending' = frames_pending \cup ok
           /\ estimated_vblank_timers' = estimated_vblank_timers \cup ({o} \ ok)
           /\ inflight' = [p \in Outputs |-> IF p \in ok /\ inflight[p] < 2
                                            THEN inflight[p] + 1 ELSE inflight[p]]
    BY <1>3 DEF HotplugConnect, RenderFrames
  <2>3. ok \subseteq {o}
    BY DEF Queued
  <2>4. TypeOK'
    <3>1. inflight' \in [Outputs -> 0..2]
      BY <2>2 DEF TypeOK
    <3>2. pending_dpms' \in [Outputs -> {"none", "on", "off"}]
      BY <1>1 DEF TypeOK
    <3> QED
      BY <1>1, <2>1, <2>2, <2>3, <3>1, <3>2 DEF TypeOK
  <2>5. FramesPendingIsFlips' /\ OneWaitPerCrtc'
    BY <1>1, <2>2, <2>3 DEF TypeOK, FramesPendingIsFlips, OneWaitPerCrtc
  <2>6. BlankedIsIdle' /\ LateIsIdle'
    BY <1>1, <2>1, <2>2, <2>3 DEF TypeOK, BlankedIsIdle, LateIsIdle
  <2>7. RoutingIsMapped'
    BY <1>1, <2>1 DEF TypeOK, RoutingIsMapped
  <2> QED
    BY <1>2, <2>4, <2>5, <2>6, <2>7
<1>4. CASE ~created
  <2>1. /\ space_outputs' = space_outputs \ disconnected_outputs
        /\ focused_output' =
              IF disconnected_outputs = {} THEN focused_output ELSE NoOutput
        /\ UNCHANGED <<surfaces, active_outputs, redraws_needed, frames_pending,
                       estimated_vblank_timers, inflight, blanked>>
    BY <1>4 DEF HotplugConnect
  <2>2. TypeOK'
    <3>1. pending_dpms' \in [Outputs -> {"none", "on", "off"}]
      BY <1>1 DEF TypeOK
    <3> QED
      BY <1>1, <2>1, <3>1 DEF TypeOK
  <2>3. FramesPendingIsFlips' /\ OneWaitPerCrtc' /\ BlankedIsIdle' /\ LateIsIdle'
    BY <1>1, <2>1 DEF FramesPendingIsFlips, OneWaitPerCrtc, BlankedIsIdle, LateIsIdle
  <2>4. RoutingIsMapped'
    BY <1>1, <2>1 DEF TypeOK, RoutingIsMapped
  <2> QED
    BY <1>2, <2>2, <2>3, <2>4
<1> QED
  BY <1>3, <1>4

\* A connector goes away, the last one leaving the placeholder behind.
LEMMA DisconnectKeepsIInv ==
    ASSUME IInv, NEW o \in Outputs, HotplugDisconnect(o)
    PROVE  IInv'
<1> USE RenderLoopAssumption DEF IInv, modes, power
<1>1. /\ o \in surfaces
      /\ surfaces' = surfaces \ {o}
      /\ active_outputs' = active_outputs \ {o}
      /\ redraws_needed' = redraws_needed \ {o}
      /\ frames_pending' = frames_pending \ {o}
      /\ estimated_vblank_timers' = estimated_vblank_timers \ {o}
      /\ inflight' = [inflight EXCEPT ![o] = 0]
      /\ late' = late \ {o}
      /\ blanked' = blanked \ {o}
      /\ UNCHANGED <<drm_active, orphan_redraw, modes, global_animation>>
  BY DEF HotplugDisconnect
<1>2. disconnected_outputs = {}
  BY <1>1 DEF RoutingIsMapped
<1>3. FramesPendingIsFlips' /\ OneWaitPerCrtc' /\ BlankedIsIdle' /\ LateIsIdle'
  BY <1>1 DEF TypeOK, FramesPendingIsFlips, OneWaitPerCrtc, BlankedIsIdle, LateIsIdle
<1>4. CASE surfaces = {o}
  <2>1. /\ disconnected_outputs' = disconnected_outputs \cup {o}
        /\ UNCHANGED <<space_outputs, focused_output, power, animating>>
    BY <1>4 DEF HotplugDisconnect
  <2>2. TypeOK'
    BY <1>1, <2>1 DEF TypeOK
  <2>3. RoutingIsMapped' /\ PowerAgrees'
    BY <1>1, <1>2, <1>4, <2>1 DEF RoutingIsMapped, PowerAgrees
  <2> QED
    BY <1>3, <2>2, <2>3
<1>5. CASE surfaces # {o}
  <2>1. /\ space_outputs' = space_outputs \ {o}
        /\ dpms_off_outputs' = dpms_off_outputs \ {o}
        /\ pending_dpms' = [pending_dpms EXCEPT ![o] = "none"]
        /\ focused_output' \in FocusAfterUnmap(o)
        /\ animating' = animating \ {o}
        /\ UNCHANGED <<disconnected_outputs, orphan_dpms>>
    BY <1>5 DEF HotplugDisconnect
  <2>2. TypeOK'
    BY <1>1, <2>1 DEF TypeOK, FocusAfterUnmap
  <2>3. RoutingIsMapped' /\ PowerAgrees'
    BY <1>1, <1>2, <2>1 DEF TypeOK, RoutingIsMapped, PowerAgrees, FocusAfterUnmap
  <2> QED
    BY <1>3, <2>2, <2>3
<1> QED
  BY <1>4, <1>5

\* One pass of render_if_needed: DPMS transitions, queued modes, then the frames.
LEMMA RenderKeepsIInv ==
    ASSUME IInv, RenderIfNeeded
    PROVE  IInv' /\ ModesetStep
<1> DEFINE on      == {o \in surfaces : pending_dpms[o] = "on"}
           off     == {o \in surfaces : pending_dpms[o] = "off"}
           pending == frames_pending \ off
           timers  == estimated_vblank_timers \ off
           after(clr) == [o \in Outputs |-> IF o \in clr THEN 0 ELSE inflight[o]]
           awake   == surfaces \ dpms_off_outputs
           drained == (redraws_needed \cup on) \ off
           marks(still) ==
             IF global_animation THEN active_outputs
             ELSE drained \cup ((still \cap surfaces) \ dpms_off_outputs)
           held(still, applied) ==
             ((marks(still) \cup applied) \cap awake) \ (pending \cup timers)
<1> USE RenderLoopAssumption DEF IInv, topology
<1>s. PICK stuck \in SUBSET (off \cap StuckOn) :
        \E still \in SUBSET animating, applied \in SUBSET ModesTried(pending),
           read \in SUBSET {o \in off \ stuck : inflight[o] > 0} :
        /\ \E ok \in SUBSET held(still, applied) :
             RenderFrames(held(still, applied), ok,
                          (marks(still) \cup applied) \ (surfaces \cap dpms_off_outputs),
                          pending, timers, after(off \ stuck))
        /\ pending_modes' = ModesDeferred(pending)
        /\ retry_count' = [o \in Outputs |-> IF o \in ModesDeferred(pending)
                                            THEN retry_count[o] + 1 ELSE 0]
        /\ animating' = still
        /\ late' = read
        /\ blanked' = (blanked \cup (off \ stuck)) \ held(still, applied)
  BY Zenon DEF RenderIfNeeded, Waiting, AfterPowerOff
<1> DEFINE cleared == off \ stuck
           flips   == after(cleared)
<1>a. PICK still \in SUBSET animating, applied \in SUBSET ModesTried(pending),
           read \in SUBSET {o \in cleared : inflight[o] > 0} :
        /\ \E ok \in SUBSET held(still, applied) :
             RenderFrames(held(still, applied), ok,
                          (marks(still) \cup applied) \ (surfaces \cap dpms_off_outputs),
                          pending, timers, flips)
        /\ pending_modes' = ModesDeferred(pending)
        /\ retry_count' = [o \in Outputs |-> IF o \in ModesDeferred(pending)
                                            THEN retry_count[o] + 1 ELSE 0]
        /\ animating' = still
        /\ late' = read
        /\ blanked' = (blanked \cup cleared) \ held(still, applied)
  BY <1>s
<1>b. PICK ok \in SUBSET held(still, applied) :
        RenderFrames(held(still, applied), ok,
                     (marks(still) \cup applied) \ (surfaces \cap dpms_off_outputs),
                     pending, timers, flips)
  BY <1>a
<1> DEFINE marked == marks(still)
           ready  == held(still, applied)
<1>1. /\ marked \subseteq surfaces /\ ready \subseteq awake /\ ok \subseteq ready
      /\ ready \cap (pending \cup timers) = {}
      /\ redraws_needed' = ((marked \cup applied)
                               \ (surfaces \cap dpms_off_outputs)) \ ready
      /\ frames_pending' = pending \cup ok
      /\ estimated_vblank_timers' = timers \cup (ready \ ok)
      /\ inflight' = [o \in Outputs |-> IF o \in ok /\ flips[o] < 2
                                       THEN flips[o] + 1 ELSE flips[o]]
      /\ pending_modes' = ModesDeferred(pending)
      /\ retry_count' = [o \in Outputs |-> IF o \in ModesDeferred(pending)
                                          THEN retry_count[o] + 1 ELSE 0]
      /\ animating' = still
      /\ late' = read
      /\ blanked' = (blanked \cup cleared) \ ready
  <2>1. marked \subseteq surfaces /\ ready \subseteq awake /\ ok \subseteq ready
        /\ ready \cap (pending \cup timers) = {}
    BY DEF TypeOK
  <2> QED
    BY <1>a, <1>b, <2>1, Zenon DEF RenderFrames
<1> HIDE DEF marks, held
<1>2. /\ pending_dpms' = [o \in Outputs |-> "none"]
      /\ output_config_dirty' = FALSE /\ orphan_dpms' = FALSE
      /\ orphan_redraw' \in BOOLEAN
      /\ UNCHANGED <<topology, drm_active, dpms_off_outputs, global_animation>>
  BY DEF RenderIfNeeded, TypeOK
<1>3. flips \in [Outputs -> 0..2] /\ \A o \in off : flips[o] = 0 \/ o \in StuckOn
  BY DEF TypeOK
<1>4. off \subseteq surfaces \cap dpms_off_outputs
  BY DEF TypeOK, PowerAgrees
<1>5. TypeOK'
  <2>1. inflight' \in [Outputs -> 0..2]
    BY <1>1, <1>3
  <2>2. retry_count' \in [Outputs -> 0..MaxRetries]
    BY <1>1 DEF TypeOK, ModesDeferred
  <2>3. pending_dpms' \in [Outputs -> {"none", "on", "off"}]
        /\ orphan_dpms' \in BOOLEAN /\ output_config_dirty' \in BOOLEAN
    BY <1>2
  <2>4. redraws_needed' \subseteq surfaces /\ pending_modes' \subseteq Outputs
    BY <1>1 DEF TypeOK, ModesTried, ModesDeferred
  <2>5. frames_pending' \subseteq surfaces /\ estimated_vblank_timers' \subseteq surfaces
        /\ late' \subseteq surfaces /\ blanked' \subseteq surfaces
    BY <1>1 DEF TypeOK
  <2> QED
    BY <1>1, <1>2, <2>1, <2>2, <2>3, <2>4, <2>5 DEF TypeOK
<1>6. FramesPendingIsFlips'
  <2> SUFFICES ASSUME NEW o \in Outputs
               PROVE  /\ o \in frames_pending' => inflight'[o] > 0
                      /\ o \notin StuckOn =>
                            inflight'[o] = IF o \in frames_pending' THEN 1 ELSE 0
    BY DEF FramesPendingIsFlips
  <2>1. o \in pending => flips[o] > 0
    BY DEF FramesPendingIsFlips, TypeOK
  <2>2. o \notin StuckOn => flips[o] = IF o \in pending THEN 1 ELSE 0
    BY DEF FramesPendingIsFlips, TypeOK
  <2>3. inflight'[o] = IF o \in ok /\ flips[o] < 2 THEN flips[o] + 1 ELSE flips[o]
    BY <1>1
  <2>4. flips[o] \in 0..2 /\ (o \in ok => o \notin pending)
    BY <1>1, <1>3
  <2> HIDE DEF flips, pending
  <2> QED
    BY <1>1, <2>1, <2>2, <2>3, <2>4
<1>7. OneWaitPerCrtc'
  BY <1>1 DEF OneWaitPerCrtc
<1>8. BlankedIsIdle'
  <2> SUFFICES ASSUME NEW o \in (blanked \cup cleared) \ ready
               PROVE  /\ o \notin pending \cup timers
                      /\ flips[o] = 0
    BY <1>1, <1>3 DEF BlankedIsIdle, TypeOK
  <2> QED
    BY DEF BlankedIsIdle, TypeOK
<1>9. RoutingIsMapped' /\ PowerAgrees'
  BY <1>2 DEF RoutingIsMapped, PowerAgrees
<1>10. LateIsIdle'
  BY <1>1, <1>3, <1>4 DEF LateIsIdle, TypeOK
<1>11. ModesetStep
  <2> SUFFICES ASSUME NEW o \in pending_modes \cap surfaces,
                      AppliedOverFlip(o), ~MarkLostToClear(o)
               PROVE  FALSE
    BY DEF ModesetStep
  <2>1. inflight[o] > 0 /\ o \notin pending_modes' /\ o \notin blanked'
        /\ retry_count[o] # MaxRetries
    BY DEF AppliedOverFlip
  <2>2. o \in frames_pending
    BY <2>1 DEF MarkLostToClear, FramesPendingIsFlips, TypeOK
  <2>3. o \notin off
    BY <1>1, <1>4, <2>1 DEF MarkLostToClear
  <2>4. ~(retry_count[o] < MaxRetries)
    BY <1>1, <2>1, <2>2, <2>3 DEF ModesDeferred
  <2> QED
    BY <2>1, <2>4 DEF TypeOK
<1> QED
  BY <1>5, <1>6, <1>7, <1>8, <1>9, <1>10, <1>11

\* Every other action leaves the queue of mode changes alone, or lengthens it.
LEMMA OthersKeepModes ==
    ASSUME IInv, Next, ~RenderIfNeeded
    PROVE  ModesetStep
<1> SUFFICES pending_modes \subseteq pending_modes'
  BY DEF ModesetStep, AppliedOverFlip
<1> USE DEF topology, pacing, power, modes, ticks, device
<1>1. CASE \E o \in Outputs :
             \/ ClientDamage(o) \/ \E on \in BOOLEAN : SetDpms(o, on)
             \/ FocusOutput(o) \/ StartAnimation(o)
  BY <1>1 DEF ClientDamage, SetDpms, FocusOutput, StartAnimation
<1>2. CASE \E o \in Outputs :
             \/ VBlank(o) \/ EstimatedVBlank(o) \/ HotplugDisconnect(o)
             \/ \E created \in BOOLEAN : HotplugConnect(o, created)
  BY <1>2 DEF VBlank, EstimatedVBlank, HotplugDisconnect, HotplugConnect
<1>3. CASE \E S \in SUBSET Outputs : ApplyOutputConfig(S) \/ ReloadConfig(S)
  BY <1>3 DEF ApplyOutputConfig, ReloadConfig, QueueModes
<1>4. CASE \/ DamageAll \/ ToggleGlobalAnimation \/ PauseSession
           \/ ActivateSession \/ TickWhilePaused
  BY <1>4 DEF DamageAll, ToggleGlobalAnimation, PauseSession, ActivateSession,
              TickWhilePaused
<1> QED
  BY <1>1, <1>2, <1>3, <1>4 DEF Next

\* Every step of the loop keeps the inductive invariant, and none sets a mode over a
\* flip whose mark no failed clear removed.
LEMMA NextKeepsIInv == IInv /\ [Next]_vars => IInv' /\ [ModesetStep]_vars
<1> SUFFICES ASSUME IInv, [Next]_vars PROVE IInv' /\ [ModesetStep]_vars
  OBVIOUS
<1>1. CASE UNCHANGED vars
  BY <1>1 DEF vars, topology, pacing, power, modes, ticks, device, IInv, TypeOK,
              FramesPendingIsFlips, OneWaitPerCrtc, BlankedIsIdle, RoutingIsMapped,
              LateIsIdle, PowerAgrees
<1>2. CASE RenderIfNeeded
  BY <1>2, RenderKeepsIInv
<1>3. CASE Next /\ ~RenderIfNeeded
  <2>1. IInv'
    BY <1>3, RequestsKeepIInv, VBlankKeepsIInv, ActivateKeepsIInv,
       ConnectKeepsIInv, DisconnectKeepsIInv DEF Next
  <2> QED
    BY <1>3, <2>1, OthersKeepModes
<1> QED
  BY <1>1, <1>2, <1>3

-----------------------------------------------------------------------------
(* Theorems *)

\* The conjunction of the safety invariants with the two facts that make it
\* inductive (LateIsIdle, PowerAgrees) holds in every reachable state.
THEOREM Invariance == Spec => []IInv
<1>1. IInv /\ [Next]_vars => IInv'
  BY NextKeepsIInv
<1> QED
  BY InitIInv, <1>1, PTL DEF Spec

\* Every set the loop keeps names live outputs only, and active_outputs, the
\* universe of mark_all_dirty, is exactly the set of DRM surfaces.
THEOREM TypeCorrect == Spec => []TypeOK
BY Invariance, PTL DEF IInv

\* On every CRTC a mark stands for a flip in progress; on those whose clear cannot
\* fail it stands for exactly one, and no flip is without its mark.  A CRTC of
\* StuckOn can have flips that a failed DPMS clear left unmarked.
THEOREM FlipsAreCounted == Spec => []FramesPendingIsFlips
BY Invariance, PTL DEF IInv

\* No CRTC waits for a vblank and for a timer at once.
THEOREM WaitsAreExclusive == Spec => []OneWaitPerCrtc
BY Invariance, PTL DEF IInv

\* A blanked panel holds no token that would delay its wake-up.
THEOREM BlankedPanelsAreIdle == Spec => []BlankedIsIdle
BY Invariance, PTL DEF IInv

\* Input routing names a mapped output whenever a monitor is attached.
THEOREM RoutingIsSound == Spec => []RoutingIsMapped
BY Invariance, PTL DEF IInv

\* A mode is never set over a flip in progress, unless a DPMS clear that failed took
\* the mark of that flip away.
THEOREM ModesetsWait == Spec => ModesetWaitsForFlip
<1>1. IInv /\ [Next]_vars => [ModesetStep]_vars
  BY NextKeepsIInv
<1> QED
  BY Invariance, <1>1, PTL DEF Spec, ModesetWaitsForFlip
====
