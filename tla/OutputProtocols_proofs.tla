------------------------ MODULE OutputProtocols_proofs ------------------------
(***************************************************************************)
(* Proofs about OutputProtocols: what the clients of the protocols own     *)
(* and were told, for any outputs, objects, ramps, settings and windows. The *)
(* invariant has a part for each protocol, and each part is kept by what   *)
(* its module does, so that the theorem about the composition combines     *)
(* lemmas about one protocol at a time.                                    *)
(***************************************************************************)
EXTENDS OutputProtocols, TLAPS

TopologyInv ==
    /\ surfaces \subseteq Outputs
    /\ placeholder \subseteq Outputs
    /\ surfaces = {} \/ placeholder = {}
    /\ drm_active \in BOOLEAN

-----------------------------------------------------------------------------
(* Power *)

PowerShape ==
    /\ power_output \in [Powers -> Outputs \cup {NoOutput}]
    /\ output_powers \in [Powers -> {"none", "on", "off"}]
    /\ dpms_off_outputs \subseteq Outputs
    /\ pending_dpms \in [Outputs -> {"none", "on", "off"}]

PowerInv == PowerShape /\ PowerIsTold

\* What the power module does in one step, with what it learns from outside as parameters.
PowerStep ==
    \/ \E p \in Powers, o \in Outputs : GetOutputPower(p, o)
    \/ \E p \in Powers, on \in {"on", "off"} : SetMode(p, on)
    \/ \E p \in Powers : DestroyPower(p)
    \/ WakeOutputs
    \/ PowerDrained
    \/ PowerResumed
    \/ \E gone \in SUBSET Outputs : PowerForgets(gone)
    \/ UNCHANGED power

\* A request tells all objects of its output, a wake-up leaves a transition for those it
\* concerns, and draining a transition tells everybody.
LEMMA PowerIsKept == PowerInv /\ PowerStep => PowerInv'
<1>. SUFFICES ASSUME PowerInv, PowerStep PROVE PowerInv'
  OBVIOUS
<1>. USE DEF PowerInv, PowerShape, PowerIsTold, ModeOf
<1>1. ASSUME NEW p \in Powers, NEW o \in Outputs, GetOutputPower(p, o) PROVE PowerInv'
  BY <1>1 DEF GetOutputPower
<1>2. ASSUME NEW p \in Powers, NEW on \in {"on", "off"}, SetMode(p, on) PROVE PowerInv'
  <2>1. PowerShape'
    BY <1>2 DEF SetMode, SetDpms, Refreshed, ToldOf
  <2>2. ASSUME NEW q \in Powers, power_output'[q] # NoOutput
        PROVE  \/ output_powers'[q] = ModeOf(power_output'[q], dpms_off_outputs')
               \/ pending_dpms'[power_output'[q]] = ModeOf(power_output'[q], dpms_off_outputs')
    <3>1. CASE power_output[q] = power_output[p]
      BY <1>2, <2>2, <3>1 DEF SetMode, SetDpms, Refreshed, ToldOf
    <3>2. CASE power_output[q] # power_output[p]
      BY <1>2, <2>2, <3>2 DEF SetMode, SetDpms, Refreshed, ToldOf
    <3>. QED BY <3>1, <3>2
  <2>. QED BY <2>1, <2>2
<1>3. ASSUME NEW p \in Powers, DestroyPower(p) PROVE PowerInv'
  BY <1>3 DEF DestroyPower
<1>4. CASE WakeOutputs
  BY <1>4 DEF WakeOutputs, SetDpms
<1>5. CASE PowerDrained
  BY <1>5 DEF PowerDrained, Refreshed
<1>6. CASE PowerResumed
  BY <1>6 DEF PowerResumed, Refreshed
<1>7. ASSUME NEW gone \in SUBSET Outputs, PowerForgets(gone) PROVE PowerInv'
  BY <1>7 DEF PowerForgets
<1>8. CASE UNCHANGED power
  BY <1>8 DEF power
<1>. QED BY <1>1, <1>2, <1>3, <1>4, <1>5, <1>6, <1>7, <1>8 DEF PowerStep
-----------------------------------------------------------------------------
(* Gamma *)

GammaShape ==
    /\ gamma_controls \in [Outputs -> Controls \cup {NoControl}]
    /\ control \in [Controls -> {"unused", "live", "failed"}]
    /\ pending_gamma_change \in [Outputs -> Ramps \cup {Identity, NoChange}]
    /\ previous_blob \in [Outputs -> Ramps \cup {Identity}]
    /\ lut \in [Outputs -> Ramps \cup {Identity}]
    /\ asked \in [Outputs -> Ramps \cup {Identity, Unknown}]

\* What an output has to show is on its CRTC, in its blob or in its queue.
RampIsSomewhere(o) ==
    /\ o \notin surfaces => pending_gamma_change[o] = NoChange /\ previous_blob[o] = Identity
    /\ drm_active => pending_gamma_change[o] = NoChange
    /\ ~drm_active => lut[o] = Identity
    /\ o \in Legacy => previous_blob[o] = Identity
    /\ asked[o] # Unknown =>
         /\ drm_active => lut[o] = asked[o] \/ (o \in Legacy /\ lut[o] = Identity)
         /\ pending_gamma_change[o] = NoChange /\ o \notin Legacy =>
              previous_blob[o] = asked[o]
         /\ pending_gamma_change[o] # NoChange => pending_gamma_change[o] = asked[o]

RampsInv == \A o \in Outputs : RampIsSomewhere(o)

GammaInv == GammaShape /\ ControlsOwnOutputs /\ RampsInv

LEMMA RampsAreShown == TopologyInv /\ GammaInv => GammaAsAsked
BY DEF TopologyInv, GammaInv, RampsInv, RampIsSomewhere, GammaAsAsked, GammaShape

\* Setting a ramp on a plugged output, now or when the session comes back.
LEMMA SetKeepsRamps ==
  ASSUME TopologyInv, GammaInv, NEW o \in surfaces, NEW ramp \in Ramps \cup {Identity},
         GammaSet(o, ramp), UNCHANGED topology
  PROVE  /\ RampsInv'
         /\ pending_gamma_change' \in [Outputs -> Ramps \cup {Identity, NoChange}]
         /\ previous_blob' \in [Outputs -> Ramps \cup {Identity}]
         /\ lut' \in [Outputs -> Ramps \cup {Identity}]
         /\ asked' \in [Outputs -> Ramps \cup {Identity, Unknown}]
<1>. USE GammaAssumption DEF TopologyInv, GammaInv, GammaShape, topology, GammaSet, BlobAfter
<1>1. /\ pending_gamma_change' \in [Outputs -> Ramps \cup {Identity, NoChange}]
      /\ previous_blob' \in [Outputs -> Ramps \cup {Identity}]
      /\ lut' \in [Outputs -> Ramps \cup {Identity}]
      /\ asked' \in [Outputs -> Ramps \cup {Identity, Unknown}]
  OBVIOUS
<1>2. ASSUME NEW p \in Outputs PROVE RampIsSomewhere(p)'
  <2>1. CASE p = o
    BY <2>1 DEF RampsInv, RampIsSomewhere
  <2>2. CASE p # o
    BY <2>2 DEF RampsInv, RampIsSomewhere
  <2>. QED BY <2>1, <2>2
<1>. QED BY <1>1, <1>2 DEF RampsInv

\* What the gamma module does in one step, with the topology.
GammaStep ==
    \/ GammaRequest /\ UNCHANGED topology
    \/ Switched(FALSE) /\ GammaPaused
    \/ Switched(TRUE) /\ GammaResumed
    \/ \E o \in Outputs, created \in BOOLEAN : Plugged(o, created) /\ UNCHANGED gamma
    \/ \E o \in Outputs : Unplugged(o) /\ GammaUnplugged(o)
    \/ UNCHANGED <<topology, gamma>>

LEMMA ResetKeepsRamps ==
  ASSUME TopologyInv, GammaInv, NEW o \in surfaces, GammaReset(o), UNCHANGED topology
  PROVE  /\ RampsInv'
         /\ pending_gamma_change' \in [Outputs -> Ramps \cup {Identity, NoChange}]
         /\ previous_blob' \in [Outputs -> Ramps \cup {Identity}]
         /\ lut' \in [Outputs -> Ramps \cup {Identity}]
         /\ asked' \in [Outputs -> Ramps \cup {Identity, Unknown}]
<1>1. CASE GammaSet(o, Identity)
  BY <1>1, SetKeepsRamps
<1>2. CASE /\ drm_active
           /\ asked' = [asked EXCEPT ![o] = Unknown]
           /\ UNCHANGED <<pending_gamma_change, previous_blob, lut>>
  <2>1. ASSUME NEW p \in Outputs PROVE RampIsSomewhere(p)'
    BY <1>2 DEF TopologyInv, topology, GammaInv, GammaShape, RampsInv, RampIsSomewhere
  <2>. QED BY <1>2, <2>1 DEF RampsInv, GammaInv, GammaShape
<1>. QED BY <1>1, <1>2 DEF GammaReset

\* A control that gives up its output, or loses it, owned no other one.
LEMMA ReleaseKeepsOwners ==
  ASSUME GammaInv, NEW c \in Controls, NEW o \in Outputs, gamma_controls[o] = c,
         NEW status \in {"unused", "failed"}, Released(c, o, status), UNCHANGED topology
  PROVE  /\ ControlsOwnOutputs'
         /\ gamma_controls' \in [Outputs -> Controls \cup {NoControl}]
         /\ control' \in [Controls -> {"unused", "live", "failed"}]
BY GammaAssumption DEF GammaInv, GammaShape, ControlsOwnOutputs, Released, topology

\* Owners stay those that were told so, and ramps stay somewhere, through every request,
\* VT switch and hotplug.
LEMMA GammaIsKept == TopologyInv /\ GammaInv /\ GammaStep => GammaInv'
<1>. SUFFICES ASSUME TopologyInv, GammaInv, GammaStep PROVE GammaInv'
  OBVIOUS
<1>1. ASSUME GammaRequest, UNCHANGED topology PROVE GammaInv'
  <2>. PICK c \in Controls, o \in Outputs :
         \/ GetGammaControl(c, o)
         \/ \E ramp \in Ramps : SetGamma(c, o, ramp)
         \/ FailControl(c, o)
         \/ DestroyIdle(c)
         \/ DestroyOwner(c, o)
    BY <1>1 DEF GammaRequest
  <2>1. ASSUME UNCHANGED crtcs PROVE RampsInv'
    BY <1>1, <2>1 DEF GammaInv, RampsInv, RampIsSomewhere, crtcs, topology
  <2>2. CASE GetGammaControl(c, o)
    <3>1. GammaShape' /\ ControlsOwnOutputs'
      BY <1>1, <2>2, GammaAssumption
         DEF GetGammaControl, GammaInv, GammaShape, ControlsOwnOutputs, crtcs, topology
    <3>. QED BY <2>1, <2>2, <3>1 DEF GetGammaControl, GammaInv
  <2>3. ASSUME NEW ramp \in Ramps, SetGamma(c, o, ramp) PROVE GammaInv'
    <3>1. o \in surfaces
      BY <2>3, GammaAssumption DEF SetGamma, GammaInv, ControlsOwnOutputs
    <3>2. ControlsOwnOutputs'
      BY <1>1, <2>3 DEF SetGamma, GammaInv, ControlsOwnOutputs, topology
    <3>. QED BY <1>1, <2>3, <3>1, <3>2, SetKeepsRamps DEF SetGamma, GammaInv, GammaShape
  <2>4. ASSUME NEW status \in {"unused", "failed"}, gamma_controls[o] = c,
               Released(c, o, status), GammaReset(o)
        PROVE  GammaInv'
    <3>1. o \in surfaces
      BY <2>4, GammaAssumption DEF GammaInv, ControlsOwnOutputs
    <3>. QED BY <1>1, <2>4, <3>1, ReleaseKeepsOwners, ResetKeepsRamps DEF GammaInv, GammaShape
  <2>5. CASE DestroyIdle(c)
    <3>1. GammaShape' /\ ControlsOwnOutputs'
      BY <1>1, <2>5 DEF DestroyIdle, GammaInv, GammaShape, ControlsOwnOutputs, crtcs, topology
    <3>. QED BY <2>1, <2>5, <3>1 DEF DestroyIdle, GammaInv
  <2>. QED BY <2>2, <2>3, <2>4, <2>5 DEF FailControl, DestroyOwner
<1>2. ASSUME Switched(FALSE), GammaPaused PROVE GammaInv'
  <2>1. GammaShape' /\ ControlsOwnOutputs'
    BY <1>2 DEF Switched, GammaPaused, GammaInv, GammaShape, ControlsOwnOutputs
  <2>2. ASSUME NEW o \in Outputs PROVE RampIsSomewhere(o)'
    BY <1>2, <2>1 DEF Switched, GammaPaused, GammaInv, GammaShape, RampsInv, RampIsSomewhere,
                      TopologyInv
  <2>. QED BY <2>1, <2>2 DEF GammaInv, RampsInv
<1>3. ASSUME Switched(TRUE), GammaResumed PROVE GammaInv'
  <2>. DEFINE queued   == {o \in surfaces : pending_gamma_change[o] # NoChange}
              restored == {o \in surfaces \ queued : previous_blob[o] # Identity}
  <2>. PICK refused \in SUBSET surfaces :
      /\ pending_gamma_change' = [o \in Outputs |-> IF o \in queued THEN NoChange
                                                    ELSE pending_gamma_change[o]]
      /\ previous_blob' = [o \in Outputs |->
            IF o \in queued \ refused THEN BlobAfter(o, pending_gamma_change[o])
            ELSE IF o \in restored \cap refused THEN Identity
            ELSE previous_blob[o]]
      /\ lut' = [o \in Outputs |->
            IF o \in queued \ refused THEN pending_gamma_change[o]
            ELSE IF o \in restored \ refused THEN previous_blob[o]
            ELSE lut[o]]
      /\ asked' = [o \in Outputs |-> IF o \in (queued \cup restored) \cap refused THEN Unknown
                                     ELSE asked[o]]
      /\ UNCHANGED <<gamma_controls, control>>
    BY <1>3 DEF GammaResumed
  <2>1. GammaShape' /\ ControlsOwnOutputs'
    BY <1>3, GammaAssumption
       DEF Switched, GammaInv, GammaShape, ControlsOwnOutputs, BlobAfter
  <2>2. ASSUME NEW o \in Outputs PROVE RampIsSomewhere(o)'
    <3>1. RampIsSomewhere(o)
      BY DEF GammaInv, RampsInv
    <3>2. o \in queued \ refused \/ o \in queued \cap refused \/ o \in restored \ refused
          \/ o \in restored \cap refused \/ o \notin queued \cup restored
      OBVIOUS
    <3>. QED BY <1>3, <3>1, <3>2, GammaAssumption
             DEF Switched, GammaInv, GammaShape, RampIsSomewhere, BlobAfter, TopologyInv
  <2>. QED BY <2>1, <2>2 DEF GammaInv, RampsInv
<1>4. ASSUME NEW o \in Outputs, NEW created \in BOOLEAN, Plugged(o, created), UNCHANGED gamma
      PROVE  GammaInv'
  <2>1. GammaShape' /\ ControlsOwnOutputs'
    BY <1>4 DEF Plugged, gamma, crtcs, GammaInv, GammaShape, ControlsOwnOutputs
  <2>2. RampsInv'
    BY <1>4 DEF Plugged, gamma, crtcs, GammaInv, RampsInv, RampIsSomewhere
  <2>. QED BY <2>1, <2>2 DEF GammaInv
<1>5. ASSUME NEW o \in Outputs, Unplugged(o), GammaUnplugged(o) PROVE GammaInv'
  <2>1. GammaShape'
    BY <1>5 DEF GammaUnplugged, GammaInv, GammaShape
  <2>2. ControlsOwnOutputs'
    BY <1>5, GammaAssumption
       DEF Unplugged, GammaUnplugged, GammaInv, GammaShape, ControlsOwnOutputs
  <2>3. ASSUME NEW p \in Outputs PROVE RampIsSomewhere(p)'
    <3>1. RampIsSomewhere(p)
      BY DEF GammaInv, RampsInv
    <3>2. CASE p = o
      BY <1>5, <2>1, <3>1, <3>2, GammaAssumption
         DEF Unplugged, GammaUnplugged, GammaInv, GammaShape, RampIsSomewhere
    <3>3. CASE p # o
      BY <1>5, <3>1, <3>3 DEF Unplugged, GammaUnplugged, GammaInv, GammaShape, RampIsSomewhere
    <3>. QED BY <3>2, <3>3
  <2>. QED BY <2>1, <2>2, <2>3 DEF GammaInv, RampsInv
<1>6. ASSUME UNCHANGED <<topology, gamma>> PROVE GammaInv'
  BY <1>6 DEF topology, gamma, crtcs, GammaInv, GammaShape, ControlsOwnOutputs, RampsInv,
              RampIsSomewhere
<1>. QED BY <1>1, <1>2, <1>3, <1>4, <1>5, <1>6 DEF GammaStep

-----------------------------------------------------------------------------
(* Output management *)

ConfigShape ==
    /\ setting \in [Outputs -> Settings]
    /\ output_config_dirty \in BOOLEAN
    /\ conf \in [Confs -> {"unborn", "ongoing", "finished", "drained", "stopped"}]
    /\ answer \in [Confs -> {"none", "succeeded", "failed", "cancelled"}]
    /\ outdated \subseteq Confs

\* A configuration that is not created yet has no answer and no serial.
UnbornIsFresh == \A k \in Confs : conf[k] = "unborn" => k \notin outdated /\ answer[k] = "none"

ConfigInv == ConfigShape /\ ToldIsCurrent /\ OutdatedIsAnswered /\ UnbornIsFresh

\* What output management does in one step, with the topology.
ConfigStep ==
    \/ ConfigRequest /\ UNCHANGED topology
    \/ ConfigReloaded /\ UNCHANGED topology
    \/ ConfigDrained /\ UNCHANGED topology
    \/ ConfigHotplug(surfaces')
    \/ UNCHANGED config /\ surfaces' = surfaces

\* Whatever the outputs are set to when clients are told, they are told that, and every
\* configuration that may have been going on is answered.
LEMMA NotifiedIsKept ==
  ASSUME ConfigInv, NEW S, S = surfaces', NEW set \in [Outputs -> Settings], S \subseteq Outputs,
         setting' = set, output_config_dirty' \in BOOLEAN, Notified(S, set)
  PROVE  ConfigInv'
<1>1. ConfigShape'
  BY DEF ConfigInv, ConfigShape, Notified
<1>2. ToldIsCurrent'
  BY DEF ToldIsCurrent, Notified
<1>3. OutdatedIsAnswered' /\ UnbornIsFresh'
  BY DEF ConfigInv, ConfigShape, OutdatedIsAnswered, UnbornIsFresh, Notified, Drained
<1>. QED BY <1>1, <1>2, <1>3 DEF ConfigInv

LEMMA AnsweredIsKept ==
  ASSUME ConfigInv, NEW k \in Confs, Born(k), UNCHANGED topology,
         NEW event \in {"succeeded", "failed", "cancelled"}, Answered(k, event),
         setting' \in [Outputs -> Settings], output_config_dirty' \in BOOLEAN,
         output_config_dirty' \/ UNCHANGED outputs
  PROVE  ConfigInv'
<1>. USE DEF ConfigInv, ConfigShape, topology, held, outputs
<1>1. ConfigShape' /\ OutdatedIsAnswered' /\ UnbornIsFresh'
  BY DEF OutdatedIsAnswered, UnbornIsFresh, Answered, Born
<1>2. ToldIsCurrent'
  BY DEF ToldIsCurrent, Answered
<1>. QED BY <1>1, <1>2

LEMMA DisconnectIsKept ==
  ASSUME ConfigInv, NEW c \in Clients, Disconnected(c), UNCHANGED topology
  PROVE  ConfigInv'
BY DEF Disconnected, ConfigInv, ConfigShape, ToldIsCurrent, OutdatedIsAnswered, UnbornIsFresh,
       outputs, topology

LEMMA AtOnceIsKept ==
  ASSUME ConfigInv, NEW k \in Confs, AnsweredAtOnce(k), UNCHANGED topology
  PROVE  ConfigInv'
<1>1. ClientOf[k] \in Clients
  BY OutputConfigAssumption
<1>2. CASE Disconnected(ClientOf[k])
  BY <1>1, <1>2, DisconnectIsKept
<1>3. CASE Answered(k, "cancelled") /\ UNCHANGED outputs
  BY <1>3, AnsweredIsKept DEF AnsweredAtOnce, ConfigInv, ConfigShape, outputs
<1>4. CASE Answered(k, "failed") /\ UNCHANGED outputs
  BY <1>4, AnsweredIsKept DEF AnsweredAtOnce, ConfigInv, ConfigShape, outputs
<1>. QED BY <1>2, <1>3, <1>4 DEF AnsweredAtOnce

LEMMA RequestIsKept ==
  ASSUME ConfigInv, ConfigRequest, UNCHANGED topology
  PROVE  ConfigInv'
<1>. USE DEF ConfigInv, ConfigShape, outputs, held, requests, topology
<1>1. ASSUME NEW c \in Clients, BindManager(c) PROVE ConfigInv'
  BY <1>1 DEF BindManager, ToldIsCurrent, OutdatedIsAnswered, UnbornIsFresh
<1>2. ASSUME NEW c \in Clients, StopManager(c) PROVE ConfigInv'
  BY <1>2 DEF StopManager, ToldIsCurrent, OutdatedIsAnswered, UnbornIsFresh
<1>3. ASSUME NEW c \in Clients, Disconnected(c) PROVE ConfigInv'
  BY <1>3, DisconnectIsKept
<1>4. ASSUME NEW c \in Clients, NEW o \in Outputs, ReleaseHead(c, o) PROVE ConfigInv'
  BY <1>4 DEF ReleaseHead, ToldIsCurrent, OutdatedIsAnswered, UnbornIsFresh
<1>5. ASSUME NEW k \in Confs, NEW current \in BOOLEAN, CreateConfiguration(k, current)
      PROVE  ConfigInv'
  <2>1. CASE current
    BY <1>5, <2>1 DEF CreateConfiguration, ToldIsCurrent, OutdatedIsAnswered, UnbornIsFresh
  <2>2. CASE ~current
    BY <1>5, <2>2 DEF CreateConfiguration, ToldIsCurrent, OutdatedIsAnswered, UnbornIsFresh
  <2>. QED BY <2>1, <2>2
<1>6. ASSUME NEW k \in Confs, NEW o \in Outputs, NEW enabled \in BOOLEAN,
             ConfigureHead(k, o, enabled)
      PROVE  ConfigInv'
  <2>1. CASE Disconnected(ClientOf[k])
    BY <2>1, DisconnectIsKept, OutputConfigAssumption
  <2>2. CASE UNCHANGED <<outputs, current_state, clients, held, conf, outdated, answer>>
    BY <2>2 DEF ToldIsCurrent, OutdatedIsAnswered, UnbornIsFresh
  <2>. QED BY <1>6, <2>1, <2>2 DEF ConfigureHead
<1>7. ASSUME NEW k \in Confs, Apply(k) PROVE ConfigInv'
  <2>1. CASE AnsweredAtOnce(k)
    BY <2>1, AtOnceIsKept
  <2>2. CASE conf[k] = "ongoing" /\ Answered(k, "failed") /\ UNCHANGED outputs
    BY <2>2, AnsweredIsKept DEF Born
  <2>3. ASSUME conf[k] = "ongoing", Answered(k, "succeeded"), NEW M,
               ConfigApplied(enables[k], M)
        PROVE  ConfigInv'
    BY <2>3, AnsweredIsKept DEF Born, ConfigApplied
  <2>. QED BY <1>7, <2>1, <2>2, <2>3 DEF Apply
<1>8. ASSUME NEW k \in Confs, Test(k) PROVE ConfigInv'
  <2>1. CASE AnsweredAtOnce(k)
    BY <2>1, AtOnceIsKept
  <2>2. CASE conf[k] = "ongoing" /\ Answered(k, "failed") /\ UNCHANGED outputs
    BY <2>2, AnsweredIsKept DEF Born
  <2>3. CASE conf[k] = "ongoing" /\ Answered(k, "succeeded") /\ UNCHANGED outputs
    BY <2>3, AnsweredIsKept DEF Born
  <2>. QED BY <1>8, <2>1, <2>2, <2>3 DEF Test
<1>9. ASSUME NEW k \in Confs, DestroyConfiguration(k) PROVE ConfigInv'
  BY <1>9 DEF DestroyConfiguration, ToldIsCurrent, OutdatedIsAnswered, UnbornIsFresh
<1>. QED BY <1>1, <1>2, <1>3, <1>4, <1>5, <1>6, <1>7, <1>8, <1>9 DEF ConfigRequest

\* Clients were told of the outputs as they are, or will be; configurations are answered
\* before they are outdated.
LEMMA ConfigIsKept == TopologyInv /\ TopologyInv' /\ ConfigInv /\ ConfigStep => ConfigInv'
<1>. SUFFICES ASSUME TopologyInv, TopologyInv', ConfigInv, ConfigStep PROVE ConfigInv'
  OBVIOUS
<1>. USE DEF TopologyInv
<1>1. CASE ConfigRequest /\ UNCHANGED topology
  BY <1>1, RequestIsKept
<1>2. CASE ConfigReloaded /\ UNCHANGED topology
  <2>1. /\ setting' \in [Outputs -> Settings]
        /\ output_config_dirty' \in {TRUE, output_config_dirty \/ setting' # setting}
        /\ NotNotified
    BY <1>2 DEF ConfigReloaded
  <2>2. output_config_dirty' \/ (setting' = setting /\ ~output_config_dirty)
    BY <2>1 DEF ConfigInv, ConfigShape
  <2>3. ToldIsCurrent'
    BY <1>2, <2>1, <2>2 DEF ConfigInv, ConfigShape, ToldIsCurrent, NotNotified, topology
  <2>4. ConfigShape'
    BY <2>1 DEF ConfigInv, ConfigShape, NotNotified, requests
  <2>. QED BY <2>1, <2>3, <2>4 DEF ConfigInv, OutdatedIsAnswered, UnbornIsFresh, NotNotified,
                                   requests
<1>3. CASE ConfigDrained /\ UNCHANGED topology
  <2>1. PICK later \in SUBSET (pending_modes \cap surfaces) :
        \E tried \in SUBSET ((pending_modes \cap surfaces) \ later) :
        \E set \in {s \in [Outputs -> Settings] : \A o \in Outputs \ tried : s[o] = setting[o]} :
          /\ setting' = set
          /\ pending_modes' = later
          /\ output_config_dirty' = FALSE
          /\ IF DirtyAfter(tried) THEN Notified(surfaces, set) ELSE NotNotified
    BY <1>3 DEF ConfigDrained
  <2>2. PICK tried \in SUBSET ((pending_modes \cap surfaces) \ later) :
        \E set \in {s \in [Outputs -> Settings] : \A o \in Outputs \ tried : s[o] = setting[o]} :
          /\ setting' = set
          /\ pending_modes' = later
          /\ output_config_dirty' = FALSE
          /\ IF DirtyAfter(tried) THEN Notified(surfaces, set) ELSE NotNotified
    BY <2>1
  <2>3. PICK set \in {s \in [Outputs -> Settings] : \A o \in Outputs \ tried : s[o] = setting[o]} :
          /\ setting' = set
          /\ output_config_dirty' = FALSE
          /\ IF DirtyAfter(tried) THEN Notified(surfaces, set) ELSE NotNotified
    BY <2>2
  <2>4. CASE DirtyAfter(tried)
    BY <1>3, <2>3, <2>4, NotifiedIsKept DEF topology
  <2>5. CASE ~DirtyAfter(tried)
    <3>1. tried = {} /\ ~output_config_dirty
      BY <2>5 DEF DirtyAfter
    <3>2. \A o \in Outputs : setting'[o] = setting[o]
      BY <2>3, <3>1
    <3>3. ToldIsCurrent'
      BY <1>3, <2>3, <2>5, <3>1, <3>2
         DEF ConfigInv, ConfigShape, ToldIsCurrent, NotNotified, topology
    <3>. QED BY <2>3, <2>5, <3>3 DEF ConfigInv, ConfigShape, OutdatedIsAnswered, UnbornIsFresh,
                                     NotNotified, requests
  <2>. QED BY <2>4, <2>5
<1>4. CASE ConfigHotplug(surfaces')
  <2>1. setting' \in [Outputs -> Settings] /\ Notified(surfaces', setting')
        /\ output_config_dirty' \in BOOLEAN
    BY <1>4 DEF ConfigHotplug, ConfigInv, ConfigShape
  <2>. QED BY <2>1, NotifiedIsKept
<1>5. CASE UNCHANGED config /\ surfaces' = surfaces
  BY <1>5 DEF config, outputs, requests, ConfigInv, ConfigShape, ToldIsCurrent,
              OutdatedIsAnswered, UnbornIsFresh
<1>. QED BY <1>1, <1>2, <1>3, <1>4, <1>5 DEF ConfigStep

-----------------------------------------------------------------------------
(* The toplevel list *)

ForeignShape ==
    /\ shown \subseteq Windows /\ look \in [Windows -> Looks]
    /\ focused \in Windows \cup {NoWindow}
    /\ DOMAIN toplevels \subseteq Windows
    /\ \A w \in DOMAIN toplevels : toplevels[w] \in ToplevelData
    /\ watching \subseteq Watchers
    /\ wl_outputs \in [Watchers -> SUBSET Outputs]
    /\ DOMAIN handles = Watchers
    /\ \A m \in Watchers : /\ DOMAIN handles[m] \subseteq Windows
                           /\ \A w \in DOMAIN handles[m] : handles[m][w] \in HandleData
    /\ dismissed \in [Watchers -> SUBSET Windows]

\* What was told last has one active window at most, and only its handles are destroyed.
ToldAtOnce ==
    /\ \A v, w \in DOMAIN toplevels : toplevels[v].active /\ toplevels[w].active => v = w
    /\ \A m \in Watchers : dismissed[m] \subseteq DOMAIN toplevels

ForeignInv == ForeignShape /\ ToldAtOnce /\ HandlesAreTold

\* What happens to the toplevel list in one step, with the topology.
ForeignStep ==
    \/ ForeignRequest /\ UNCHANGED topology
    \/ ToplevelsRefreshed /\ UNCHANGED topology
    \/ \E o \in Outputs, created \in BOOLEAN : Plugged(o, created) /\ ForeignPlugged(o, created)
    \/ \E o \in Outputs : Unplugged(o) /\ ForeignUnplugged(o)
    \/ UNCHANGED <<surfaces, placeholder, foreign>>

\* Outputs may leave all handles, if those that stay are still bound and there.
LEMMA MovedIsKept ==
  ASSUME ForeignInv, NEW leave \in [Watchers -> SUBSET Outputs],
         wl_outputs' \in [Watchers -> SUBSET Outputs],
         DOMAIN handles' = Watchers,
         \A m \in Watchers : \/ handles'[m] = Moved(m, leave[m], {})
                             \/ leave[m] = {} /\ handles'[m] = handles[m],
         \A m \in Watchers :
           (wl_outputs[m] \cap Mapped) \ leave[m] \subseteq wl_outputs'[m] \cap Mapped',
         UNCHANGED <<windows, toplevels, watching, dismissed>>
  PROVE  ForeignInv'
<1>. USE DEF ForeignInv, ForeignShape, windows
<1>1. ASSUME NEW m \in Watchers
      PROVE  /\ DOMAIN handles'[m] = DOMAIN handles[m]
             /\ \A w \in DOMAIN handles[m] :
                  /\ handles'[m][w] \in HandleData
                  /\ handles'[m][w].look = handles[m][w].look
                  /\ handles'[m][w].active = handles[m][w].active
                  /\ handles'[m][w].on = handles[m][w].on \ leave[m]
  BY DEF Moved, HandleData
<1>2. ForeignShape'
  BY <1>1
<1>3. ToldAtOnce'
  BY DEF ToldAtOnce
<1>4. ASSUME NEW m \in Watchers, NEW w \in DOMAIN handles[m]
      PROVE  /\ handles'[m][w].look = toplevels[w].look
             /\ handles'[m][w].active = toplevels[w].active
             /\ handles'[m][w].on \subseteq wl_outputs'[m] \cap Mapped'
  <2>1. /\ handles[m][w].look = toplevels[w].look
        /\ handles[m][w].active = toplevels[w].active
        /\ handles[m][w].on \subseteq wl_outputs[m] \cap Mapped
    BY DEF HandlesAreTold
  <2>2. (wl_outputs[m] \cap Mapped) \ leave[m] \subseteq wl_outputs'[m] \cap Mapped'
    OBVIOUS
  <2>3. handles[m][w].on \ leave[m] \subseteq wl_outputs'[m] \cap Mapped'
    BY <2>1, <2>2
  <2>. QED BY <1>1, <2>1, <2>3
<1>5. HandlesAreTold'
  <2>. HIDE DEF Mapped
  <2>. QED BY <1>1, <1>4 DEF HandlesAreTold
<1>. QED BY <1>2, <1>3, <1>5

\* Watchers that come and go see what was told last.
LEMMA ForeignRequestIsKept ==
  ASSUME ForeignInv, ForeignRequest, UNCHANGED topology
  PROVE  ForeignInv'
<1>. USE DEF ForeignInv, ForeignShape, windows, told, topology, Mapped
<1>1. CASE WindowsChange
  <2>1. ForeignShape'
    BY <1>1 DEF WindowsChange
  <2>2. ToldAtOnce' /\ HandlesAreTold'
    BY <1>1 DEF WindowsChange, ToldAtOnce, HandlesAreTold
  <2>. QED BY <2>1, <2>2
<1>2. ASSUME NEW m \in Watchers, WatchToplevels(m) PROVE ForeignInv'
  <2>1. ASSUME NEW w \in DOMAIN toplevels
        PROVE  /\ Instance(m, toplevels[w]) \in HandleData
               /\ Instance(m, toplevels[w]).look = toplevels[w].look
               /\ Instance(m, toplevels[w]).active = toplevels[w].active
               /\ Instance(m, toplevels[w]).on = wl_outputs[m] \cap Mapped
    BY DEF Instance, ToplevelData, HandleData
  <2>2. ForeignShape' /\ ToldAtOnce' /\ HandlesAreTold'
    BY <1>2, <2>1 DEF WatchToplevels, ToldAtOnce, HandlesAreTold
  <2>. QED BY <2>2
<1>3. ASSUME NEW m \in Watchers, StopWatching(m) PROVE ForeignInv'
  BY <1>3 DEF StopWatching, ToldAtOnce, HandlesAreTold
<1>4. ASSUME NEW m \in Watchers, WatcherGone(m) PROVE ForeignInv'
  BY <1>4 DEF WatcherGone, ToldAtOnce, HandlesAreTold
<1>5. ASSUME NEW m \in Watchers, NEW w \in Windows, DestroyHandle(m, w) PROVE ForeignInv'
  BY <1>5 DEF DestroyHandle, ToldAtOnce, HandlesAreTold
<1>6. ASSUME NEW m \in Watchers, NEW w \in Windows, HandleRequest(m, w) PROVE ForeignInv'
  <2>1. ForeignShape'
    BY <1>6 DEF HandleRequest
  <2>2. ToldAtOnce' /\ HandlesAreTold'
    BY <1>6 DEF HandleRequest, ToldAtOnce, HandlesAreTold
  <2>. QED BY <2>1, <2>2
<1>7. ASSUME NEW m \in Watchers, NEW o \in Outputs, BindOutput(m, o) PROVE ForeignInv'
  BY <1>7 DEF BindOutput, ToldAtOnce, HandlesAreTold
<1>8. ASSUME NEW m \in Watchers, NEW o \in Outputs, ReleaseOutput(m, o) PROVE ForeignInv'
  <2>. DEFINE leave == [n \in Watchers |-> IF n = m THEN {o} ELSE {}]
  <2>1. /\ leave \in [Watchers -> SUBSET Outputs]
        /\ leave[m] = {o} /\ \A n \in Watchers \ {m} : leave[n] = {}
    OBVIOUS
  <2>. HIDE DEF leave
  <2>2. /\ wl_outputs' = [wl_outputs EXCEPT ![m] = @ \ {o}]
        /\ handles' = [handles EXCEPT ![m] = Moved(m, {o}, {})]
        /\ UNCHANGED <<windows, toplevels, watching, dismissed>>
    BY <1>8 DEF ReleaseOutput
  <2>3. wl_outputs' \in [Watchers -> SUBSET Outputs] /\ DOMAIN handles' = Watchers
    BY <2>2
  <2>4. ASSUME NEW n \in Watchers
        PROVE  /\ wl_outputs[n] \ leave[n] \subseteq wl_outputs'[n]
               /\ \/ handles'[n] = Moved(n, leave[n], {})
                  \/ leave[n] = {} /\ handles'[n] = handles[n]
    <3>1. CASE n = m
      BY <2>1, <2>2, <3>1
    <3>2. CASE n # m
      BY <2>1, <2>2, <3>2
    <3>. QED BY <3>1, <3>2
  <2>5. \A n \in Watchers :
          (wl_outputs[n] \cap Mapped) \ leave[n] \subseteq wl_outputs'[n] \cap Mapped'
    BY <2>4
  <2>. QED BY <2>1, <2>2, <2>3, <2>4, <2>5, MovedIsKept
<1>. QED BY <1>1, <1>2, <1>3, <1>4, <1>5, <1>6, <1>7, <1>8 DEF ForeignRequest

\* A pass of the frame loop tells all watchers the same, and one window is focused.
LEMMA RefreshIsKept ==
  ASSUME ForeignInv, ToplevelsRefreshed, UNCHANGED topology
  PROVE  ForeignInv'
<1>. USE DEF ForeignInv, ForeignShape, windows, topology, Mapped
<1>1. /\ DOMAIN toplevels' = shown
      /\ \A w \in shown : /\ toplevels'[w] \in ToplevelData
                         /\ toplevels'[w].look = look[w]
                         /\ toplevels'[w].active = (w = focused)
  BY DEF ToplevelsRefreshed, Data, ToplevelData
<1>2. ASSUME NEW m \in Watchers
      PROVE  /\ DOMAIN handles'[m] = Instances(m)
             /\ \A w \in Instances(m) :
                  /\ handles'[m][w] \in HandleData
                  /\ handles'[m][w].look = look[w]
                  /\ handles'[m][w].active = (w = focused)
                  /\ handles'[m][w].on \subseteq wl_outputs[m] \cap Mapped
  <2>1. DOMAIN handles'[m] = Instances(m)
    BY DEF ToplevelsRefreshed
  <2>2. ASSUME NEW w \in Instances(m)
        PROVE  /\ handles'[m][w] \in HandleData
               /\ handles'[m][w].look = look[w]
               /\ handles'[m][w].active = (w = focused)
               /\ handles'[m][w].on \subseteq wl_outputs[m] \cap Mapped
    <3>1. w \in Windows
      BY DEF Instances
    <3>2. CASE w \in DOMAIN handles[m]
      <4>1. handles'[m][w] = [handles[m][w] EXCEPT !.look = look[w], !.active = (w = focused)]
        BY <3>2 DEF ToplevelsRefreshed
      <4>2. handles[m][w] \in HandleData /\ handles[m][w].on \subseteq wl_outputs[m] \cap Mapped
        BY <3>2 DEF HandlesAreTold
      <4>. QED BY <3>1, <4>1, <4>2 DEF HandleData
    <3>3. CASE w \notin DOMAIN handles[m]
      <4>1. handles'[m][w] = Instance(m, Data(w))
        BY <3>3 DEF ToplevelsRefreshed
      <4>. QED BY <3>1, <4>1 DEF Instance, Data, HandleData
    <3>. QED BY <3>2, <3>3
  <2>. QED BY <2>1, <2>2
<1>3. /\ dismissed' = [m \in Watchers |-> dismissed[m] \cap shown]
      /\ DOMAIN handles' = Watchers
      /\ UNCHANGED <<windows, watching, wl_outputs>>
  BY DEF ToplevelsRefreshed
<1>4. ForeignShape'
  BY <1>1, <1>2, <1>3 DEF Instances
<1>5. ToldAtOnce'
  BY <1>1, <1>3 DEF ToldAtOnce
<1>6. HandlesAreTold'
  BY <1>1, <1>2, <1>3 DEF HandlesAreTold, ToldAtOnce, Instances
<1>. QED BY <1>4, <1>5, <1>6

LEMMA ForeignTypes == ForeignInv => ForeignTypeOK
BY DEF ForeignInv, ForeignShape, ForeignTypeOK

LEMMA ForeignIsKept == TopologyInv /\ ForeignInv /\ ForeignStep => ForeignInv'
<1>. SUFFICES ASSUME TopologyInv, ForeignInv, ForeignStep PROVE ForeignInv'
  OBVIOUS
<1>1. CASE ForeignRequest /\ UNCHANGED topology
  BY <1>1, ForeignRequestIsKept
<1>2. CASE ToplevelsRefreshed /\ UNCHANGED topology
  BY <1>2, RefreshIsKept
<1>3. ASSUME NEW o \in Outputs, NEW created \in BOOLEAN, Plugged(o, created),
             ForeignPlugged(o, created)
      PROVE  ForeignInv'
  <2>. DEFINE leave == [m \in Watchers |-> Replaced(o, created)]
  <2>1. Mapped \ Replaced(o, created) \subseteq Mapped'
    BY <1>3 DEF Plugged, Replaced, Mapped
  <2>2. leave \in [Watchers -> SUBSET Outputs]
    BY DEF Replaced, TopologyInv
  <2>3. \A m \in Watchers :
          (IF created THEN (wl_outputs[m] \ Replaced(o, created)) \cap {o} ELSE {}) = {}
    BY DEF Replaced
  <2>4. DOMAIN handles' = Watchers /\ \A m \in Watchers : handles'[m] = Moved(m, leave[m], {})
    BY <1>3, <2>3 DEF ForeignPlugged
  <2>5. wl_outputs' = [m \in Watchers |-> wl_outputs[m] \ leave[m]]
        /\ UNCHANGED <<windows, toplevels, watching, dismissed>>
    BY <1>3 DEF ForeignPlugged
  <2>6. wl_outputs' \in [Watchers -> SUBSET Outputs]
    BY <2>5 DEF ForeignInv, ForeignShape
  <2>7. \A m \in Watchers :
          (wl_outputs[m] \cap Mapped) \ leave[m] \subseteq wl_outputs'[m] \cap Mapped'
    BY <2>1, <2>5
  <2>. HIDE DEF leave
  <2>. QED BY <2>2, <2>4, <2>5, <2>6, <2>7, MovedIsKept
<1>4. ASSUME NEW o \in Outputs, Unplugged(o), ForeignUnplugged(o) PROVE ForeignInv'
  <2>. DEFINE leave == [m \in Watchers |-> {o}]
  <2>1. Mapped \ {o} \subseteq Mapped'
    BY <1>4 DEF Unplugged, Mapped, TopologyInv
  <2>2. leave \in [Watchers -> SUBSET Outputs]
    OBVIOUS
  <2>3. /\ DOMAIN handles' = Watchers
        /\ \A m \in Watchers : handles'[m] = Moved(m, leave[m], {})
        /\ UNCHANGED <<windows, toplevels, watching, dismissed>>
    BY <1>4 DEF ForeignUnplugged
  <2>4. wl_outputs' \in [Watchers -> SUBSET Outputs]
    BY <1>4 DEF ForeignUnplugged, ForeignInv, ForeignShape
  <2>5. \A m \in Watchers :
          (wl_outputs[m] \cap Mapped) \ leave[m] \subseteq wl_outputs'[m] \cap Mapped'
    BY <1>4, <2>1 DEF ForeignUnplugged, GivenUp
  <2>. HIDE DEF leave
  <2>. QED BY <2>2, <2>3, <2>4, <2>5, MovedIsKept
<1>5. CASE UNCHANGED <<surfaces, placeholder, foreign>>
  BY <1>5 DEF foreign, windows, told, ForeignInv, ForeignShape, ToldAtOnce, HandlesAreTold, Mapped
<1>. QED BY <1>1, <1>2, <1>3, <1>4, <1>5 DEF ForeignStep

\* The focused window is told last, so that the one before it is no longer active.
LEMMA OneIsActive == ForeignInv => OneActivated
BY ForeignToplevelsAssumption
   DEF ForeignInv, ForeignShape, ToldAtOnce, HandlesAreTold, OneActivated, UnderWay

-----------------------------------------------------------------------------
(* The composition *)

IInv == TopologyInv /\ PowerInv /\ GammaInv /\ ConfigInv /\ ForeignInv

LEMMA InitIInv == Init => IInv
<1>. SUFFICES ASSUME Init PROVE IInv
  OBVIOUS
<1>. USE DEF Init, TopologyInit
<1>1. TopologyInv
  BY DEF TopologyInv
<1>2. PowerInv
  BY DEF PowerInit, PowerInv, PowerShape, PowerIsTold
<1>3. GammaInv
  BY GammaAssumption DEF GammaInit, GammaInv, GammaShape, ControlsOwnOutputs, RampsInv,
                         RampIsSomewhere
<1>4. ConfigInv
  BY DEF ConfigInit, ConfigInv, ConfigShape, ToldIsCurrent, OutdatedIsAnswered, UnbornIsFresh
<1>5. ForeignInv
  BY DEF ForeignInit, ForeignInv, ForeignShape, ToldAtOnce, HandlesAreTold
<1>. QED BY <1>1, <1>2, <1>3, <1>4, <1>5 DEF IInv

LEMMA TopologyIsKept == TopologyInv /\ [Next]_vars => TopologyInv'
<1>. SUFFICES ASSUME TopologyInv, [Next]_vars PROVE TopologyInv'
  OBVIOUS
<1>. USE DEF TopologyInv
<1>1. CASE UNCHANGED topology
  BY <1>1 DEF topology
<1>2. CASE \E active \in BOOLEAN : Switched(active)
  BY <1>2 DEF Switched
<1>3. CASE \E o \in Outputs, created \in BOOLEAN : Plugged(o, created)
  BY <1>3 DEF Plugged
<1>4. CASE \E o \in Outputs : Unplugged(o)
  BY <1>4 DEF Unplugged
<1>. QED BY <1>1, <1>2, <1>3, <1>4
         DEF Next, vars, PowerRequest, RampRequest, HeadRequest, ToplevelRequest,
             ReloadConfig, PauseSession,
             ActivateSession, HotplugConnect, HotplugDisconnect, Rescan, RenderIfNeeded

\* A step of the whole is a step of each protocol.
LEMMA NextIsSteps ==
  TopologyInv /\ [Next]_vars => PowerStep /\ GammaStep /\ ConfigStep /\ ForeignStep
<1>. SUFFICES ASSUME TopologyInv, [Next]_vars
              PROVE  PowerStep /\ GammaStep /\ ConfigStep /\ ForeignStep
  OBVIOUS
<1>1. CASE PowerRequest
  BY <1>1 DEF PowerRequest, PowerStep, GammaStep, ConfigStep, ForeignStep, topology
<1>2. CASE RampRequest
  BY <1>2 DEF RampRequest, PowerStep, GammaStep, ConfigStep, ForeignStep, topology
<1>3. CASE HeadRequest
  BY <1>3 DEF HeadRequest, PowerStep, GammaStep, ConfigStep, ForeignStep, topology
<1>4. CASE ReloadConfig
  BY <1>4 DEF ReloadConfig, PowerStep, GammaStep, ConfigStep, ForeignStep, topology
<1>5. CASE PauseSession
  BY <1>5 DEF PauseSession, Switched, PowerStep, GammaStep, ConfigStep, ForeignStep
<1>6. CASE ActivateSession
  BY <1>6 DEF ActivateSession, Switched, PowerStep, GammaStep, ConfigStep, ForeignStep
<1>7. ASSUME NEW o \in Outputs, NEW created \in BOOLEAN, HotplugConnect(o, created)
      PROVE  PowerStep /\ GammaStep /\ ConfigStep /\ ForeignStep
  <2>1. Replaced(o, created) \in SUBSET Outputs
    BY DEF Replaced, TopologyInv
  <2>. QED BY <1>7, <2>1 DEF HotplugConnect, PowerStep, GammaStep, ConfigStep, ForeignStep
<1>8. ASSUME NEW o \in Outputs, HotplugDisconnect(o)
      PROVE  PowerStep /\ GammaStep /\ ConfigStep /\ ForeignStep
  <2>1. GivenUp(o) \in SUBSET Outputs
    BY DEF GivenUp
  <2>. QED BY <1>8, <2>1 DEF HotplugDisconnect, PowerStep, GammaStep, ConfigStep, ForeignStep
<1>9. CASE Rescan
  BY <1>9 DEF Rescan, PowerStep, GammaStep, ConfigStep, ForeignStep, topology
<1>10. CASE RenderIfNeeded
  BY <1>10 DEF RenderIfNeeded, PowerStep, GammaStep, ConfigStep, ForeignStep
<1>11. CASE UNCHANGED vars
  BY <1>11 DEF vars, PowerStep, GammaStep, ConfigStep, ForeignStep, topology
<1>12. CASE ToplevelRequest
  BY <1>12 DEF ToplevelRequest, PowerStep, GammaStep, ConfigStep, ForeignStep, topology
<1>. QED BY <1>1, <1>2, <1>3, <1>4, <1>5, <1>6, <1>7, <1>8, <1>9, <1>10, <1>11, <1>12 DEF Next

\* The protocols keep what they promise, whatever the clients, the monitors, the
\* session and the kernel do.
THEOREM Invariance == Spec => []IInv
<1>1. IInv /\ [Next]_vars => IInv'
  BY TopologyIsKept, NextIsSteps, PowerIsKept, GammaIsKept, ConfigIsKept,
     ForeignIsKept DEF IInv
<1>. QED BY InitIInv, <1>1, PTL DEF Spec

\* Every power object was told the mode the code goes by, or a queued transition will tell it.
THEOREM PowerClientsAreTold == Spec => []PowerIsTold
<1>1. IInv => PowerIsTold
  BY DEF IInv, PowerInv
<1>. QED BY <1>1, Invariance, PTL

\* An output has one owner, whose client believes so, and every live control owns an output.
THEOREM ControlsAreOwners == Spec => []ControlsOwnOutputs
<1>1. IInv => ControlsOwnOutputs
  BY DEF IInv, GammaInv
<1>. QED BY <1>1, Invariance, PTL

\* An active session shows the ramp that was asked for last, also across VT switches.
THEOREM RampsAreAsAsked == Spec => []GammaAsAsked
<1>1. IInv => GammaAsAsked
  BY RampsAreShown DEF IInv
<1>. QED BY <1>1, Invariance, PTL

\* What clients of output management were told is so, or they are about to be told.
THEOREM HeadsAreCurrent == Spec => []ToldIsCurrent
<1>1. IInv => ToldIsCurrent
  BY DEF IInv, ConfigInv
<1>. QED BY <1>1, Invariance, PTL

\* A configuration is answered before it is outdated.
THEOREM ConfigurationsAreAnswered == Spec => []OutdatedIsAnswered
<1>1. IInv => OutdatedIsAnswered
  BY DEF IInv, ConfigInv
<1>. QED BY <1>1, Invariance, PTL

\* Watchers have a handle of every listed window, which shows what was told last.
THEOREM HandlesAreCurrent == Spec => []HandlesAreTold
<1>1. IInv => HandlesAreTold
  BY DEF IInv, ForeignInv
<1>. QED BY <1>1, Invariance, PTL

\* No watcher ever sees two active windows, also while a refresh is under way.
THEOREM OneIsActivated == Spec => []OneActivated
<1>1. IInv => OneActivated
  BY OneIsActive DEF IInv
<1>. QED BY <1>1, Invariance, PTL

\* Objects and DPMS entries of an output go with it: nothing refers to an output that is
\* neither plugged in nor the placeholder.
LEMMA PowerTypesAreKept == TypeOK /\ IInv /\ [Next]_vars => PowerTypeOK'
<1>. SUFFICES ASSUME TypeOK, IInv, [Next]_vars PROVE PowerTypeOK'
  OBVIOUS
<1>. USE PowerAssumption DEF TypeOK, PowerTypeOK, IInv, PowerInv, PowerShape, ModeOf
<1>1. ASSUME UNCHANGED topology, PowerStep,
             \A p \in Powers, o \in Outputs : GetOutputPower(p, o) => o \in Mapped
      PROVE  PowerTypeOK'
  <2>. USE <1>1 DEF topology, Mapped
  <2>1. ASSUME NEW p \in Powers, NEW o \in Outputs, GetOutputPower(p, o) PROVE PowerTypeOK'
    BY <2>1 DEF GetOutputPower
  <2>2. ASSUME NEW p \in Powers, NEW on \in {"on", "off"}, SetMode(p, on) PROVE PowerTypeOK'
    BY <2>2 DEF SetMode, SetDpms, Refreshed, ToldOf
  <2>3. ASSUME NEW p \in Powers, DestroyPower(p) PROVE PowerTypeOK'
    BY <2>3 DEF DestroyPower
  <2>4. CASE WakeOutputs
    BY <2>4 DEF WakeOutputs, SetDpms
  <2>5. CASE PowerDrained
    BY <2>5 DEF PowerDrained, Refreshed
  <2>6. CASE PowerResumed
    BY <2>6 DEF PowerResumed, Refreshed
  <2>7. ASSUME NEW gone \in SUBSET Outputs, PowerForgets(gone) PROVE PowerTypeOK'
    BY <2>7 DEF PowerForgets
  <2>8. CASE UNCHANGED power
    BY <2>8 DEF power
  <2>. QED BY <1>1, <2>1, <2>2, <2>3, <2>4, <2>5, <2>6, <2>7, <2>8 DEF PowerStep
<1>2. \A p \in Powers, o \in Outputs : GetOutputPower(p, o) => o \in Mapped
  BY DEF GetOutputPower
<1>3. PowerStep
  BY NextIsSteps
<1>4. CASE UNCHANGED topology
  BY <1>1, <1>2, <1>3, <1>4
<1>5. CASE UNCHANGED <<surfaces, placeholder, power>>
  BY <1>5 DEF Mapped, power
<1>6. CASE ActivateSession
  BY <1>6 DEF ActivateSession, Switched, PowerResumed, Refreshed, Mapped
<1>7. ASSUME NEW o \in Outputs, NEW created \in BOOLEAN, HotplugConnect(o, created)
      PROVE  PowerTypeOK'
  <2>1. Mapped \ Replaced(o, created) \subseteq Mapped'
    BY <1>7 DEF HotplugConnect, Plugged, Replaced, Mapped
  <2>. QED BY <1>7, <2>1 DEF HotplugConnect, PowerForgets, Mapped
<1>8. ASSUME NEW o \in Outputs, HotplugDisconnect(o) PROVE PowerTypeOK'
  <2>1. Mapped \ GivenUp(o) \subseteq Mapped'
    BY <1>8 DEF HotplugDisconnect, Unplugged, GivenUp, Mapped
  <2>. QED BY <1>8, <2>1 DEF HotplugDisconnect, PowerForgets, Mapped
<1>. QED BY <1>4, <1>5, <1>6, <1>7, <1>8
         DEF Next, vars, PowerRequest, RampRequest, HeadRequest, ToplevelRequest,
             ReloadConfig, PauseSession,
             Switched, Rescan, RenderIfNeeded

HeadsShape ==
    /\ heads \in [Clients -> SUBSET Outputs] /\ live \in [Clients -> SUBSET Outputs]
    /\ enables \in [Confs -> SUBSET Outputs] /\ disables \in [Confs -> SUBSET Outputs]

\* A broadcast leaves clients with heads of the last broadcast only, and no configuration
\* that is over holds requests.
LEMMA NotifiedTypesAreKept ==
  ASSUME HeadsShape, ConfigTypeOK, ConfigShape, NEW S \in SUBSET Outputs,
         NEW set \in [Outputs -> Settings], setting' \in [Outputs -> Settings],
         pending_modes' \subseteq Outputs, output_config_dirty' \in BOOLEAN, Notified(S, set)
  PROVE  HeadsShape' /\ ConfigTypeOK'
BY DEF HeadsShape, ConfigTypeOK, ConfigShape, Notified, Drained

LEMMA ConfigTypesAreKept ==
  ASSUME TopologyInv, TopologyInv', ConfigInv, HeadsShape, ConfigTypeOK, ConfigStep
  PROVE  HeadsShape' /\ ConfigTypeOK'
<1>. USE DEF HeadsShape, ConfigTypeOK, ConfigInv, ConfigShape, outputs, held, requests, TopologyInv
<1>d. ASSUME NEW c \in Clients, Disconnected(c) PROVE HeadsShape' /\ ConfigTypeOK'
  BY <1>d DEF Disconnected
<1>a. ASSUME NEW k \in Confs, NEW event \in {"succeeded", "failed", "cancelled"},
             Answered(k, event), setting' \in [Outputs -> Settings],
             pending_modes' \subseteq Outputs, output_config_dirty' \in BOOLEAN
      PROVE  HeadsShape' /\ ConfigTypeOK'
  BY <1>a DEF Answered
<1>1. ASSUME NEW c \in Clients, BindManager(c) PROVE HeadsShape' /\ ConfigTypeOK'
  BY <1>1 DEF BindManager, ToldIsCurrent
<1>2. ASSUME NEW c \in Clients, StopManager(c) PROVE HeadsShape' /\ ConfigTypeOK'
  BY <1>2 DEF StopManager
<1>3. ASSUME NEW c \in Clients, NEW o \in Outputs, ReleaseHead(c, o)
      PROVE  HeadsShape' /\ ConfigTypeOK'
  <2>1. o \in live[c] \/ o \notin live[c]
    OBVIOUS
  <2>. QED BY <1>3, <2>1 DEF ReleaseHead
<1>4. ASSUME NEW k \in Confs, NEW current \in BOOLEAN, CreateConfiguration(k, current)
      PROVE  HeadsShape' /\ ConfigTypeOK'
  BY <1>4 DEF CreateConfiguration
<1>5. ASSUME NEW k \in Confs, NEW o \in Outputs, NEW enabled \in BOOLEAN,
             ConfigureHead(k, o, enabled)
      PROVE  HeadsShape' /\ ConfigTypeOK'
  <2>1. ClientOf[k] \in Clients
    BY OutputConfigAssumption
  <2>2. CASE Disconnected(ClientOf[k])
    BY <1>d, <2>1, <2>2
  <2>3. CASE ~Disconnected(ClientOf[k])
    BY <1>5, <2>3 DEF ConfigureHead
  <2>. QED BY <2>2, <2>3
<1>6. ASSUME NEW k \in Confs, Apply(k) \/ Test(k) PROVE HeadsShape' /\ ConfigTypeOK'
  <2>1. ClientOf[k] \in Clients
    BY OutputConfigAssumption
  <2>2. CASE Disconnected(ClientOf[k])
    BY <1>d, <2>1, <2>2
  <2>3. CASE ~Disconnected(ClientOf[k])
    <3>1. \E event \in {"succeeded", "failed", "cancelled"} : Answered(k, event)
      BY <1>6, <2>3 DEF Apply, Test, AnsweredAtOnce
    <3>2. /\ setting' \in [Outputs -> Settings] /\ pending_modes' \subseteq Outputs
          /\ output_config_dirty' \in BOOLEAN
      <4>1. CASE UNCHANGED outputs
        BY <4>1
      <4>2. ASSUME NEW M \in SUBSET enables[k], ConfigApplied(enables[k], M)
            PROVE  /\ setting' \in [Outputs -> Settings] /\ pending_modes' \subseteq Outputs
                   /\ output_config_dirty' \in BOOLEAN
        BY <4>2 DEF ConfigApplied
      <4>. QED BY <1>6, <2>3, <4>1, <4>2 DEF Apply, Test, AnsweredAtOnce
    <3>. QED BY <1>a, <3>1, <3>2
  <2>. QED BY <2>2, <2>3
<1>7. ASSUME NEW k \in Confs, DestroyConfiguration(k) PROVE HeadsShape' /\ ConfigTypeOK'
  BY <1>7 DEF DestroyConfiguration
<1>8. CASE ConfigReloaded /\ UNCHANGED topology
  BY <1>8 DEF ConfigReloaded, NotNotified, topology, Mapped
<1>9. CASE ConfigDrained /\ UNCHANGED topology
  <2>1. /\ setting' \in [Outputs -> Settings] /\ pending_modes' \subseteq Outputs
        /\ output_config_dirty' \in BOOLEAN
        /\ Notified(surfaces, setting') \/ NotNotified
    BY <1>9 DEF ConfigDrained
  <2>. QED BY <2>1, NotifiedTypesAreKept DEF NotNotified
<1>10. CASE ConfigHotplug(surfaces')
  <2>1. /\ setting' \in [Outputs -> Settings] /\ pending_modes' \subseteq Outputs
        /\ output_config_dirty' \in BOOLEAN
        /\ Notified(surfaces', setting')
    BY <1>10 DEF ConfigHotplug
  <2>. QED BY <2>1, NotifiedTypesAreKept
<1>11. CASE UNCHANGED config
  BY <1>11 DEF config
<1>. QED BY <1>d, <1>1, <1>2, <1>3, <1>4, <1>5, <1>6, <1>7, <1>8, <1>9, <1>10, <1>11
         DEF ConfigStep, ConfigRequest

\* Everything has its type: nothing refers to an output that is gone, clients hold heads of
\* the last broadcast, and a configuration that is over holds no request.
THEOREM TypeCorrect == Spec => []TypeOK
<1>1. Init => TypeOK /\ HeadsShape
  <2>. SUFFICES ASSUME Init PROVE TypeOK /\ HeadsShape
    OBVIOUS
  <2>1. PowerTypeOK
    BY DEF Init, TopologyInit, PowerInit, PowerTypeOK, Mapped
  <2>2. HeadsShape
    BY DEF Init, ConfigInit, HeadsShape
  <2>3. ConfigTypeOK
    BY DEF Init, ConfigInit, ConfigTypeOK
  <2>4. ForeignTypeOK
    BY InitIInv, ForeignTypes DEF IInv
  <2>. QED BY <2>1, <2>2, <2>3, <2>4 DEF Init, TopologyInit, TypeOK
<1>2. TypeOK /\ HeadsShape /\ IInv /\ IInv' /\ [Next]_vars => (TypeOK /\ HeadsShape)'
  <2>. SUFFICES ASSUME TypeOK, HeadsShape, IInv, IInv', [Next]_vars
                PROVE  (TypeOK /\ HeadsShape)'
    OBVIOUS
  <2>1. PowerTypeOK'
    BY PowerTypesAreKept
  <2>2. HeadsShape' /\ ConfigTypeOK'
    BY NextIsSteps, ConfigTypesAreKept DEF TypeOK, IInv
  <2>3. ForeignTypeOK'
    BY DEF IInv, ForeignInv, ForeignShape, ForeignTypeOK
  <2>. QED BY <2>1, <2>2, <2>3 DEF TypeOK, IInv, TopologyInv
<1>. QED BY <1>1, <1>2, Invariance, PTL DEF Spec

\* A configuration that has its answer does nothing to the outputs.
THEOREM AnsweredStaysInert == Spec => AnsweredIsInert
<1>1. ASSUME IInv, NEW k \in Confs, answer[k] # "none", Apply(k) \/ Test(k)
      PROVE  UNCHANGED <<setting, pending_modes, output_config_dirty>>
  <2>1. conf[k] # "ongoing"
    BY <1>1 DEF IInv, ConfigInv, OutdatedIsAnswered
  <2>2. AnsweredAtOnce(k)
    BY <1>1, <2>1 DEF Apply, Test
  <2>. QED BY <2>2 DEF AnsweredAtOnce, Disconnected, outputs
<1>2. IInv => [\A k \in Confs : answer[k] # "none" /\ (Apply(k) \/ Test(k)) =>
                 UNCHANGED <<setting, pending_modes, output_config_dirty>>]_<<config, topology>>
  BY <1>1
<1>. QED BY <1>2, Invariance, PTL DEF AnsweredIsInert
=============================================================================
