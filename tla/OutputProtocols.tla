---------------------------- MODULE OutputProtocols ----------------------------
(***************************************************************************)
(* The output protocols and the toplevel list together: their requests are *)
(* handled one at a time, while hotplug, VT switches and the frame loop    *)
(* concern them all in one step.                                           *)
(***************************************************************************)
EXTENDS OutputPower, Gamma, OutputConfig, ForeignToplevels

vars == <<topology, power, gamma, config, foreign>>

Init ==
    /\ TopologyInit
    /\ PowerInit
    /\ GammaInit
    /\ ConfigInit
    /\ ForeignInit

PowerRequest ==
    /\ \/ \E p \in Powers :
            \/ \E o \in Outputs : GetOutputPower(p, o)
            \/ \E on \in {"on", "off"} : SetMode(p, on)
            \/ DestroyPower(p)
       \/ WakeOutputs
    /\ UNCHANGED <<topology, gamma, config, foreign>>

RampRequest == GammaRequest /\ UNCHANGED <<topology, power, config, foreign>>

HeadRequest == ConfigRequest /\ UNCHANGED <<topology, power, gamma, foreign>>

ToplevelRequest == ForeignRequest /\ UNCHANGED <<topology, power, gamma, config>>

ReloadConfig == ConfigReloaded /\ UNCHANGED <<topology, power, gamma, foreign>>

PauseSession ==
    /\ Switched(FALSE)
    /\ GammaPaused
    /\ UNCHANGED <<power, config, foreign>>

\* A drm.activate that fails returns early and changes nothing.
ActivateSession ==
    /\ Switched(TRUE)
    /\ PowerResumed
    /\ GammaResumed
    /\ UNCHANGED <<config, foreign>>

HotplugConnect(o, created) ==
    /\ Plugged(o, created)
    /\ PowerForgets(Replaced(o, created))
    /\ ConfigHotplug(surfaces')
    /\ ForeignPlugged(o, created)
    /\ UNCHANGED gamma

HotplugDisconnect(o) ==
    /\ Unplugged(o)
    /\ PowerForgets(GivenUp(o))
    /\ GammaUnplugged(o)
    /\ ConfigHotplug(surfaces')
    /\ ForeignUnplugged(o)

\* UdevEvent::Changed without a connector that came or went, or with a failed scan.
Rescan == ConfigHotplug(surfaces) /\ UNCHANGED <<topology, power, gamma, foreign>>

RenderIfNeeded ==
    /\ drm_active
    /\ PowerDrained
    /\ ConfigDrained
    /\ ToplevelsRefreshed
    /\ UNCHANGED <<topology, gamma>>

Next ==
    \/ PowerRequest
    \/ RampRequest
    \/ HeadRequest
    \/ ToplevelRequest
    \/ ReloadConfig
    \/ PauseSession
    \/ ActivateSession
    \/ \E o \in Outputs : HotplugDisconnect(o) \/ \E created \in BOOLEAN : HotplugConnect(o, created)
    \/ Rescan
    \/ RenderIfNeeded

Spec == Init /\ [][Next]_vars

\* The frame loop goes on while the session is switched to.
FairSpec == Spec /\ WF_vars(RenderIfNeeded)

TypeOK ==
    /\ surfaces \subseteq Outputs /\ placeholder \subseteq Outputs
    /\ surfaces = {} \/ placeholder = {}
    /\ PowerTypeOK
    /\ ConfigTypeOK
    /\ ForeignTypeOK
=============================================================================
