----------------------------- MODULE MCRenderLoop -----------------------------
(* RenderLoop on a machine with one or two connectors. *)
EXTENDS RenderLoop

CONSTANTS
    Configured   \* the connectors whose modes clients change and that animate

\* Mode changes and animations concern configured outputs only.  The others are still
\* powered, damaged, plugged and unplugged.
ConfiguredNext ==
    \/ \E o \in Configured : StartAnimation(o)
    \/ \E S \in SUBSET Configured : ApplyOutputConfig(S) \/ ReloadConfig(S)
    \/ \E o \in Outputs :
         \/ ClientDamage(o)
         \/ \E on \in BOOLEAN : SetDpms(o, on)
         \/ FocusOutput(o)
         \/ VBlank(o)
         \/ EstimatedVBlank(o)
         \/ \E created \in BOOLEAN : HotplugConnect(o, created)
         \/ HotplugDisconnect(o)
    \/ DamageAll
    \/ ToggleGlobalAnimation
    \/ PauseSession
    \/ ActivateSession
    \/ TickWhilePaused
    \/ RenderIfNeeded

ConfiguredSpec == Init /\ [][ConfiguredNext]_vars /\ Fairness
=============================================================================
