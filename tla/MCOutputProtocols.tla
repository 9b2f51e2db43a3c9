--------------------------- MODULE MCOutputProtocols ---------------------------
(***************************************************************************)
(* Two outputs; objects of each protocol, and windows, which are used one  *)
(* protocol at a time.                                                     *)
(***************************************************************************)
EXTENDS OutputProtocols, Naturals, TLC

\* Every client has its configurations.
MCClientOf == [k \in Confs |-> CHOOSE c \in Clients : TRUE]

PowerIdle ==
    /\ \A p \in Powers : power_output[p] = NoOutput
    /\ dpms_off_outputs = {} /\ \A o \in Outputs : pending_dpms[o] = "none"

GammaIdle ==
    /\ \A c \in Controls : control[c] = "unused"
    /\ \A o \in Outputs : {asked[o], lut[o], previous_blob[o]} = {Identity}
    /\ \A o \in Outputs : pending_gamma_change[o] = NoChange

ConfigIdle ==
    /\ clients = {} /\ pending_modes = {} /\ ~output_config_dirty
    /\ \A k \in Confs : ~Born(k)
    /\ \A o \in Outputs : setting[o] = setting[CHOOSE p \in Outputs : TRUE]

ToplevelsIdle ==
    /\ shown = {} /\ look = [w \in Windows |-> CHOOSE l \in Looks : TRUE] /\ focused = NoWindow
    /\ watching = {} /\ \A m \in Watchers : wl_outputs[m] = {}
    /\ toplevels = <<>> /\ dismissed = wl_outputs

\* Clients use one protocol at a time: nothing one does concerns another.
OneProtocol ==
    LET idle == <<PowerIdle, GammaIdle, ConfigIdle, ToplevelsIdle>>
    IN  \E i \in DOMAIN idle : \A j \in DOMAIN idle \ {i} : idle[j]

\* Clients release their old heads, but for one.
FewHeads == \A c \in Clients : Cardinality(stale[c]) + Cardinality(orphaned[c]) <= 1

\* One window changes its look, and watchers destroy one handle.
FewWindows ==
    /\ \E w \in Windows : \A v \in Windows \ {w} : look[v] = CHOOSE l \in Looks : TRUE
    /\ \A m \in Watchers : Cardinality(dismissed[m]) <= 1

Symmetry == Permutations(Powers) \cup Permutations(Controls) \cup Permutations(Ramps)
            \cup Permutations(Confs) \cup Permutations(Settings) \cup Permutations(Windows)
=============================================================================
