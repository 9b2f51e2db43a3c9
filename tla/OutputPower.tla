------------------------------ MODULE OutputPower ------------------------------
(***************************************************************************)
(* wlr-output-power-management (protocols/output_power.rs and its handler  *)
(* in handlers/mod.rs): what each power object was told of its output,     *)
(* against what dpms_off_outputs says.  RenderLoop has what the frame loop *)
(* does with the panel.                                                    *)
(*                                                                         *)
(* An object that was told "failed" is inert and back among the unused     *)
(* ones; so is one whose Output object was replaced, which the code tells  *)
(* "failed" when the last reference to that Output is gone.                *)
(***************************************************************************)
EXTENDS OutputTopology

CONSTANTS
    Powers,      \* zwlr_output_power_v1 objects
    NoOutput

ASSUME PowerAssumption == NoOutput \notin Outputs

VARIABLES
    power_output,        \* OutputPowerData.output of an object, NoOutput if unused
    output_powers,       \* the mode an object was told last; "none" if unused
    dpms_off_outputs,
    pending_dpms         \* "none" for an output without an entry

power == <<power_output, output_powers, dpms_off_outputs, pending_dpms>>

PowerInit ==
    /\ power_output = [p \in Powers |-> NoOutput]
    /\ output_powers = [p \in Powers |-> "none"]
    /\ dpms_off_outputs = {}
    /\ pending_dpms = [o \in Outputs |-> "none"]

\* mode_for(get_dpms(o)), given dpms_off_outputs.
ModeOf(o, off) == IF o \in off THEN "off" ELSE "on"

\* OutputPowerState::refresh: every object whose output changed is told.
Refreshed(off, objects) ==
    [p \in Powers |-> IF p \in objects /\ power_output[p] # NoOutput
                      THEN ModeOf(power_output[p], off) ELSE output_powers[p]]

\* Only the object that asked is told.
SlipToldOf(o, asking) == {asking}

\* The objects that set_mode tells: all of the output.
ToldOf(o, asking) == {p \in Powers : power_output[p] = o}

\* set_dpms(o, on) for every o of S.
SetDpms(S, on) ==
    LET same == {o \in S : ModeOf(o, dpms_off_outputs) = on}
    IN  /\ dpms_off_outputs' = IF on = "on" THEN dpms_off_outputs \ S
                               ELSE dpms_off_outputs \cup S
        /\ pending_dpms' = [o \in Outputs |-> IF o \in same THEN "none"
                                              ELSE IF o \in S THEN on
                                              ELSE pending_dpms[o]]

\* get_output_power
GetOutputPower(p, o) ==
    /\ output_powers[p] = "none" /\ o \in Mapped
    /\ power_output' = [power_output EXCEPT ![p] = o]
    /\ output_powers' = [output_powers EXCEPT ![p] = ModeOf(o, dpms_off_outputs)]
    /\ UNCHANGED <<dpms_off_outputs, pending_dpms>>

\* set_mode: the request is carried out later, the mode is told at once.
SetMode(p, on) ==
    /\ power_output[p] # NoOutput
    /\ SetDpms({power_output[p]}, on)
    /\ output_powers' = Refreshed(dpms_off_outputs', ToldOf(power_output[p], p))
    /\ UNCHANGED power_output

\* wake_dpms_off_outputs, at any input.
WakeOutputs ==
    /\ dpms_off_outputs # {}
    /\ SetDpms(dpms_off_outputs, "on")
    /\ UNCHANGED <<power_output, output_powers>>

DestroyPower(p) ==
    /\ power_output[p] # NoOutput
    /\ power_output' = [power_output EXCEPT ![p] = NoOutput]
    /\ output_powers' = [output_powers EXCEPT ![p] = "none"]
    /\ UNCHANGED <<dpms_off_outputs, pending_dpms>>

\* The pass drains the transitions, including those that an input asked for, without
\* telling anybody.
SlipPowerDrained ==
    /\ pending_dpms' = [o \in Outputs |-> "none"]
    /\ UNCHANGED <<power_output, output_powers, dpms_off_outputs>>

\* render_if_needed drains pending_dpms and refreshes, unless there was none.
PowerDrained ==
    /\ pending_dpms' = [o \in Outputs |-> "none"]
    /\ output_powers' = IF \A o \in Outputs : pending_dpms[o] = "none" THEN output_powers
                        ELSE Refreshed(dpms_off_outputs, Powers)
    /\ UNCHANGED <<power_output, dpms_off_outputs>>

\* ActivateSession wakes every screen.
PowerResumed ==
    /\ dpms_off_outputs' = {}
    /\ pending_dpms' = [o \in Outputs |-> "none"]
    /\ output_powers' = Refreshed({}, Powers)
    /\ UNCHANGED power_output

\* The Output objects of gone are given up, or replaced: the entry that a placeholder leaves
\* in dpms_off_outputs names none of Outputs any more.
PowerForgets(gone) ==
    LET inert == {p \in Powers : power_output[p] \in gone}
    IN  /\ dpms_off_outputs' = dpms_off_outputs \ gone
        /\ pending_dpms' = [o \in Outputs |-> IF o \in gone THEN "none" ELSE pending_dpms[o]]
        /\ power_output' = [p \in Powers |-> IF p \in inert THEN NoOutput ELSE power_output[p]]
        /\ output_powers' = [p \in Powers |-> IF p \in inert THEN "none" ELSE output_powers[p]]

-----------------------------------------------------------------------------
(* Properties *)

PowerTypeOK ==
    /\ power_output \in [Powers -> Mapped \cup {NoOutput}]
    /\ \A p \in Powers : output_powers[p] \in IF power_output[p] = NoOutput THEN {"none"}
                                              ELSE {"on", "off"}
    /\ dpms_off_outputs \subseteq Mapped
    /\ pending_dpms \in [Outputs -> {"none", "on", "off"}]

\* Whoever else switches an output (another client, an input, a VT switch, a drained
\* transition), each object was told the mode that set_mode and get_dpms go by, or a
\* transition is queued after which the next pass tells it.
PowerIsTold ==
    \A p \in Powers :
      power_output[p] # NoOutput =>
        \/ output_powers[p] = ModeOf(power_output[p], dpms_off_outputs)
        \/ pending_dpms[power_output[p]] = ModeOf(power_output[p], dpms_off_outputs)
=============================================================================
