-------------------------------- MODULE Gamma --------------------------------
(***************************************************************************)
(* wlr-gamma-control (protocols/gamma_control.rs, backend/gamma.rs and the *)
(* parts of backend/udev.rs that serve it): one control per output, the    *)
(* ramp its CRTC shows, and what becomes of both while the session is      *)
(* switched away, when a client dies and when a monitor goes.              *)
(*                                                                         *)
(* lut and asked are not in the code: what the kernel has the CRTC show,   *)
(* and what it should show.  A control that was destroyed is unused again. *)
(***************************************************************************)
EXTENDS OutputTopology

CONSTANTS
    Controls,    \* zwlr_gamma_control_v1 objects
    NoControl,
    Ramps,       \* ramps that clients set
    Identity,    \* the LUT without a ramp; also previous_blob = None
    Unknown,     \* anything: the kernel refused, or the monitor is newly plugged
    NoChange,    \* pending_gamma_change = None
    Legacy       \* outputs whose CRTC has no GAMMA_LUT property

ASSUME GammaAssumption ==
    /\ NoControl \notin Controls
    /\ Identity \notin Ramps /\ Unknown \notin Ramps \cup {Identity}
    /\ NoChange \notin Ramps \cup {Identity}
    /\ Legacy \subseteq Outputs

VARIABLES
    gamma_controls,          \* the control that owns an output
    control,                 \* "unused", "live" or "failed", as its client was told
    pending_gamma_change,
    previous_blob,
    lut,
    asked

crtcs == <<pending_gamma_change, previous_blob, lut, asked>>
gamma == <<gamma_controls, control, crtcs>>

GammaInit ==
    /\ gamma_controls = [o \in Outputs |-> NoControl]
    /\ control = [c \in Controls |-> "unused"]
    /\ pending_gamma_change = [o \in Outputs |-> NoChange]
    /\ previous_blob = [o \in Outputs |-> Identity]
    /\ lut = [o \in Outputs |-> Identity]
    /\ asked = [o \in Outputs |-> Identity]

\* A new blob is not remembered on its CRTC.
SlipBlobAfter(o, ramp) == previous_blob[o]

\* previous_blob after set_gamma: only the atomic path has one.
BlobAfter(o, ramp) == IF o \in Legacy THEN previous_blob[o] ELSE ramp

\* UdevDevice::set_gamma(o, ramp) succeeds: queued while switched away, else applied.
GammaSet(o, ramp) ==
    /\ asked' = [asked EXCEPT ![o] = ramp]
    /\ IF drm_active
       THEN /\ previous_blob' = [previous_blob EXCEPT ![o] = BlobAfter(o, ramp)]
            /\ lut' = [lut EXCEPT ![o] = ramp]
            /\ UNCHANGED pending_gamma_change
       ELSE /\ pending_gamma_change' = [pending_gamma_change EXCEPT ![o] = ramp]
            /\ UNCHANGED <<previous_blob, lut>>

\* set_gamma(o, None), whose result is ignored: the kernel may refuse.
GammaReset(o) ==
    \/ GammaSet(o, Identity)
    \/ /\ drm_active
       /\ asked' = [asked EXCEPT ![o] = Unknown]
       /\ UNCHANGED <<pending_gamma_change, previous_blob, lut>>

\* c gives up o, or o is taken from it.
Released(c, o, status) ==
    /\ gamma_controls' = [gamma_controls EXCEPT ![o] = NoControl]
    /\ control' = [control EXCEPT ![c] = status]

\* get_gamma_control: refused for an output that is gone, owned or without gamma.
GetGammaControl(c, o) ==
    /\ control[c] = "unused"
    /\ \/ /\ o \in surfaces /\ gamma_controls[o] = NoControl
          /\ gamma_controls' = [gamma_controls EXCEPT ![o] = c]
          /\ control' = [control EXCEPT ![c] = "live"]
       \/ /\ control' = [control EXCEPT ![c] = "failed"]
          /\ UNCHANGED gamma_controls
    /\ UNCHANGED crtcs

\* set_gamma: a table of the wrong size or a refusal of the kernel fails the control.
SetGamma(c, o, ramp) ==
    /\ gamma_controls[o] = c
    /\ GammaSet(o, ramp)
    /\ UNCHANGED <<gamma_controls, control>>

\* fail_control
FailControl(c, o) ==
    /\ gamma_controls[o] = c
    /\ Released(c, o, "failed")
    /\ GammaReset(o)

\* The client destroys a control that owns nothing, or dies.
DestroyIdle(c) ==
    /\ control[c] = "failed"
    /\ control' = [control EXCEPT ![c] = "unused"]
    /\ UNCHANGED <<gamma_controls, crtcs>>

\* The ramp of a control that goes stays.
SlipDestroyOwner(c, o) ==
    /\ gamma_controls[o] = c
    /\ Released(c, o, "unused")
    /\ UNCHANGED <<pending_gamma_change, previous_blob, lut>>
    /\ asked' = [asked EXCEPT ![o] = Identity]

\* It destroys the control of o, or dies.
DestroyOwner(c, o) ==
    /\ gamma_controls[o] = c
    /\ Released(c, o, "unused")
    /\ GammaReset(o)

\* PauseSession: the kernel forgets every ramp.
GammaPaused ==
    /\ lut' = [o \in Outputs |-> Identity]
    /\ UNCHANGED <<gamma_controls, control, pending_gamma_change, previous_blob, asked>>

\* The last ramp that was set before the switch comes back.
SlipGammaResumed ==
    /\ lut' = [o \in Outputs |-> IF o \in surfaces THEN previous_blob[o] ELSE lut[o]]
    /\ UNCHANGED <<gamma_controls, control, pending_gamma_change, previous_blob, asked>>

\* ActivateSession: what was queued is applied, else the last blob is set again, which
\* the kernel may refuse for some outputs.
GammaResumed ==
    \E refused \in SUBSET surfaces :
      LET queued   == {o \in surfaces : pending_gamma_change[o] # NoChange}
          restored == {o \in surfaces \ queued : previous_blob[o] # Identity}
      IN
      /\ pending_gamma_change' = [o \in Outputs |-> IF o \in queued THEN NoChange
                                                    ELSE pending_gamma_change[o]]
      /\ previous_blob' = [o \in Outputs |->
            IF o \in queued \ refused THEN BlobAfter(o, pending_gamma_change[o])
            ELSE IF o \in restored \cap refused THEN Identity
            ELSE previous_blob[o]]
      /\ lut' = [o \in Outputs |->
            IF o \in queued \ refused THEN pending_gamma_change[o]
            ELSE IF o \in restored \ refused THEN previous_blob[o]
            ELSE lut[o]]
      /\ asked' = [o \in Outputs |-> IF o \in (queued \cup restored) \cap refused THEN Unknown
                                     ELSE asked[o]]
      /\ UNCHANGED <<gamma_controls, control>>

\* Unplugging takes the control away and tells nobody.
SlipGammaUnplugged(o) ==
    /\ gamma_controls' = [gamma_controls EXCEPT ![o] = NoControl]
    /\ UNCHANGED <<control, crtcs>>

\* output_removed; the surface takes its queue and its blob with it.  The kernel may
\* leave the ramp on the CRTC.
GammaUnplugged(o) ==
    /\ gamma_controls' = [gamma_controls EXCEPT ![o] = NoControl]
    /\ control' = [c \in Controls |-> IF c = gamma_controls[o] THEN "failed" ELSE control[c]]
    /\ pending_gamma_change' = [pending_gamma_change EXCEPT ![o] = NoChange]
    /\ previous_blob' = [previous_blob EXCEPT ![o] = Identity]
    /\ \E left \in {lut[o], Identity} :
         /\ lut' = [lut EXCEPT ![o] = left]
         /\ asked' = [asked EXCEPT ![o] = IF left = Identity THEN Identity ELSE Unknown]

GammaRequest ==
    \E c \in Controls : \E o \in Outputs :
      \/ GetGammaControl(c, o)
      \/ \E ramp \in Ramps : SetGamma(c, o, ramp)
      \/ FailControl(c, o)
      \/ DestroyIdle(c)
      \/ DestroyOwner(c, o)

-----------------------------------------------------------------------------
(* Properties *)

\* An output is owned by a control whose client believes so, and only one; a client that
\* was not told "failed" does own an output.
ControlsOwnOutputs ==
    /\ \A o \in Outputs : gamma_controls[o] # NoControl =>
         o \in surfaces /\ control[gamma_controls[o]] = "live"
    /\ \A o, p \in Outputs : o # p /\ gamma_controls[o] # NoControl =>
         gamma_controls[o] # gamma_controls[p]
    /\ \A c \in Controls : control[c] = "live" => \E o \in Outputs : gamma_controls[o] = c

\* While the session is switched to, an output shows the last ramp set by the control that
\* owns it, and none once that control is gone, whatever was set, destroyed or passed on
\* while it was switched away, unless the kernel refused it.  A CRTC without the property
\* loses its ramp in a switch.
GammaAsAsked ==
    \A o \in surfaces :
      drm_active => \/ asked[o] \in {lut[o], Unknown}
                    \/ o \in Legacy /\ lut[o] = Identity
=============================================================================
