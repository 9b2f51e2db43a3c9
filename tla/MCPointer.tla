----------------------------- MODULE MCPointer -----------------------------
(* Two outputs, and a mouse and a touchpad that taps. *)
EXTENDS Pointer, TLC

\* No output is named in the specification.
Symmetry == Permutations(Outputs)

\* A button beside the tap is used where there is but one output, which goes and comes
\* back once.
OneOutput == Cardinality(Known) = 1 /\ plugs <= 1

OneHand == buttons \cup ptr.client \cup ptr.pressed \cup unheard \subseteq {Middle} \/ OneOutput

HandedNext ==
    \/ GestureNext /\ UNCHANGED <<hands, plugs>>
    \/ \E b \in Buttons : (b = Middle \/ OneOutput) /\ PressButton(b)
    \/ \E b \in Buttons : ReleaseButton(b)
    \/ \E o \in Outputs : Motion(o) \/ UnplugOutput(o) \/ PlugOutput(o)
    \/ Navigate
    \/ Scroll
    \/ Request
    \/ Commit
    \/ SetFullscreen
    \/ Lock
    \/ LockAnswers
    \/ PlugFailed

HandedSpec == Init /\ [][HandedNext]_vars
=============================================================================
