---------------------------- MODULE MCWindowStage ----------------------------
(* WindowStage with a few windows of different kinds on two outputs. *)
EXTENDS WindowStage, FiniteSets, TLC

CONSTANTS
    w1, d,       \* d is a dialog of w1; nothing else has a parent
    Asking,      \* the windows that ask to be fit or fullscreen
    MaxWindows   \* how many windows appear in a behaviour

MCParent == [w \in Windows |-> IF w = d THEN w1 ELSE NoWindow]

\* State constraint: only the windows of Asking are, or wait to be, fullscreen or fit.
OnlyAsking ==
    pending_fit \cup pending_fullscreen \cup {fullscreen[o] : o \in Outputs}
        \subseteq Asking \cup {NoWindow}

\* State constraint: any MaxWindows of the windows appear.
FewWindows == Cardinality({w \in Windows : status[w] # "new"}) <= MaxWindows

AnyOutput == Permutations(Outputs)
=============================================================================
