CONSTANTS
    Outputs = {o1, o2}
    NoOutput = NoOutput
    Buttons = {left, middle}
    Middle = middle
    MouseHasMiddle = FALSE
    MaxPlugs = 2
SPECIFICATION HandedSpec
SYMMETRY Symmetry
CONSTRAINT OneHand
INVARIANTS ButtonsAreHeld GestureHasHand SteeringIsPinned
PROPERTY ViewportStaysLocked
