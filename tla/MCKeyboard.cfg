CONSTANTS
    Outputs = {o1, o2}
    NoOutput = NoOutput
    Modifiers = {alt}
    Letters = {a, b}
    CycleModifier = alt
    Actions <- MCActions
    NoKey = NoKey
SPECIFICATION Spec
INVARIANTS KeysAreHeld KeysAreAccounted
