\* Any three of a plain window, its dialog, a widget and an X11 window; two outputs.
CONSTANTS
    w1 = w1
    d = d
    g = g
    x = x
    o1 = o1
    o2 = o2
    NoWindow = NoWindow
    Other = Other
    Windows = {w1, d, g, x}
    X11 = {x}
    Widgets = {g}
    Parent <- MCParent
    Outputs = {o1, o2}
    Asking = {w1, x}
    MaxWindows = 3
SPECIFICATION Spec
CONSTRAINTS
    OnlyAsking
    FewWindows
SYMMETRY AnyOutput
INVARIANTS
    TypeOK
    HistoryIsMapped
    FocusIsMapped
    DeferredHasCommit
PROPERTIES
    HistoryFrozen
    CycleStaysInRange
