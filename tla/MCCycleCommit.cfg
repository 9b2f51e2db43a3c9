\* Alt-Tab over windows of which one closes meanwhile.
CONSTANTS
    w1 = w1
    d = d
    g = g
    o1 = o1
    o2 = o2
    NoWindow = NoWindow
    Other = Other
    Windows = {w1, d, g}
    X11 = {}
    Widgets = {}
    Parent <- MCParent
    Outputs = {o1, o2}
    Asking = {w1}
    MaxWindows = 3
SPECIFICATION Spec
CONSTRAINTS
    OnlyAsking
    FewWindows
PROPERTY
    CycleCommitsShown
