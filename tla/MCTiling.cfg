\* A plain window, a dialog and an X11 window in two workspaces.
CONSTANTS
    a = a
    d = d
    x = x
    v1 = v1
    v2 = v2
    Anywhere = Anywhere
    NoWorkspace = NoWorkspace
    Windows = {a, d, x}
    X11 = {x}
    Fixed = {}
    Dialogs = {d}
    Workspaces = {v1, v2}
    Zone <- MCZone
    Gap = 1
    MinTile = 1
SPECIFICATION Spec
CONSTRAINT OneOdd
INVARIANTS
    TypeOK
    OneWorkspace
    TilesArePacked
PROPERTY LeavingRefills
CHECK_DEADLOCK FALSE
