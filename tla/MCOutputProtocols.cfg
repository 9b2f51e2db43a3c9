SPECIFICATION Spec
CONSTANTS
    Outputs = {o1, o2}
    Powers = {p1, p2}
    NoOutput = NoOutput
    Controls = {g1, g2}
    NoControl = NoControl
    Ramps = {r1, r2}
    Identity = Identity
    Unknown = Unknown
    NoChange = NoChange
    Legacy = {o2}
    Clients = {c1}
    Confs = {k1}
    ClientOf <- MCClientOf
    Settings = {s1, s2}
    Windows = {w1, w2}
    Watchers = {m1}
    Looks = {l1, l2}
    NoWindow = NoWindow
INVARIANTS
    TypeOK
    PowerIsTold
    ControlsOwnOutputs
    GammaAsAsked
    ToldIsCurrent
    OutdatedIsAnswered
    HandlesAreTold
    OneActivated
CONSTRAINTS OneProtocol FewHeads FewWindows
SYMMETRY Symmetry
