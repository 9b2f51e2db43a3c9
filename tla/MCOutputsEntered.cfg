SPECIFICATION FairSpec
CONSTANTS
    Outputs = {o1}
    Powers = {}
    NoOutput = NoOutput
    Controls = {}
    NoControl = NoControl
    Ramps = {}
    Identity = Identity
    Unknown = Unknown
    NoChange = NoChange
    Legacy = {}
    Clients = {c1}
    Confs = {}
    ClientOf <- MCClientOf
    Settings = {s1}
    Windows = {w1}
    Watchers = {m1}
    Looks = {l1}
    NoWindow = NoWindow
PROPERTIES
    OutputsAreEntered
CONSTRAINTS OneProtocol
