CONSTANTS
    Outputs = {o1, o2}
    Windows = {w1, x1}
    XWindows = {x1}
    Copies = {c1}
    Sessions = {s1}
    Frames = {f1, f2, f3}
    NoSource = NoSource
    NoFrame = NoFrame
    NoSession = NoSession
SPECIFICATION FairSpec
INVARIANTS QueueIsThere WaitingIsWanted
PROPERTIES KeepsContract CapturesSettle
CHECK_DEADLOCK FALSE
CONSTRAINT OneProtocol
