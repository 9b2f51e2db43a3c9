\* Two connectors: both are powered, o1 is configured and its clear may fail.
CONSTANTS
    o1 = o1
    o2 = o2
    NoOutput = NoOutput
    Outputs = {o1, o2}
    Configured = {o1}
    MaxRetries = 2
    StuckOn = {o1}
SPECIFICATION ConfiguredSpec
INVARIANTS
    TypeOK
    FramesPendingIsFlips
    OneWaitPerCrtc
    BlankedIsIdle
    RoutingIsMapped
PROPERTIES
    ModesetWaitsForFlip
    DirtyOutputsArePainted
