\* A repeated power request, with one connector.
CONSTANTS
    o1 = o1
    NoOutput = NoOutput
    Outputs = {o1}
    Configured = {o1}
    MaxRetries = 3
    StuckOn = {}
SPECIFICATION Spec
INVARIANTS
    PowerRequestHonoured
