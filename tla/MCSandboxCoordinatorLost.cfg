SPECIFICATION Spec
CONSTANTS
    Runs = {r1}
    Keys = {k1}
    Clients = {c1}
    MaxCommands = 1
    NoRun = NoRun
    NoKey = NoKey
INVARIANTS
    AlwaysRequestsDestruction
CHECK_DEADLOCK FALSE
