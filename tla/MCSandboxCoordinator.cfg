SPECIFICATION Spec
CONSTANTS
    Runs = {r1, r2}
    Keys = {k1, k2}
    Clients = {c1, c2}
    MaxCommands = 1
    NoRun = NoRun
    NoKey = NoKey
SYMMETRY Symmetry
INVARIANTS
    CInv
    PublishedOwnExecution
    OneExecutionPerSample
    PublishedAfterDestruction
    ReportsAgree
PROPERTIES
    ImplementsDisposableRuns
CHECK_DEADLOCK FALSE
