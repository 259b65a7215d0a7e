SPECIFICATION Spec
CONSTANTS
    Runs = {r1, r2}
    Keys = {k1, k2}
    Digests = {d1}
    Threads = {t1}
    Files = {log}
    EventsLog = log
    Workers = 1
    MaxCrashes = 1
    Faults = {"stage", "store", "unlink", "read"}
    NoRun = NoRun
    NoKey = NoKey
    NoDigest = NoDigest
SYMMETRY RunSymmetry
INVARIANTS
    AgentInv
    AtMostOneExecution
    ActiveRowsAreOwned
PROPERTIES
    ImplementsDisposableRuns
    ImplementsSandboxNode
CHECK_DEADLOCK FALSE
