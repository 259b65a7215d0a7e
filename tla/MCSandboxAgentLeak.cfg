SPECIFICATION Spec
CONSTANTS
    Runs = {r1}
    Keys = {k1}
    Digests = {d1}
    Threads = {t1}
    Files = {log}
    EventsLog = log
    Workers = 1
    MaxCrashes = 2
    Faults = {}
    NoRun = NoRun
    NoKey = NoKey
    NoDigest = NoDigest
INVARIANTS
    LeakedVMQuarantinesNode
CHECK_DEADLOCK FALSE
