SPECIFICATION Spec
CONSTANTS
    Runs = {r1}
    Keys = {k1}
    Digests = {d1, d2}
    Threads = {t1, t2}
    Files = {log, out}
    EventsLog = log
    Workers = 1
    MaxCrashes = 1
    Faults = {"stage", "store", "unlink", "read"}
    NoRun = NoRun
    NoKey = NoKey
    NoDigest = NoDigest
SYMMETRY ThreadSymmetry
INVARIANTS
    ArtifactsAfterDestruction
    ReleasedBundlesHaveEvents
    RepliesMatchRequests
    SampleOutlivesOnlyLostRuns
PROPERTIES
    UnconfirmedFinishIsQuarantined
CHECK_DEADLOCK FALSE
