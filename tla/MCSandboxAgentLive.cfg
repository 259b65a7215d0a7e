SPECIFICATION FairSpec
CONSTANTS
    Runs = {r1}
    Keys = {k1}
    Digests = {d1}
    Threads = {t1}
    Files = {log}
    EventsLog = log
    Workers = 1
    MaxCrashes = 2
    Faults = {"stage", "store", "unlink", "read", "record"}
    NoRun = NoRun
    NoKey = NoKey
    NoDigest = NoDigest
PROPERTIES
    RunsSettle
    RestartSettles
CHECK_DEADLOCK FALSE
