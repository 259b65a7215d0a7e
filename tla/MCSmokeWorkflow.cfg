SPECIFICATION SmokeFairSpec
CONSTANTS
    Runs = {r1, r2}
    Keys = {k1, k2}
    Clients = {c1}
    Canary = c1
    FirstKey = k1
    SecondKey = k2
    MaxCommands = 2
    NoRun = NoRun
    NoKey = NoKey
INVARIANTS
    PassedMeansBothRan
    ConfirmationIsOfLastRun
PROPERTIES
    SmokeReports
CHECK_DEADLOCK FALSE
