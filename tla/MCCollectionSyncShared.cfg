SPECIFICATION Spec
CONSTANTS
    Procs = {p1, p2}
    Sources = {"nvd", "cve", "avd"}
    Ids = {1}
    MaxTime = 5
    Overlap = 1
    Lookback = 1
    Span = 2
    PageSize = 1
    BatchSize = 1
    NoLimit = 9
    Sinces <- SomeSince
    Untils <- SomeUntil
    Limits = {1, 9}
    Retries = 2
    Malformed = {}
    Uses <- SharedInstallation
    MaxKills = 0
PROPERTIES
    NeverGoBack
CHECK_DEADLOCK FALSE
