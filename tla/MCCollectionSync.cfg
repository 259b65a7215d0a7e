SPECIFICATION Spec
CONSTANTS
    Procs = {p1}
    Sources = {"nvd", "cve", "avd"}
    Ids = {1, 2}
    MaxTime = 5
    Overlap = 1
    Lookback = 1
    Span = 2
    PageSize = 1
    BatchSize = 1
    NoLimit = 9
    Sinces <- SomeSince
    Untils <- SomeUntil
    Limits = {1, 9}
    Retries = 2
    Malformed = {1}
    Uses <- Installations
    MaxKills = 1
INVARIANTS
    CollectionTypeOK
    WatermarkCovers
    DeltaCovers
    BaselineIsWhole
PROPERTIES
    NeverGoBack
    CommandsEnd
CHECK_DEADLOCK FALSE
