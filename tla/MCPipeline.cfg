SPECIFICATION Spec
CONSTANTS
    Procs = {p1, p2}
    Free = Free
    Ids = {1, 2}
    Versions = {1, 2}
    Rejected = {2}
    SplitOf <- Splits
    Files = {1, 2}
    Items = 2
    IndexLimits = {1}
    Starts <- Indexed
    Uses <- Installations
    MaxCommands = 3
    MaxKills = 1
INVARIANTS
    PipelineTypeOK
    VectorsAreCurrent
    AnswersOfOneRevision
    PublishedFiles
PROPERTY
    OnlyAnOverlapGoesBack
SYMMETRY Symmetry
CHECK_DEADLOCK FALSE
