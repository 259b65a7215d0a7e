SPECIFICATION Spec
CONSTANTS
    Streams = {"stdout.txt", "stderr.txt"}
    MaxStream = 1
    MaxWrites = 2
INVARIANTS
    VerdictIsTrue
PROPERTY
    GuestEnds
CHECK_DEADLOCK FALSE
