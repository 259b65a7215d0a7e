SPECIFICATION Spec
CONSTANTS
    Vulns = {1, 2, 3}
    ChunksOf <- ChunkHashes
    TooLong = {3}
    SplitOf <- Even
    MaxRules = 2
    MaxNodes = 3
    MaxComponents = 3
    MaxSources = 3
    MaxArtifacts = 2
    MaxText = 7
INVARIANTS
    RangesDecide
    ThreeValuesAreSound
    CollapseIsReported
    RevisionIgnoresOrder
    NothingLeaks
    ChunksCover
CHECK_DEADLOCK FALSE
