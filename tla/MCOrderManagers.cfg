SPECIFICATION Spec
CONSTANTS
    NoId = NoId
    Setups <- AllSetups
    MaxReleases = 1
    MaxFollowups = 1
    MaxConsolidations = 1
    MaxSources = 2
    MaxMoves = 1
    MaxDistance = 1
    Prices = {2, 4}
    MaxFaults = 1
    MaxFeed = 1
INVARIANTS NoDoubleExposure OneLivePlacement LineagePasses ExposureKept
PROPERTY StagedReleased
