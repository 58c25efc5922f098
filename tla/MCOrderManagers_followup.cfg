SPECIFICATION Spec
CONSTANTS
    NoId = NoId
    Setups <- FollowupFirst
    MaxReleases = 1
    MaxFollowups = 1
    MaxConsolidations = 1
    MaxSources = 2
    MaxMoves = 1
    MaxDistance = 1
    Prices = {2}
    MaxFaults = 0
    MaxFeed = 1
PROPERTY FillsAnswered
