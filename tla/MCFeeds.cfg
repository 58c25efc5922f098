SPECIFICATION Spec
CONSTANTS
    Sources = {"a", "b"}
    MinLive = 1
    MaxSeen = 2
    MaxSeq <- ThreeAndOne
    MaxFaults = 1
    MaxStops = 1
INVARIANTS AcceptedOnce FeedsAlternate
PROPERTIES DuplicatesExplained OutageNoticed
