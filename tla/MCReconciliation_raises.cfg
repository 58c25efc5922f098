SPECIFICATION RSpec
CONSTANTS
    NoId = NoId
    Actions = {"a", "b"}
    Cids = {"a", "b"}
    Procs = {"runtime"}
    Runtime = "runtime"
    Commands <- TwoOrders
    ExternalCids = {}
    MaxOpenOrders = 2
    MaxDaily = 9
    AmbiguousFailures = FALSE
    MaxSubmits = 2
    MaxFeed = 2
    Outage = TRUE
    MaxFaults = 1
PROPERTY MismatchesRecovered
CHECK_DEADLOCK FALSE
