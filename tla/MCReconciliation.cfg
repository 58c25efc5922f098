SPECIFICATION RSpec
CONSTANTS
    NoId = NoId
    Actions = {"a", "c"}
    Cids = {"a"}
    Procs = {"runtime"}
    Runtime = "runtime"
    Commands <- OrderAndCancel
    ExternalCids = {}
    MaxOpenOrders = 2
    MaxDaily = 9
    AmbiguousFailures = TRUE
    MaxSubmits = 2
    MaxFeed = 2
    Outage = FALSE
    MaxFaults = 1
INVARIANTS ReconciledOnce NoOpenOrderForgotten SettledUnlessLost
PROPERTIES MissingFlagged MismatchesRecovered
CHECK_DEADLOCK FALSE
