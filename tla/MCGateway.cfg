SPECIFICATION Spec
CONSTANTS
    NoId = NoId
    Actions = {"a", "b", "s", "r", "x"}
    Cids = {"k", "s", "r", "e"}
    Procs = {"runtime"}
    Runtime = "runtime"
    Commands <- AloneCommands
    ExternalCids = {"e"}
    MaxOpenOrders = 1
    MaxDaily = 3
    AmbiguousFailures = FALSE
    MaxSubmits = 4
    MaxFeed = 3
INVARIANTS SentAtMostOnce IdentityUnique OpenWithinLimit SettledTruth
CHECK_DEADLOCK FALSE
