CONSTANTS
    Events = {"data", "order"}
    AnyEvent = AnyEvent
    NoRule = NoRule
    Rules <- MixedRules
    Tolerance = 0
    MaxLog = 3
    MaxTime = 1
    MaxHookFailures = 1
    OtherProcesses = TRUE
    Faults = TRUE
SPECIFICATION FairSpec
INVARIANTS OneShotOnce ReturnComplete TriggerContract FiringAudited
