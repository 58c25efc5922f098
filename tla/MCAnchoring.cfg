CONSTANTS
    Procs = {"runtime", "operator"}
    Todos <- MCTodos
    Mode = "governance"
    MaxOther = 1
    MaxTrouble = 1
    MaxDamage = 1
SPECIFICATION Spec
INVARIANTS ReceiptsStand Attested
CHECK_DEADLOCK FALSE
