CONSTANTS
    Procs = {p1, p2}
    NoProc = NoProc
    Payloads = {a, b}
    MaxRecords = 3
SPECIFICATION FairSpec
INVARIANTS LockOwnership ChainIntact AckedDurable
PROPERTIES TornStopsAppends RefinesLog OperationsEnd
