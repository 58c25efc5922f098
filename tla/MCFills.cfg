SPECIFICATION FSpec
CONSTANTS
    Procs = {"runtime", "smoke"}
    Runtime = "runtime"
    Orders <- MCOrders
    Products = {"p", "q"}
    Venues <- MCVenues
    VenueOf <- MCVenueOf
    Tolerance = 0
    Limit = 1
    MaxPages = 2
    AccountPages = 2
    MaxAttempts = 2
    MaxTrades = 3
    MaxForeign = 1
    ForeignMoves <- MCForeignMoves
    MaxTrouble = 1
    MaxPasses = 2
INVARIANTS FillsExact DriftsTold
CHECK_DEADLOCK FALSE
