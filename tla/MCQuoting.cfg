SPECIFICATION Spec
CHECK_DEADLOCK FALSE
CONSTANTS
    Prices <- MCPrices
    MaxSamples = 2
    MaxDepth = 1
    MaxTrades = 2
    Setups <- MCSetups
    Lookback = 2
    Interval = 1
    Retain = 2
    MinSamples = 1
INVARIANTS
    BookTrue
    WindowsAgree
    PlansKept
    WithinBothPolicies
    OneQuotePerSide
