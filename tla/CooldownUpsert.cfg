SPECIFICATION Spec
CONSTANTS
    Providers = {p1}
    ClientTypes = {claude}
    AllTypes = all
    Reasons <- MCReasons
    Policies <- MCPolicies
    Minute = 2
    Retention = 0
    TicksPerSecond = 2
    ExplicitTimes <- MCExplicitTimes
    SetDurations <- MCSetDurations
    MaxTime = 3
    MaxFailures = 2
    Unknown = "unknown"
    CountedReasons <- MCCountedReasons
    ToldReasons <- MCToldReasons
    DriverKeepsText = TRUE
    MaxDbErrors = 0
INVARIANTS RowHoldsDeadline
