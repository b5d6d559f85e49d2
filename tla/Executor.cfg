SPECIFICATION FairSpec
CONSTANTS
    Requests = {r1}
    p1 = p1
    p2 = p2
    claude = claude
    openai = openai
    global = global
    tuned = tuned
    Type <- MCType
    Project <- MCProject
    Providers = {p1, p2}
    ClientTypes = {claude}
    AllTypes = all
    Global = global
    Routes <- MCRoutes
    Route <- MCRoute
    Strategies <- MCStrategies
    Deployed = {p1, p2}
    Timed = {p1}
    Outcomes <- MCOutcomes
    MaxCrashes = 1
    MaxDbErrors = 1
INVARIANTS TypeOK AuditSettled NoRouteGivenUpEarly
PROPERTIES RequestsSettle ImplementsLifecycle
CHECK_DEADLOCK FALSE
