SPECIFICATION Spec
CONSTANTS
    Requests = {r1}
    p1 = p1
    p2 = p2
    claude = claude
    openai = openai
    global = global
    tuned = tuned
    Type <- MCType
    Project <- MCProject
    Providers = {p1, p2}
    ClientTypes = {claude}
    AllTypes = all
    Global = global
    Routes <- MCRoutes
    Route <- MCRoute
    Strategies <- MCStrategies
    Deployed = {p1, p2}
    Timed = {p1}
    Outcomes <- MCWriting
    MaxCrashes = 0
    MaxDbErrors = 0
INVARIANTS WrittenIsNotRetried
CHECK_DEADLOCK FALSE
