SPECIFICATION Spec
CONSTANTS
    Requests = {"r1", "r2", "r3"}
    p1 = p1
    p2 = p2
    claude = claude
    openai = openai
    global = global
    tuned = tuned
    Type <- MCSharedType
    Project <- MCSharedProject
    Providers = {p1, p2}
    ClientTypes = {claude, openai}
    AllTypes = all
    Global = global
    Routes <- MCSharedRoutes
    Route <- MCSharedRoute
    Strategies <- MCSharedStrategies
    Deployed = {p1}
    Timed = {}
    Outcomes <- MCSharedOutcomes
    MaxCrashes = 0
    MaxDbErrors = 0
INVARIANTS CoolingIsEarned
CHECK_DEADLOCK FALSE
