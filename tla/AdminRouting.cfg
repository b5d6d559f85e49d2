SPECIFICATION Spec
CONSTANTS
    claude = claude
    openai = openai
    ClientTypes <- Clients
    TypeSets <- OneOrBoth
    Projects <- GlobalAndOne
    MaxRows = 5
    MaxOps = 2
    MaxFaults = 1
INVARIANTS
    TypeInvariant
    SameAfterRestart
    RoutesFollowProviders
    MatchedFits
