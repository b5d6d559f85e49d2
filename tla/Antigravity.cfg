SPECIFICATION Spec
CONSTANTS
    c1 = c1
    c2 = c2
    Calls <- TwoCalls
    MaxTokens = 2
INVARIANTS
    TypeInvariant
    RefusedTokenNotSent
    OutcomeOfLast
PROPERTY
    CallsReturn
