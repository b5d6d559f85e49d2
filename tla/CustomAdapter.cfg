SPECIFICATION Spec
CONSTANTS
    Pairs <- Straight
    MaxParts = 3
INVARIANTS
    TypeInvariant
    TextKept
    OpenBlocksOnly
    EndsOnce
    SameAsWhole
    ReasonMatchesCalls
    OutcomeFits
PROPERTY
    LeavingEnds
