SPECIFICATION Spec
CONSTANTS
    Pairs <- Swapped
    MaxParts = 2
INVARIANT
    TextKept
