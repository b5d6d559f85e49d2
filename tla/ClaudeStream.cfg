\* The answers of up to three parts, streamed and collected.
SPECIFICATION Spec
CONSTANTS
    MaxParts = 3
    MaxLines = 3
    Shapes <- MCShapes
INVARIANTS
    TypeInvariant
    ContentInOrder
    SignaturesKept
    CollectedWhole
    TranslationsAgree
PROPERTIES
    WellFormed
    AnswerEnds
