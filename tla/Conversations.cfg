SPECIFICATION Spec
CONSTANTS
    Clients = {"claude", "openai", "codex", "gemini"}
    Routes <- MCRoutes
    Openings <- MCOpenings
    Answers <- MCAnswers
    Replays <- MCReplays
    Thinkers <- MCThinkers
    Versions <- MCVersions
    MaxTurns = 5
    MaxRestarts = 1
INVARIANTS
    TypeInvariant
    SaidInOrder
    ResultsAnswered
    LoopsResume
CHECK_DEADLOCK FALSE
