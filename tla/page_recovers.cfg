SPECIFICATION BenchSpec
CONSTANTS
    EPISODE_ATTEMPTS = 3
    MAX_CLIENTS = 4
INVARIANTS
    ClaimsAreTrue
    BenchInv
PROPERTIES
    LiveUntilFault
    BudgetKept
    AllEnds
    EpisodesEnd
