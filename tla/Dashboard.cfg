\* One fault, one run of the smoke test.
SPECIFICATION FairSpec
CONSTANTS
    Standings = {"free", "admin", "blocked"}
    AdminQueries = {"adminUsersCount"}
    Runs = {1}
    MaxFaults = 1
    Readable = FALSE
    None = None
INVARIANTS
    TypeOK
    NoOrphan
    PassedMeansDone
PROPERTIES
    EveryRunEnds
    CardsAppear
