\* One action to filter by and one text to search for.
SPECIFICATION FairSpec
CONSTANTS
    Actions = {"block_user"}
    Texts = {"alice"}
    PageSize = 1
    Entries <- MCEntries
    MaxLog = 2
    MaxQueries = 3
    None = None
INVARIANTS
    TypeOK
    NeverPastTheEnd
    TotalCoversRows
PROPERTIES
    SearchApplied
    FirstPageSettles
