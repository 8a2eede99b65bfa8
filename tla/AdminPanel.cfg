\* Two users on two pages, two changes.
SPECIFICATION Spec
CONSTANTS
    Count = 2
    PageSize = 1
    Roles = {free, paid}
    Searches = {{}, {1, 2}}
    MaxEdits = 2
    None = None
SYMMETRY Symmetry
INVARIANTS
    TypeOK
    SettledIsDatabase
    NeverLeftStale
