\* One browser with two requests under way, and everything that may go wrong.
SPECIFICATION FairSpec
CONSTANTS
    Browsers = {b1}
    Users = {alice}
    Procs = {p1}
    Requests = {r1, r2}
    Ops = {"session", "logout", "action", "authorize", "callback"}
    Faults = {"reply lost", "token lost", "login expires", "server expires", "restart"}
    MaxGrants = 2
    MaxAttempts = 1
    Readable = TRUE
    None = None
INVARIANTS
    TypeOK
    SingleFlight
PROPERTIES
    EveryRequestAnswered
