\* Two browsers and one server process.
SPECIFICATION Spec
CONSTANTS
    Browsers = {b1, b2}
    Users = {alice, bob}
    Procs = {p1}
    Requests = {r1, r2}
    Ops = {"session", "authorize", "callback"}
    Faults = {}
    MaxGrants = 2
    MaxAttempts = 2
    Readable = TRUE
    None = None
INVARIANT WaitersShareUser
