\* Two browsers, one server process, two logins and one refresh.
SPECIFICATION Spec
CONSTANTS
    Browsers = {b1, b2}
    Users = {alice, bob}
    Procs = {p1}
    Requests = {r1, r2}
    Ops = {"session", "authorize", "callback"}
    Faults = {}
    MaxGrants = 3
    MaxAttempts = 2
    Readable = TRUE
    None = None
SYMMETRY Symmetry
INVARIANTS
    JarIsOwn
