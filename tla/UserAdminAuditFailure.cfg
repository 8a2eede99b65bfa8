\* One request at a time.
SPECIFICATION Spec
CONSTANTS
    Users = {alice, bob}
    Requests = {q1}
    Ops = {"me", "role", "block"}
    NewRoles = {"paid"}
    Admins = {alice}
    Paid = {}
    Lagging = {}
    AdminEmails = {}
    BareTokens = FALSE
    MaxId = 1
    None = None
INVARIANT
    AuditNeverBlocks
