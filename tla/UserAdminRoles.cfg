\* An administrator who assigns roles, one account that is a free user.
SPECIFICATION Spec
CONSTANTS
    Users = {alice, bob}
    Requests = {q1, q2}
    Ops = {"role", "delete"}
    NewRoles = {"paid"}
    Admins = {alice}
    Paid = {}
    Lagging = {}
    AdminEmails = {}
    BareTokens = FALSE
    MaxId = 2
    None = None
SYMMETRY RequestSymmetry
INVARIANTS
    RoleGranted
PROPERTIES
    ImplementsAccounts
