\* Two administrators who block and delete each other and delete themselves.
SPECIFICATION Spec
CONSTANTS
    Users = {alice, bob}
    Requests = {q1, q2}
    Ops = {"me", "block", "delete", "delete_self"}
    NewRoles = {"free"}
    Admins = {alice, bob}
    Paid = {}
    Lagging = {alice, bob}
    AdminEmails = {}
    BareTokens = FALSE
    MaxId = 2
    None = None
SYMMETRY Symmetry
INVARIANTS
    TypeOK
    DraftsAreCurrent
PROPERTIES
    EffectsAudited
    ImplementsAccounts
