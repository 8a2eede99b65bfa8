\* Requests that wait for each other's rows, with tokens that carry no claims.
SPECIFICATION FairSpec
CONSTANTS
    Users = {alice, bob}
    Requests = {q1, q2}
    Ops = {"me", "reset", "block", "unblock"}
    NewRoles = {"free"}
    Admins = {alice}
    Paid = {}
    Lagging = {alice, bob}
    AdminEmails = {bob}
    BareTokens = TRUE
    MaxId = 1
    None = None
PROPERTIES
    EveryRequestEnds
    EffectsAudited
