SPECIFICATION Spec
CONSTANTS
    d1 = d1
    d2 = d2
    right = right
    his = his
    her = her
    him = him
    Devices = {d1, d2}
    Creds = {right, his}
    Users = {her, him}
    UserOf <- CredsUser
    Typed <- HisOnOne
    Good = {right, his}
    Frail = {d1}
    MaxTokens = 2
    None = None
INVARIANTS
    TypeOK
    IdentityWhole
    LoggedIn
PROPERTIES
    IdentityKept
