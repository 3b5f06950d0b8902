SPECIFICATION Spec
CONSTANTS
    c1 = c1
    c2 = c2
    p1 = p1
    p2 = p2
    Clients = {c1, c2}
    People = {p1, p2}
    PersonOf <- OneEach
    Users = {u, v}
    Emails = {e, f}
    Nodes = {n}
    PeerTtl = 1
    SessionTtl = 2
    AutoApprove = FALSE
    Hasty = {c1}
    MayRestart = FALSE
    MaxTime = 2
    MaxTokens = 4
    None = None
SYMMETRY Alike
INVARIANTS
    TypeOK
    EmailsDiffer
    SessionOwners
    OwnersOnly
PROPERTIES
    SessionsKept
    OnlyHangUpStrands
    ImplementsPhoneBook
CHECK_DEADLOCK FALSE
