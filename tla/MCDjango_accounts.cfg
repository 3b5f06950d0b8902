SPECIFICATION FairSpec
CONSTANTS
    c1 = c1
    c2 = c2
    p1 = p1
    p2 = p2
    Clients = {c1, c2}
    People = {p1, p2}
    PersonOf <- OneEach
    Users = {u, v}
    Emails = {e, f}
    Nodes = {n}
    PeerTtl = 0
    SessionTtl = 1
    AutoApprove = FALSE
    MayRestart = TRUE
    MaxTime = 1
    None = None
INVARIANTS
    TypeOK
    EmailsDiffer
    SessionOwners
    OwnersOnly
PROPERTIES
    BlockHolds
    BlockedForgotten
    ImplementsPhoneBook
