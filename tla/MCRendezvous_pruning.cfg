SPECIFICATION FairSpec
CONSTANTS
    c1 = c1
    c2 = c2
    p1 = p1
    p2 = p2
    Clients = {c1, c2}
    People = {p1, p2}
    PersonOf <- BothOfOne
    Users = {u}
    Emails = {e}
    Nodes = {n}
    PeerTtl = 1
    SessionTtl = 2
    AutoApprove = TRUE
    Hasty = {c1, c2}
    MayRestart = TRUE
    MaxTime = 3
    MaxTokens = 2
    None = None
PROPERTIES
    ExpiredForgotten
    ImplementsPhoneBook
