SPECIFICATION FairSpec
CONSTANTS
    Nodes = {a, b, d}
    Writers = {a, b}
    Dead = {d}
    Names = {f, g}
    Slots = {s1, s2}
    MaxFiles = 3
    MaxWrites = 1
    MayFail = FALSE
    MayCrash = FALSE
    MayRemove = FALSE
    NoncesDiffer = TRUE
    None = None
PROPERTIES
    PushEnds
    Converges
