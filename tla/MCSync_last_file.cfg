SPECIFICATION FairSpec
CONSTANTS
    Nodes = {a, b}
    Writers = {a}
    Dead = {}
    Names = {f, g}
    Slots = {s1, s2}
    MaxFiles = 2
    MaxWrites = 1
    MayFail = FALSE
    MayCrash = FALSE
    MayRemove = FALSE
    NoncesDiffer = TRUE
    None = None
PROPERTY Converges
CHECK_DEADLOCK FALSE
