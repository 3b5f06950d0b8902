SPECIFICATION FairSpec
CONSTANTS
    Nodes = {a, b}
    Writers = {a}
    Dead = {}
    Names = {f}
    Slots = {s1, s2}
    MaxFiles = 3
    MaxWrites = 1
    MayFail = FALSE
    MayCrash = FALSE
    MayRemove = FALSE
    NoncesDiffer = TRUE
    None = None
PROPERTY EventuallyQuiet
