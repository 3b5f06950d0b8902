SPECIFICATION Spec
CONSTANTS
    Nodes = {a, b}
    Writers = {a}
    Dead = {}
    Names = {f}
    Slots = {s1, s2}
    MaxFiles = 3
    MaxWrites = 2
    MayFail = FALSE
    MayCrash = FALSE
    MayRemove = FALSE
    NoncesDiffer = TRUE
    None = None
PROPERTY LastWriteWins
