SPECIFICATION Spec
CONSTANTS
    Nodes = {a, b}
    Writers = {a, b}
    Dead = {}
    Names = {f, g}
    Slots = {s1, s2}
    MaxFiles = 2
    MaxWrites = 2
    MayFail = TRUE
    MayCrash = TRUE
    MayRemove = TRUE
    NoncesDiffer = TRUE
    None = None
SYMMETRY Alike
INVARIANTS
    TypeOK
    WantedServed
PROPERTIES
    NothingReappears
    ImplementsSharedFolder
