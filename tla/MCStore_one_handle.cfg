SPECIFICATION Spec
CONSTANTS
    c1 = c1
    c2 = c2
    h1 = h1
    Callers = {c1, c2}
    Handles = {h1}
    HandleOf <- SharedHandle
    Cleaners = {k1}
    Names = {n1, n2, n3}
    TempNames = {t1, t2}
    Sizes = {1, 2}
    MaxFiles = 2
    MaxFileBytes = 1
    SourceMayChange = FALSE
    TicksDiffer = TRUE
    None = None
INVARIANTS
    TypeOK
    TempsOwned
    CountBounded
PROPERTIES
    ImplementsAtomicStore
