CONSTANTS
    s = s
    t = t
    f = f
    m = m
    a = a
    b = b
    nan = nan
    inf = inf
    Null = Null
    JsonNull = JsonNull
    Missing = Missing
    NoDoc = NoDoc
    Scalars = {s}
    FrozenMaps = {f}
    Sets = {t}
    Maps = {}
    Atoms = {a, b, nan, inf}
    Unrepresentable = {nan, inf}
    Statements <- RowStatements
    MaxStatements = 3
    PostImages = TRUE
    TicksPerMicro = 2
SPECIFICATION Spec
INVARIANTS TypeOK DocumentFollowsRow PostImageRestores
