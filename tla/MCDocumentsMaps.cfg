CONSTANTS
    s = s
    t = t
    f = f
    m = m
    a = a
    b = b
    nan = nan
    inf = inf
    Null = Null
    JsonNull = JsonNull
    Missing = Missing
    NoDoc = NoDoc
    Scalars = {}
    FrozenMaps = {}
    Sets = {}
    Maps = {m}
    Atoms = {a, b, nan, inf}
    Unrepresentable = {nan, inf}
    Statements <- MapStatements
    MaxStatements = 3
    PostImages = FALSE
    TicksPerMicro = 2
SPECIFICATION Spec
INVARIANTS MapsFollowRow
