CONSTANTS
    i1 = i1
    p1 = p1
    c1 = c1
    c2 = c2
    Scalar = Scalar
    None = None
    NoDoc = NoDoc
    NoListing = NoListing
    Ids = {i1}
    PartitionKeys = {i1, p1}
    Cells = {c1, c2}
    Operations <- DocOps
    MaxBatch = 1
    ListPartitions = {}
    MaxNow = 0
    I64Max = 8
    MicrosPerSec = 1
    GenerationMod = 3
SPECIFICATION Spec
PROPERTIES DeletedCellsStayDeleted
