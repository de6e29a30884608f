CONSTANTS
    i1 = i1
    p1 = p1
    c1 = c1
    c2 = c2
    Scalar = Scalar
    None = None
    NoDoc = NoDoc
    NoListing = NoListing
    Ids = {i1}
    PartitionKeys = {i1, p1}
    Cells = {c1, c2}
    Operations <- DocOps
    MaxBatch = 1
    ListPartitions = {p1}
    MaxNow = 2
    I64Max = 8
    MicrosPerSec = 1
    GenerationMod = 2
SPECIFICATION FairSpec
INVARIANTS TypeOK CacheCoversUncommitted CacheMirrorsIndex ListingComplete
PROPERTIES OlderIgnoredWhenCaughtUp UpsertKeepsOtherCells ImplementsStore
           VisibleOnceQuiet PrunedOnceQuiet
