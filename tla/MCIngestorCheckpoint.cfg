CONSTANTS
    k1 = k1
    k2 = k2
    n1 = n1
    n2 = n2
    p1 = p1
    p2 = p2
    a = a
    b = b
    Ticker = Ticker
    Main = Main
    NoStart = NoStart
    NoNode = NoNode
    Consumers = {k1}
    Nodes = {n1}
    Partitions = {p1}
    Ids = {a, b}
    PartitionOf <- OnePartition
    NodeOf <- OneNode
    Streams <- OneStream
    BatchLimit = 2
    MaxAttempts = 2
    FlushRetries = 2
    PartialReplies = FALSE
SPECIFICATION Spec
INVARIANTS CheckpointedNotLost
