CONSTANTS
    p1 = p1
    p2 = p2
    p3 = p3
    red = red
    blue = blue
    title = title
    body = body
    wire = wire
    wired = wired
    wireless = wireless
    NoField = NoField
    Fields = {title, body}
    Words = {wire, wired, wireless}
    Starting <- Completions
    Near <- OneEdit
    TextOf <- Texts
    Nothing = Nothing
    Failed = Failed
    Panicked = Panicked
    NodeCount = 2
    Docs = {1, 2, 3, 4}
    Scores = {1, 2}
    Partitions = {p1, p2, p3}
    PartitionOf <- FourDocs
    NodeOf <- TwoNodes
    FacetValues = {red, blue}
    FacetOf <- Colours
    Requests <- Searches
    GroupCap = 2
    U32 = 8
SPECIFICATION FairSpec
INVARIANTS TypeOK PageExact GroupedHitsWin TotalExact FacetsWhole
PROPERTIES AnsweredIfNodesEnd
