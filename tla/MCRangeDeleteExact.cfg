CONSTANTS
    u = u
    w = w
    NoParse = NoParse
    Types <- MCTypes
    NumberTypes = {"int", "smallint"}
    Values <- MCValues
    ValuesOf <- MCValuesOf
    Rank <- MCRank
    Strings <- MCStrings
    KeyString <- MCKeyString
    Lex <- MCLex
    Pieces <- MCPieces
    Parsed <- MCParsed
    PartitionKeys <- MCPartitionKeys
    PkColumnCount = 1
    CkColumnCount = 2
SPECIFICATION Spec
INVARIANTS RowsStayIndexed SimpleRangesExact
