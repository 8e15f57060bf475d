SPECIFICATION Spec
CONSTANTS
    Metrics = {"Levenshtein", "DamerauLevenshtein"}
    Labels = {0, 1, 2}
    QueryLength = 3
    MaxLength = 4
    Width = 3
    Queries <- ShortQueries
    Texts <- AllTexts
    MaxDistances = {0, 1, 2, 5, 7}
    ByteMax = 4
    WordSize = 8
    Distance <- ReferenceDistance
INVARIANTS
    ExpansionSound
    DistancesExact
    PruningIsExact
    BitColumnsExact
PROPERTIES
    InitEnds
\* init returns.
CHECK_DEADLOCK FALSE
