SPECIFICATION Spec
CONSTANTS
    Start <- AutoStart
    Advance <- AutoAdvance
    MayMatch <- AutoMayMatch
    DistOf <- AutoDistOf
    Distance <- ReferenceDistance
    MaxQuery = 4
    Searches <- ManySearches
    MaxDepth = 3
    Labels = {1, 2}
    MaxLength = 4
    Width = 4
INVARIANTS
    IteratorSound
    FoundAreMatches
    NoneLost
PROPERTIES
    SearchEnds
\* A search returns.
CHECK_DEADLOCK FALSE
