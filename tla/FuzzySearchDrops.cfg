SPECIFICATION Spec
CONSTANTS
    Start <- AutoStart
    Advance <- AutoAdvance
    MayMatch <- AutoMayMatch
    DistOf <- AutoDistOf
    Distance <- ReferenceDistance
    MaxQuery = 4
    Searches <- ScaledSearches
    MaxDepth = 3
    Labels = {1, 2}
    MaxLength = 4
    Width = 4
INVARIANT FindsAll
\* A search returns.
CHECK_DEADLOCK FALSE
