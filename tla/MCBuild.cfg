SPECIFICATION BuildSpec
CONSTANTS
    Inputs <- Lists
    Words <- Dictionary7
    MaxWords = 4
    Labels = {0, 1, 2}
    MaxLength = 3
    Threshold = 2
    CountMod = 4
    Escape = 2
INVARIANTS
    Settled
    ChildrenFirst
    IndexedOrRefused
    NodesAreLanguages
PROPERTIES
    BuildReturns
\* A build is over when it has returned.
CHECK_DEADLOCK FALSE
