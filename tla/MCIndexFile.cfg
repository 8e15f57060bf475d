SPECIFICATION Spec
CONSTANTS
    Readers = {a, b}
    Sizes <- Rebuilds
    MaxMemory = 3
INVARIANTS
    MemoryOwned
    UndisturbedWhole
PROPERTIES
    TornRefused
SYMMETRY Symmetric
