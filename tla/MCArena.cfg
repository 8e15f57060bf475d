SPECIFICATION Spec
CONSTANTS
    Arenas = {a, b}
    BlockSize = 4
    Sizes = {1, 3}
    Aligns = {1, 4}
    Remainders = {0, 2}
    MaxBlocks = 2
INVARIANTS
    BlocksHaveOneOwner
    AllocationsSound
SYMMETRY Symmetric
\* After MaxBlocks calls of malloc nothing may be left to do.
CHECK_DEADLOCK FALSE
