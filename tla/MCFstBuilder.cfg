SPECIFICATION Spec
CONSTANTS
    Labels = {1, 2}
    Words <- WordsUpTo3
    MaxLength = 3
    CountMod = 4
INVARIANTS
    TypeOK
    RegistryIsASet
    ChildrenCanonical
    PathInv
    LabelsSorted
PROPERTIES
    RegisteredFrozen
    ImplementsDictionary
\* build() calls finish() once and then stops.
CHECK_DEADLOCK FALSE
