SPECIFICATION Spec
CONSTANTS
    Labels = {1, 2}
    Words <- WordsUpTo1
    MaxLength = 1
    CountMod = 2
PROPERTIES
    KeepsItsWords
CHECK_DEADLOCK FALSE
