SPECIFICATION Spec
CONSTANTS
    Commands <- AllCommands
    BufferSize = 4
    FileLength = 6
    MaxArguments = 5
    Number <- Atoi
    UnsignedMod = 16
    Cap = 3
    Room = 10
    LengthOf <- Lengths
    TooLong = {"long"}
    DistanceTo <- Distances
INVARIANTS
    TypeOK
    WordsAreLines
    OptionsTaken
    PrintsMatches
\* The command ends.
CHECK_DEADLOCK FALSE
