SPECIFICATION Spec
CONSTANTS
    Lookups <- AllLookups
    MaxLength = 5
    PrefixLength = 4
    SuggestionPrefix = 4
    Hash <- ShortHash
    CountMax = 3
INVARIANTS
    TypeOK
    SuggestionsSound
    FindsAll
    NearestFound
\* A lookup returns.
CHECK_DEADLOCK FALSE
