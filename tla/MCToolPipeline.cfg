CONSTANTS
    Word <- MCWord
    Documents <- MCDocuments
    Prefix <- MCPrefix
    MaxLength = 3
    Resolutions = {"error", "first_wins", "skip", "keep_both"}
    None = None
SPECIFICATION Spec
INVARIANTS
    RoutesUnambiguous
    ArgumentsReach
PROPERTY NamesStable
