SPECIFICATION Spec
CONSTANTS
    None = None
    MaxFileName = 2
    MaxMousePoints = 3
    Half = 4
    MaxSpelled = 2
    Files <- MCFiles
    Strays <- MCStrays
    Trim <- MCTrim
    Garbled <- MCGarbled
INVARIANTS ParserTypeOK SectionsInStep AcceptedAsWritten VerdictIsDue
