CONSTANTS
    f1 = f1
    f2 = f2
    f3 = f3
    f4 = f4
    p1 = p1
    n1 = n1
    n2 = n2
    smoothness = smoothness
    Unknown = Unknown
    Anonymous = Anonymous
    NoName = NoName
    Blank = Blank
    Absent = Absent
    NoFile = NoFile
    Files = {f1, f2, f3, f4}
    SteamIDs = {p1}
    Names = {n1, n2}
    Titles = {Unknown, smoothness}
    SteamOf <- MCSteamOf
    NameOf <- MCNameOf
    TitleOf <- MCTitleOf
    Callers = {r1, r2, r3}
    MaxConns = 2
SYMMETRY CallerSymmetry
SPECIFICATION Spec
INVARIANTS
    TypeOK
    CountMatchesRuns
    PlayersHaveRuns
    StagedIsCurrent
PROPERTIES
    ResultIsTruthful
    NameIsKept
    ImplementsRunTable
