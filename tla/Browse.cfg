CONSTANTS
    f1 = f1
    f2 = f2
    f3 = f3
    f4 = f4
    p1 = p1
    p2 = p2
    n1 = n1
    n2 = n2
    clicking = clicking
    tracking = tracking
    Unknown = Unknown
    Anonymous = Anonymous
    NoName = NoName
    Blank = Blank
    Absent = Absent
    NullScore = NullScore
    Files = {f1, f2, f3, f4}
    SteamIDs = {p1, p2}
    Names = {n1, n2}
    Titles = {clicking, tracking, Unknown}
    SteamOf <- MCSteamOf
    NameOf <- MCNameOf
    TitleOf <- MCTitleOf
    ScoreOf <- MCScoreOf
    NamePlace <- MCNamePlace
    RowId <- MCRowId
    Filters <- MCFilters
    FoundTitles = {tracking, Unknown}
    Asked <- MCAsked
    DefaultLimit = 2
    MaxLimit = 3
    Walkers = {w1}
SPECIFICATION BrowseSpec
INVARIANTS
    BrowseTypeOK
    SteadyRowsAreListed
    QuietPagesDoNotOverlap
    PromisedPageIsThere
PROPERTIES
    WalkEnds
