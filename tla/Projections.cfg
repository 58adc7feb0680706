CONSTANTS
    ann = ann
    bob = bob
    cid = cid
    TableStates <- MCTableStates
    MaxPublishes = 2
    Names <- MCNames
    Queries = {"", "vt"}
    Folded <- MCFolded
    Players = {ann, bob, cid}
    Requests <- MCRequests
    DefaultLimit = 1
    MaxLimit = 2
SPECIFICATION Spec
INVARIANTS
    ProjectionsTypeOK
    QuietListIsExact
    LinksAreNeverLost
    RefreshedAtIsNotAhead
    QuietWalkIsTheBoard
PROPERTIES
    UnchangedIsNotModified
    WalkEnds
