CONSTANTS
    r1 = r1
    r2 = r2
    r3 = r3
    Requests = {r1, r2, r3}
    MaxConns = 2
SPECIFICATION Spec
CHECK_DEADLOCK FALSE
INVARIANTS
    ServerTypeOK
    TiersAsDocumented
    CleanExitCutsNothing
    NoStatementIsCut
PROPERTIES
    ShutdownEnds
