CONSTANTS
    traced = traced
    anon = anon
    junk = junk
    NoFile = NoFile
    NullKey = NullKey
    Absent = Absent
    Files = {traced, anon, junk}
    WellFormed = {traced, anon}
    SteamFiles = {traced}
    TracedFiles = {traced}
    Prefixes = {"runs", "moved"}
    SettingsRange <- MCSettingsRange
    Requests = {r1, r2}
    MaxMore = 1
    Faults = {"db", "commit", "put", "delete", "cancel", "crash"}
    Overlap = TRUE
SYMMETRY RequestSymmetry
SPECIFICATION Spec
INVARIANTS
    TypeOK
    AnswerIsTruthful
    PolicyIsKept
