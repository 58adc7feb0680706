CONSTANTS
    traced = traced
    anon = anon
    NoFile = NoFile
    NullKey = NullKey
    Absent = Absent
    r1 = r1
    r2 = r2
    Files = {traced, anon}
    WellFormed = {traced, anon}
    SteamFiles = {traced}
    TracedFiles = {traced}
    Prefixes = {"runs"}
    SettingsRange <- MCSettingsRange
    Requests = {r1, r2}
    Mine = r1
    Wanted = {traced, anon}
    MaxHashes = 2
    MaxMore = 1
    MaxFaults = 2
    Faults = {"db", "commit", "put", "delete", "cancel", "crash"}
    Overlap = TRUE
SPECIFICATION ClientSpec
INVARIANTS
    OrphansAreExplained
PROPERTIES
    EveryRunArrives
    SwitchOffDrains
