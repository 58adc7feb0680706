CONSTANTS
    traced = traced
    anon = anon
    NoFile = NoFile
    NullKey = NullKey
    Absent = Absent
    Files = {traced, anon}
    WellFormed = {traced, anon}
    SteamFiles = {traced}
    TracedFiles = {traced}
    Prefixes = {"runs", "moved"}
    SettingsRange <- MCSettingsRange
    Requests = {r1, r2}
    Readers = {d1}
    MaxMore = 1
    Faults = {"db", "put", "delete", "cancel", "crash"}
    Overlap = FALSE
SPECIFICATION DownloadSpec
INVARIANTS
    DownloadTypeOK
    StoredFileIsFound
    RecordedRunKeepsObject
    ExclusiveInv
PROPERTIES
    ImplementsRunArchive
