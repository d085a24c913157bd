\* One command at a time (a killed one may leave its ORAS child), no other
\* writer, one reader.
SPECIFICATION FairServiceSpec
CONSTANTS
    Files <- MCFiles
    Dirs <- MCDirs
    Contents <- MCContents
    Size <- MCSize
    MaxBytes = 2
    Clis = {c1}
    Ops <- SingleOps
    InitialTags <- SingleTags
    Pushes <- NoPushes
    None = None
    MaxStarts = 2
    MaxForeign = 0
    Readers = {r1}
    Targeted <- ReadTargets
INVARIANTS
    ServiceTypeOK
    NoDanglingRead
PROPERTIES
    ImplementsFileStore
    CommandsEnd
    RequestsEnd
