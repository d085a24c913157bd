\* A request for a directory that holds no file.
SPECIFICATION ServiceSpec
CONSTANTS
    Files <- MCFiles
    Dirs <- MCDirs
    Contents <- RaceContents
    Size <- RaceSize
    MaxBytes = 2
    Clis = {c1}
    Ops <- CreateOps
    InitialTags <- NativeTags
    Pushes <- NoPushes
    None = None
    MaxStarts = 1
    MaxForeign = 0
    Readers = {r1}
    Targeted <- AbsentDirectory
INVARIANTS
    UnknownDirectoryIsMissing
CHECK_DEADLOCK FALSE
