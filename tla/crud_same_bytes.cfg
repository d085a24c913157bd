\* Three creates of the same bytes, one after another, from an empty reference.
SPECIFICATION Spec
CONSTANTS
    Files <- SameFiles
    Dirs <- MCDirs
    Contents <- RaceContents
    Size <- RaceSize
    MaxBytes = 2
    Clis = {c1}
    Ops <- SameBytes
    InitialTags <- NoTags
    Pushes <- NoPushes
    None = None
    MaxStarts = 3
    MaxForeign = 0
INVARIANTS
    PublishedWithinLimit
CHECK_DEADLOCK FALSE
