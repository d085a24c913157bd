\* Two creates of one path, and another client's artifact with hidden content.
SPECIFICATION Spec
CONSTANTS
    Files <- MCFiles
    Dirs <- MCDirs
    Contents <- RaceContents
    Size <- RaceSize
    MaxBytes = 2
    Clis = {c1, c2}
    Ops <- CreateOps
    InitialTags <- NativeTags
    Pushes <- HiddenPush
    None = None
    MaxStarts = 2
    MaxForeign = 1
PROPERTIES
    ReplacesWhatWasChecked
CHECK_DEADLOCK FALSE
