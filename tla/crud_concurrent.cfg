\* Two commands and one step of another client interleave.
SPECIFICATION Spec
CONSTANTS
    Files <- MCFiles
    Dirs <- MCDirs
    Contents <- MCContents
    Size <- MCSize
    MaxBytes = 2
    Clis = {c1, c2}
    Ops <- RaceOps
    InitialTags <- RaceTags
    Pushes <- RacePushes
    None = None
    MaxStarts = 3
    MaxForeign = 1
INVARIANTS
    TypeOK
    StagedIsEffect
    CliLeavesReadableTag
PROPERTIES
    ImplementsSnapshotStore
\* The system stops when every command has ended.
CHECK_DEADLOCK FALSE
