\* Two connections that stream, one command that fetches, one signal.
SPECIFICATION FairServerSpec
CONSTANTS
    Conns = {c1, c2}
    Fetchers = {f1}
    MaxSize = 2
INVARIANTS
    ServerTypeOK
    QuietWhenExited
    AnswersAreWhole
    NoOrphanedDownload
PROPERTIES
    ShutdownCompletes
    FetchesAreAtomic
CHECK_DEADLOCK FALSE
