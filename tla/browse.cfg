\* Publications, pushes, and crawls that begin with any kind of answer.
SPECIFICATION Spec
CONSTANTS
    Segments <- MCSegments
    Spelling <- MCSpelling
    SafeBytes <- MCSafe
    MaxName = 3
    MaxPathBytes = 6
    MaxSegments = 3
    Slash = 2
    MaxFiles = 3
    LayerBytes = 1
    MaxManifest = 11
    None = None
    Directories <- MCDirectories
    Pushes <- MCPushes
    Typed <- MCTyped
    MaxTarget = 6
    MaxHeaders = 1
    MaxHeaderBytes = 1
    MaxBody = 1
    MaxU64 = 2
INVARIANTS
    TypeOK
    NoDeadLinks
    CrawlFindsEverything
    RedirectsLand
    PublishedIsLoadable
