\* Two requests at a time; the registry spells its Locations in every way.
SPECIFICATION FairSpec
CONSTANTS
    MaxTarget = 1
    MaxHeaders = 1
    MaxHeaderBytes = 1
    MaxBody = 1
    MaxU64 = 2
    Slots = {q1, q2}
    Inputs <- MCInputs
    Sessions <- MCSessions
    SafeIds <- MCSafe
    ShortIds <- MCShort
    Digests = {"d"}
    Refs = {"t"}
    Pieces = {"a", "b"}
    Content <- MCContent
    Forms <- MCForms
    ManifestForms <- NoForms
    Registries <- MCRegistries
    None = None
    MaxRequests = 2
INVARIANTS
    TypeOK
    AnswersAreTrue
    LocationsLeadBack
    ForwardedHaveOneLength
PROPERTIES
    RequestsAnswered
\* The system rests when every request received has been answered.
CHECK_DEADLOCK FALSE
