\* The registry answers a manifest publication with a Location.
SPECIFICATION Spec
CONSTANTS
    MaxTarget = 1
    MaxHeaders = 1
    MaxHeaderBytes = 1
    MaxBody = 1
    MaxU64 = 2
    Slots = {q1}
    Inputs <- Publications
    Sessions <- MCSessions
    SafeIds <- MCSafe
    ShortIds <- MCShort
    Digests = {"d"}
    Refs = {"t"}
    Pieces = {"a", "b"}
    Content <- MCContent
    Forms <- PlainForm
    ManifestForms <- PlainForm
    Registries <- FullRegistry
    None = None
    MaxRequests = 1
PROPERTIES
    PublicationIsAcknowledged
CHECK_DEADLOCK FALSE
