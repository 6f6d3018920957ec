SPECIFICATION Spec
CONSTANTS
    MaxKey = 5
    Report = {1, 3, 4, 5}
    Broken = {4}
    PageSize = 2
INVARIANTS
    TypeOK
    RememberedIsOneReport
PROPERTIES
    ReplacedOnlyByNewer
    ImplementsCollect
    EventuallyNewest
