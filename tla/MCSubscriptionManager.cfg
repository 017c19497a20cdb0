SPECIFICATION FairSpec

CONSTANTS
    none = none
    u1 = u1
    u2 = u2
    h1 = h1
    h2 = h2
    a1 = a1
    a2 = a2
    EmptyName = none
    Refresher = refresher
    Free = free
    NoAdd = noAdd
    NoConfig = noConfig
    Seed = seed
    Name <- MCName
    Url <- MCUrl
    Norm <- MCNorm
    Accepted <- MCAccepted
    Handler <- MCHandler
    Legacy <- MCLegacy
    MaxNodes = 1

INVARIANTS
    TypeOK
    ReadyMeansCurrent
    VisibleNamesStay
    FilesAreSound
    FailedUpdateRestores
PROPERTIES
    ImplementsStore
    NothingStarves
    CrashRepaired
