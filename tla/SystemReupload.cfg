SPECIFICATION Spec
CONSTANTS
    h1 = h1
    h2 = h2
    r1 = r1
    r2 = r2
    first = first
    virus = virus
    Null = Null
    CleanObjects = {first}
    WrongTypeObjects = {}
    InfectedObjects = {virus}
    MaxAttempts = 2
    Kind = "video"
    Handlers = {h1}
    Limit <- OneCrash
    Requests = {r1}
    Declarations <- RightChecksum
    MaxFaults = 1
INVARIANTS
    SystemTypeOK
    EveryJobPublishedOnce
    RowsStandOrFall
    ReadyOriginalIsClean
