SPECIFICATION FairSpec
CONSTANTS
    h1 = h1
    h2 = h2
    good = good
    other = other
    wrong = wrong
    virus = virus
    Null = Null
    CleanObjects = {good, other}
    WrongTypeObjects = {wrong}
    InfectedObjects = {virus}
    Handlers = {h1, h2}
    MaxAttempts = 3
    Uploads <- AllUploads
    Limit <- ToolFaults
INVARIANTS
    ArchivedOnlyIfDead
    RestAgrees
PROPERTIES
    EveryJobEnds
    KeepsPromise
