SPECIFICATION FairSpec
CHECK_DEADLOCK FALSE
CONSTANTS
    r1 = r1
    r2 = r2
    first = first
    second = second
    Null = Null
    CleanObjects = {first, second}
    WrongTypeObjects = {}
    InfectedObjects = {}
    MaxAttempts = 3
    Kind = "video"
    Declarations <- RightChecksum
    MaxFaults = 1
    Requests = {r1, r2}
INVARIANTS
    UploadTypeOK
    ClosedIsStored
    ScanPublishedOnce
    NoOrphanMultipart
PROPERTIES
    ConfirmedIsScanned
