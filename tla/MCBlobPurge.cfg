CONSTANTS
    b1 = b1
    b2 = b2
    b3 = b3
    Blob = {b1, b2, b3}
    Never = Never
    TicksPerDay = 2
    Expiration = {1, 3, Never}
    Limit = {3, 5}
    DirectoryCapacity = 1
    DirectoryParallel = 1
    BlobCapacity = 2
    BlobParallel = 2
    Fault = {"storage", "cancel", "others"}
SPECIFICATION FairSpec
INVARIANTS
    PurgeInv
    OnlyExpiredArePurged
    PurgeIsComplete
PROPERTIES
    PurgeEnds
CHECK_DEADLOCK FALSE
