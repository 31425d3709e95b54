CONSTANTS
    e1 = e1
    e2 = e2
    w1 = w1
    w2 = w2
    Post = {1, 2}
    Endpoint = {e1, e2}
    Messages <- TwoMessages
    Fault = {"network", "timeout", "expire", "close"}
    MaxFaults = 1
    Window = {w1, w2}
    Owner <- Owners
    PurgeUnsupported = {w2}
    NoPost = NoPost
SPECIFICATION FairSpec
INVARIANTS
    PostalInv
    ReceiptsAreTruthful
    NothingIsLost
    ShownOnce
    SleepIsExcused
PROPERTIES
    ImplementsDelivery
    DartIsShown
CHECK_DEADLOCK FALSE
