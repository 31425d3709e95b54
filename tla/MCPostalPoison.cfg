CONSTANTS
    e1 = e1
    e2 = e2
    w1 = w1
    w2 = w2
    Post = {1, 2}
    Endpoint = {e1}
    Messages <- DartsOnly
    Fault = {"expire"}
    MaxFaults = 1
    Window = {w1}
    Owner <- OneOwner
    PurgeUnsupported = {}
    NoPost = NoPost
SPECIFICATION FairSpec
PROPERTIES
    ReadableDartIsShown
CHECK_DEADLOCK FALSE
