CONSTANTS
    r1 = r1
    r2 = r2
    r3 = r3
    Request = {r1, r2, r3}
    m1 = m1
    m2 = m2
    NoItem = NoItem
    Mailbox = {m1, m2}
    Initial = {}
    Inputs <- FaultInputs
    Fault = {"abort", "storage", "restart", "deactivate"}
SPECIFICATION Spec
SYMMETRY Symmetry
INVARIANTS
    IInv
    CreationIsNeverPutOff
    PostAnswerIsTruthful
PROPERTIES
    ImplementsRelayService
CHECK_DEADLOCK FALSE
