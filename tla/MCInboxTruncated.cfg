CONSTANTS
    r1 = r1
    r2 = r2
    r3 = r3
    r4 = r4
    Request = {r1, r2, r3, r4}
    m1 = m1
    m2 = m2
    NoItem = NoItem
    Mailbox = {m1}
    Initial = {m1}
    Inputs <- DeletionInputs
    Fault = {}
SPECIFICATION Spec
SYMMETRY Symmetry
INVARIANTS
    PollIsComplete
CHECK_DEADLOCK FALSE
