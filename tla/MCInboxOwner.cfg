CONSTANTS
    r1 = r1
    r2 = r2
    r3 = r3
    Request = {r1, r2, r3}
    m1 = m1
    m2 = m2
    NoItem = NoItem
    Mailbox = {m1, m2}
    Initial = {m1, m2}
    Inputs <- OwnerInputs
    Fault = {"deactivate", "dropTable"}
SPECIFICATION Spec
SYMMETRY Symmetry
INVARIANTS
    StrandedOnlyByDeletion
    DeletedMailboxRefusesAll
    OneDeletionSucceeds
    OnlyTheOwner
PROPERTIES
    StaleCopiesUndoNothing
    LongPollAnswersWithItems
CHECK_DEADLOCK FALSE
