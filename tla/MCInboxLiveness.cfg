CONSTANTS
    r1 = r1
    r2 = r2
    r3 = r3
    Request = {r1, r2, r3}
    m1 = m1
    m2 = m2
    NoItem = NoItem
    Mailbox = {m1}
    Initial = {m1}
    Inputs <- PollsAndPosts
    Fault = {}
SPECIFICATION FairSpec
INVARIANTS
    PollIsComplete
PROPERTIES
    WaitingPollIsAnswered
    RequestIsAnswered
CHECK_DEADLOCK FALSE
