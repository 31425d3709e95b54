CONSTANTS
    c1 = c1
    c2 = c2
    Check = {c1, c2}
    direct = direct
    relay1 = relay1
    relay2 = relay2
    Book = {direct, relay1, relay2}
    url = url
    URL = URL
    email = email
    Name = {url, URL, email}
    e1 = e1
    e2 = e2
    Endpoint = {e1, e2}
    Nothing = Nothing
    Kind <- Kinds
    Serves <- Forms
    Fold <- IgnoreCase
    Initially <- Holdings
    MaxChanges = 1
    Fault = {"http", "timeout", "cancel"}
SPECIFICATION FairSpec
INVARIANTS
    BooksInv
    VerifiedIsPublished
    NoIsDeserved
    ShortcutsAreGrounded
PROPERTIES
    FirstMatchEndsCheck
    SlowerAreCancelled
CHECK_DEADLOCK FALSE
