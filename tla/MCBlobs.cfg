CONSTANTS
    u1 = u1
    u2 = u2
    Stream = {u1, u2}
    NoLimit = NoLimit
    Chunked = Chunked
    MaxBytes = 5
    MaxBlobSizesAndLifetimes <- Rules
    MaxAddressBookEntrySize = 2
    MaxAddressBookEntryLifetime = 3
    MaxTimeSpan = 5
    MaxDate = 4
    Uploads <- AllUploads
SPECIFICATION Spec
SYMMETRY Symmetry
INVARIANTS
    LimitIsKept
    EntryCopyIsShort
    StoredBlobsFollowThePolicy
    ReplyIsTruthful
    BlobInv
CHECK_DEADLOCK FALSE
