CONSTANTS
    u1 = u1
    Stream = {u1}
    NoLimit = NoLimit
    Chunked = Chunked
    MaxBytes = 5
    MaxBlobSizesAndLifetimes <- Rules
    MaxAddressBookEntrySize = 2
    MaxAddressBookEntryLifetime = 3
    MaxTimeSpan = 5
    MaxDate = 4
    Uploads <- AllUploads
SPECIFICATION Spec
INVARIANTS
    EntryLifetimeIsLimited
CHECK_DEADLOCK FALSE
