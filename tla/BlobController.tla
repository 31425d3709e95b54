-------------------------- MODULE BlobController --------------------------
(***************************************************************************)
(* The payload half of the relay server: BlobController.PostAsync, run     *)
(* concurrently for several uploads against the container of payloads.  An *)
(* upload is identified with the StreamWithProgress its body is read       *)
(* through.  Sizes are in bytes, lifetimes in minutes.                     *)
(***************************************************************************)
EXTENDS StreamWithProgress

CONSTANTS
    Uploads,                       \* what clients may upload
    Chunked,                       \* the Content-Length of a chunked body
    MaxBlobSizesAndLifetimes,      \* the longest lifetime for each size
    MaxAddressBookEntrySize,
    MaxAddressBookEntryLifetime,
    MaxTimeSpan,                   \* the longest TimeSpan there is
    MaxDate                        \* how far from now the last date is

Upload == [life: Int, length: Nat \cup {Chunked}, size: Nat,
           type: {"entry", "other"}, body: {"valid", "invalid", "null"}]

\* The lifetime of address book entries exceeds that of any other blob.
ASSUME BlobAssumption ==
    /\ Chunked \notin Nat
    /\ Uploads \subseteq Upload
    /\ DOMAIN MaxBlobSizesAndLifetimes \subseteq Nat
    /\ MaxAddressBookEntrySize \in Nat
    /\ {MaxAddressBookEntryLifetime, MaxTimeSpan, MaxDate} \subseteq Nat
    /\ \A k \in DOMAIN MaxBlobSizesAndLifetimes :
          /\ MaxBlobSizesAndLifetimes[k] \in Nat
          /\ MaxBlobSizesAndLifetimes[k] <= MaxAddressBookEntryLifetime

VARIABLES
    upload,         \* what each upload is, fixed from the start
    at,             \* where its handler is
    reply,          \* the status code of its response, 0 for none
    payloadsExist,  \* whether the container has been created
    stored          \* whether its blob is in the container

blobs == <<payloadsExist, stored>>
vars == <<streamVars, upload, at, reply, blobs>>

At == {"idle", "validate", "upload", "uploadCopy", "createContainer", "done"}

Sizes == DOMAIN MaxBlobSizesAndLifetimes

Goto(u, l) ==
    /\ at' = [at EXCEPT ![u] = l]
    /\ UNCHANGED <<upload, reply>>

Answer(u, s) ==
    /\ at' = [at EXCEPT ![u] = "done"]
    /\ reply' = [reply EXCEPT ![u] = s]
    /\ UNCHANGED upload

-----------------------------------------------------------------------------
(***************************************************************************)
(* The policy on sizes and lifetimes.                                      *)
(***************************************************************************)

\* k is the first rule for larger blobs than this one, and allows its lifetime.
AllowedBy(k, size, life) ==
    /\ size < k /\ \A j \in Sizes : size < j => k <= j
    /\ life <= MaxBlobSizesAndLifetimes[k]

\* A policy that forgets how large an entry may be.
EntriesOfAnySize(size, life, type) ==
    IF type = "entry" /\ life <= MaxAddressBookEntryLifetime THEN 0
    ELSE IF \E k \in Sizes : AllowedBy(k, size, life) THEN 0 ELSE 413

\* 0 stands for the null that lets the upload go on.
GetDisallowedLifetimeResponse(size, life, type) ==
    IF type = "entry" /\ life <= MaxAddressBookEntryLifetime
    THEN IF size <= MaxAddressBookEntrySize THEN 0 ELSE 413
    ELSE IF \E k \in Sizes : AllowedBy(k, size, life) THEN 0
    ELSE IF \E k \in Sizes : size < k THEN 402
    ELSE 413

SizesAllowing(life) == {k \in Sizes : MaxBlobSizesAndLifetimes[k] >= life}

\* A policy that takes the largest size there is for the largest allowed.
AnyMaxAllowedBlobSize(life, type) ==
    IF type = "entry" THEN {MaxAddressBookEntrySize}
    ELSE {k \in Sizes : \A j \in Sizes : j <= k}

\* The limit TryGetMaxAllowedBlobSize returns, if it returns one.
TryGetMaxAllowedBlobSize(life, type) ==
    IF type = "entry" THEN {MaxAddressBookEntrySize}
    ELSE {k \in SizesAllowing(life) : \A j \in SizesAllowing(life) : j <= k}

\* What is decided before the body is read.
Verdict(p) ==
    IF p.life <= 0 THEN 400
    ELSE IF p.life > MaxTimeSpan THEN 500
    ELSE IF p.length # Chunked
         THEN GetDisallowedLifetimeResponse(p.length, p.life, p.type)
    ELSE IF TryGetMaxAllowedBlobSize(p.life, p.type) = {} THEN 400
    ELSE 0

Limits(p) ==
    IF p.length # Chunked THEN {p.length}
    ELSE TryGetMaxAllowedBlobSize(p.life, p.type)

-----------------------------------------------------------------------------
(***************************************************************************)
(* PostAsync.                                                              *)
(***************************************************************************)
Refuse(u) ==
    /\ at[u] = "idle"
    /\ Verdict(upload[u]) # 0
    /\ Answer(u, Verdict(upload[u]))
    /\ UNCHANGED <<streamVars, blobs>>

\* The expiration date of a plain blob is computed before its body is read.
Begin(u) ==
    /\ at[u] = "idle"
    /\ Verdict(upload[u]) = 0
    /\ \E limit \in Limits(upload[u]) : SetLimit(u, limit)
    /\ \/ upload[u].type = "entry" /\ Goto(u, "validate")
       \/ /\ upload[u].type = "other"
          /\ IF upload[u].life > MaxDate THEN Answer(u, 500) ELSE Goto(u, "upload")
    /\ UNCHANGED blobs

\* The next piece of the body; too long a body makes the server hang up.
ReadBody(u) ==
    /\ at[u] \in {"validate", "upload"}
    /\ \E n \in 1..upload[u].size - moved[u] :
          /\ Read(u, n)
          /\ IF TooLong(u, n) THEN Answer(u, 413) ELSE Goto(u, at[u])
    /\ UNCHANGED blobs

\* A validation of what has come in so far.
ValidateSoFar(u) ==
    /\ at[u] = "validate" /\ moved[u] > 0
    /\ IF upload[u].body = "valid" THEN Goto(u, "uploadCopy") ELSE Answer(u, 400)
    /\ UNCHANGED <<streamVars, blobs>>

\* IsValidAddressBookEntryAsync at the end of the body.  It refuses what cannot
\* be deserialized or extracted; a serialized null gets past the first only.
Validate(u) ==
    /\ at[u] = "validate" /\ moved[u] = upload[u].size
    /\ \/ upload[u].body = "invalid" /\ Answer(u, 400)
       \/ upload[u].body = "null" /\ Answer(u, 500)
       \/ /\ upload[u].body = "valid"
          /\ IF upload[u].life > MaxDate THEN Answer(u, 500) ELSE Goto(u, "uploadCopy")
    /\ UNCHANGED <<streamVars, blobs>>

\* All that is to be uploaded has been read.
IsRead(u) == at[u] = "uploadCopy" \/ (at[u] = "upload" /\ moved[u] = upload[u].size)

Store(u) ==
    /\ IsRead(u) /\ payloadsExist
    /\ stored' = [stored EXCEPT ![u] = TRUE]
    /\ UNCHANGED payloadsExist

Commit(u) ==
    /\ Store(u)
    /\ Answer(u, 201)
    /\ UNCHANGED streamVars

\* The storage client may find out before it has read all of the body.
MissContainer(u) ==
    /\ at[u] \in {"upload", "uploadCopy"} /\ ~payloadsExist
    /\ Goto(u, "createContainer")
    /\ UNCHANGED <<streamVars, blobs>>

CreateContainerIfNotExists ==
    /\ payloadsExist' = TRUE
    /\ UNCHANGED stored

\* A retry in place, of a body that has been read already.
CreateContainerAndAccept(u) ==
    /\ at[u] = "createContainer"
    /\ CreateContainerIfNotExists
    /\ Answer(u, 201)
    /\ UNCHANGED streamVars

CreateContainer(u) ==
    /\ at[u] = "createContainer"
    /\ CreateContainerIfNotExists
    /\ Answer(u, 503)
    /\ UNCHANGED streamVars

\* The client goes (499) or storage fails (500); what was asked of storage may
\* still happen.
Interrupt(u) ==
    /\ at[u] \notin {"idle", "done"}
    /\ \E s \in {499, 500} : Answer(u, s)
    /\ \/ UNCHANGED blobs
       \/ Store(u)
       \/ at[u] = "createContainer" /\ CreateContainerIfNotExists
    /\ UNCHANGED streamVars

-----------------------------------------------------------------------------

Init ==
    /\ upload \in [Stream -> Uploads]
    /\ at = [u \in Stream |-> "idle"]
    /\ reply = [u \in Stream |-> 0]
    /\ payloadsExist \in BOOLEAN
    /\ stored = [u \in Stream |-> FALSE]
    /\ readMode = [u \in Stream |-> "unset"]
    /\ lengthLimit = [u \in Stream |-> NoLimit]
    /\ bytesTransferred = [u \in Stream |-> 0]
    /\ moved = [u \in Stream |-> 0]
    /\ handed = [u \in Stream |-> 0]

Next ==
    \E u \in Stream :
       \/ Refuse(u) \/ Begin(u) \/ ReadBody(u) \/ Validate(u) \/ Commit(u)
       \/ MissContainer(u) \/ CreateContainer(u) \/ Interrupt(u)

Spec == Init /\ [][Next]_vars

-----------------------------------------------------------------------------

TypeOK ==
    /\ StreamTypeOK
    /\ upload \in [Stream -> Uploads]
    /\ at \in [Stream -> At]
    /\ reply \in [Stream -> {0, 201, 400, 402, 413, 499, 500, 503}]
    /\ payloadsExist \in BOOLEAN
    /\ stored \in [Stream -> BOOLEAN]

\* Whatever a client declares and then sends, what ends up in the container is
\* a valid address book entry of the size allowed to those, or obeys one of the
\* rules of MaxBlobSizesAndLifetimes with its real size.
StoredBlobsFollowThePolicy ==
    \A u \in Stream : stored[u] =>
        \/ /\ upload[u].type = "entry" /\ upload[u].body = "valid"
           /\ upload[u].size <= MaxAddressBookEntrySize
        \/ \E k \in Sizes : /\ upload[u].size <= k
                            /\ upload[u].life <= MaxBlobSizesAndLifetimes[k]

\* IsValidAddressBookEntryAsync copies the body to memory: it never copies more
\* than an address book entry may have, though the policy that guards it has
\* two branches for entries.
EntryCopyIsShort ==
    \A u \in Stream : at[u] = "validate" => handed[u] <= MaxAddressBookEntrySize

\* What a client is told agrees with what is stored: 201 means that the blob is
\* there, and a refusal or 503 ("try again") that it is not.
ReplyIsTruthful ==
    \A u \in Stream :
        /\ reply[u] = 201 => stored[u]
        /\ reply[u] \in {400, 402, 413, 503} => ~stored[u]

-----------------------------------------------------------------------------
(***************************************************************************)
(* The inductive invariant behind the properties above.                    *)
(***************************************************************************)

\* Nothing passes through a stream before its handler begins.
UntouchedWhenIdle ==
    \A u \in Stream : at[u] = "idle" => moved[u] = 0 /\ handed[u] = 0

\* Both ways of setting the limit of a stream keep to the policy.
LimitFollowsPolicy ==
    \A u \in Stream :
        /\ at[u] \in {"validate", "uploadCopy"} =>
              /\ upload[u].type = "entry"
              /\ lengthLimit[u] \in 0..MaxAddressBookEntrySize
        /\ at[u] = "upload" =>
              /\ lengthLimit[u] \in Nat
              /\ \E k \in Sizes : /\ lengthLimit[u] <= k
                                  /\ upload[u].life <= MaxBlobSizesAndLifetimes[k]

\* A handler that goes on has all that was read; a copy is whole and valid.
GoesOnWithAll ==
    \A u \in Stream :
        /\ at[u] \in {"validate", "upload", "uploadCopy"} => handed[u] = moved[u]
        /\ at[u] = "uploadCopy" => moved[u] = upload[u].size /\ upload[u].body = "valid"

\* A blob is stored by a handler that thereby ends.
StoredAtTheEnd ==
    \A u \in Stream :
        /\ stored[u] => reply[u] \in {201, 499, 500}
        /\ reply[u] # 0 => at[u] = "done"
        /\ stored[u] => at[u] = "done"

BlobInv ==
    /\ TypeOK
    /\ CountIsEnough
    /\ LimitIsKept
    /\ UntouchedWhenIdle
    /\ LimitFollowsPolicy
    /\ GoesOnWithAll
    /\ StoredAtTheEnd
    /\ StoredBlobsFollowThePolicy
    /\ ReplyIsTruthful

-----------------------------------------------------------------------------

\* Address book entries have a maximum lifetime of their own.
EntryLifetimeIsLimited ==
    \A u \in Stream :
        stored[u] /\ upload[u].type = "entry"
            => upload[u].life <= MaxAddressBookEntryLifetime
=============================================================================
