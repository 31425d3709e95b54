----------------------- MODULE BlobControllerProofs -----------------------
(***************************************************************************)
(* Proofs about the blob controller and the stream its uploads are read    *)
(* through, for every set of uploads and every policy.                     *)
(***************************************************************************)
EXTENDS BlobController, TLAPS

(***************************************************************************)
(* The stream by itself.                                                   *)
(***************************************************************************)

\* Counting n more bytes keeps the count at or above what callers passed, and
\* what they passed within the limit.
LEMMA CountingKeepsTheLimit ==
    ASSUME StreamTypeOK, CountIsEnough, LimitIsKept,
           NEW s \in Stream, NEW n \in Nat, ReportProgress(s, n),
           UNCHANGED lengthLimit,
           readMode' \in [Stream -> {"unset", "read", "write"}]
    PROVE  StreamTypeOK' /\ CountIsEnough' /\ LimitIsKept'
<1>1. StreamTypeOK'
  <2>1. bytesTransferred' \in [Stream -> Nat] /\ moved' \in [Stream -> Nat]
    BY DEF StreamTypeOK, ReportProgress
  <2>2. handed' \in [Stream -> Nat]
    BY DEF StreamTypeOK, ReportProgress
  <2>3. lengthLimit' \in [Stream -> Nat \cup {NoLimit}]
    BY DEF StreamTypeOK
  <2> QED  BY <2>1, <2>2, <2>3 DEF StreamTypeOK
<1>2. CountIsEnough'
  BY DEF StreamTypeOK, CountIsEnough, ReportProgress
<1>3. LimitIsKept'
  BY StreamAssumption DEF StreamTypeOK, CountIsEnough, LimitIsKept, ReportProgress, TooLong
<1> QED  BY <1>1, <1>2, <1>3

\* A stream, read or written in any way and even after its exception, hands no
\* caller more than LengthLimit bytes: that ReadByte counts twice does no harm.
THEOREM StreamKeepsItsLimit == StreamSpec => []LimitIsKept
<1> DEFINE Inv == StreamTypeOK /\ CountIsEnough /\ LimitIsKept
<1>1. StreamInit => Inv
  BY StreamAssumption DEF StreamInit, StreamTypeOK, CountIsEnough, LimitIsKept
<1>2. Inv /\ [StreamNext]_streamVars => Inv'
  <2> SUFFICES ASSUME Inv, [StreamNext]_streamVars PROVE Inv'
    OBVIOUS
  <2>1. ASSUME NEW s \in Stream, NEW n \in 1..MaxBytes - moved[s],
               Read(s, n) \/ Write(s, n)
        PROVE  Inv'
    BY <2>1, StreamAssumption, CountingKeepsTheLimit DEF Read, Write, StreamTypeOK
  <2>2. ASSUME NEW s \in Stream, ReadByte(s) PROVE Inv'
    <3>1. StreamTypeOK'
      BY <2>2 DEF ReadByte, StreamTypeOK
    <3>2. CountIsEnough'
      BY <2>2 DEF ReadByte, StreamTypeOK, CountIsEnough
    <3>3. LimitIsKept'
      BY <2>2, StreamAssumption
      DEF ReadByte, TooLong, StreamTypeOK, CountIsEnough, LimitIsKept
    <3> QED  BY <3>1, <3>2, <3>3
  <2>3. CASE UNCHANGED streamVars
    BY <2>3 DEF streamVars, StreamTypeOK, CountIsEnough, LimitIsKept
  <2> QED  BY <2>1, <2>2, <2>3 DEF StreamNext
<1> QED  BY <1>1, <1>2, PTL DEF StreamSpec

-----------------------------------------------------------------------------
(***************************************************************************)
(* The policy.                                                             *)
(***************************************************************************)

\* Every declared length or chunked limit that lets an upload begin is within
\* what the policy grants to that type of upload and lifetime.
LEMMA LimitsFollowPolicy ==
    ASSUME NEW p \in Uploads, Verdict(p) = 0, NEW limit \in Limits(p)
    PROVE  /\ limit \in Nat
           /\ p.type = "entry" => limit \in 0..MaxAddressBookEntrySize
           /\ p.type # "entry" =>
                 \E k \in Sizes : limit <= k /\ p.life <= MaxBlobSizesAndLifetimes[k]
<1> p.life \in Int /\ p.length \in Nat \cup {Chunked} /\ p.type \in {"entry", "other"}
  BY BlobAssumption DEF Upload
<1>1. CASE p.length = Chunked
  BY <1>1, BlobAssumption DEF Limits, TryGetMaxAllowedBlobSize, SizesAllowing, Sizes
<1>2. CASE p.length # Chunked
  <2>1. limit = p.length /\ limit \in Nat
    BY <1>2 DEF Limits
  <2>2. GetDisallowedLifetimeResponse(limit, p.life, p.type) = 0
    BY <1>2, <2>1 DEF Verdict
  <2>3. CASE p.type = "entry" /\ p.life <= MaxAddressBookEntryLifetime
    BY <2>1, <2>2, <2>3, BlobAssumption DEF GetDisallowedLifetimeResponse
  <2>4. CASE ~(p.type = "entry" /\ p.life <= MaxAddressBookEntryLifetime)
    <3>1. PICK k \in Sizes : AllowedBy(k, limit, p.life)
      BY <2>2, <2>4 DEF GetDisallowedLifetimeResponse
    <3>2. /\ k \in Nat /\ limit < k
          /\ p.life <= MaxBlobSizesAndLifetimes[k]
          /\ MaxBlobSizesAndLifetimes[k] \in Nat
          /\ MaxBlobSizesAndLifetimes[k] <= MaxAddressBookEntryLifetime
          /\ MaxAddressBookEntryLifetime \in Nat
      BY <3>1, BlobAssumption DEF AllowedBy, Sizes
    <3> QED  BY <2>1, <2>4, <3>1, <3>2
  <2> QED  BY <2>3, <2>4
<1> QED  BY <1>1, <1>2

-----------------------------------------------------------------------------
(***************************************************************************)
(* The handler.                                                            *)
(***************************************************************************)

\* A verdict is a response that PostAsync gives.
LEMMA VerdictType ==
    ASSUME NEW p \in Uploads
    PROVE  Verdict(p) \in {0, 400, 402, 413, 500}
BY DEF Verdict, GetDisallowedLifetimeResponse

LEMMA InitInv == Init => BlobInv
BY StreamAssumption
DEF Init, BlobInv, TypeOK, StreamTypeOK, At, CountIsEnough, LimitIsKept,
    UntouchedWhenIdle, LimitFollowsPolicy, GoesOnWithAll, StoredAtTheEnd,
    StoredBlobsFollowThePolicy, ReplyIsTruthful

\* The invariant is kept by a handler that reads no further and changes no limit.
LEMMA QuietStream ==
    ASSUME StreamTypeOK, CountIsEnough, LimitIsKept, UNCHANGED streamVars
    PROVE  StreamTypeOK' /\ CountIsEnough' /\ LimitIsKept'
BY DEF streamVars, StreamTypeOK, CountIsEnough, LimitIsKept

LEMMA RefuseKeeps ==
    ASSUME BlobInv, NEW u \in Stream, Refuse(u)
    PROVE  BlobInv'
<1> USE DEF BlobInv
<1> Verdict(upload[u]) \in {0, 400, 402, 413, 500}
  BY VerdictType DEF TypeOK
<1>1. TypeOK' /\ CountIsEnough' /\ LimitIsKept'
  BY QuietStream DEF Refuse, Answer, blobs, TypeOK, At
<1>2. UntouchedWhenIdle' /\ LimitFollowsPolicy' /\ GoesOnWithAll'
  BY DEF Refuse, Answer, blobs, streamVars, TypeOK, UntouchedWhenIdle, LimitFollowsPolicy,
         GoesOnWithAll
<1>3. StoredAtTheEnd' /\ StoredBlobsFollowThePolicy' /\ ReplyIsTruthful'
  BY DEF Refuse, Answer, blobs, TypeOK, StoredAtTheEnd, StoredBlobsFollowThePolicy,
         ReplyIsTruthful
<1> QED  BY <1>1, <1>2, <1>3

LEMMA BeginKeeps ==
    ASSUME BlobInv, NEW u \in Stream, Begin(u)
    PROVE  BlobInv'
<1> USE DEF BlobInv
<1> DEFINE p == upload[u]
<1>0. p \in Uploads /\ p \in Upload
  BY BlobAssumption DEF TypeOK
<1>1. PICK limit \in Limits(p) : SetLimit(u, limit)
  BY DEF Begin
<1>2. /\ limit \in Nat
      /\ p.type = "entry" => limit \in 0..MaxAddressBookEntrySize
      /\ p.type # "entry" =>
            \E k \in Sizes : limit <= k /\ p.life <= MaxBlobSizesAndLifetimes[k]
  BY <1>0, <1>1, LimitsFollowPolicy DEF Begin
<1>3. /\ at' = [at EXCEPT ![u] = at'[u]]
      /\ at'[u] \in {"validate", "upload", "done"}
      /\ at'[u] = "validate" => p.type = "entry"
      /\ at'[u] = "upload" => p.type = "other"
      /\ reply' = [reply EXCEPT ![u] = reply'[u]]
      /\ reply'[u] = reply[u] \/ (at'[u] = "done" /\ reply'[u] = 500)
      /\ at[u] = "idle"
      /\ UNCHANGED <<upload, payloadsExist, stored>>
  BY DEF Begin, Goto, Answer, blobs, TypeOK
<1>4. moved[u] = 0 /\ handed[u] = 0 /\ ~stored[u] /\ reply[u] = 0
  BY <1>3 DEF UntouchedWhenIdle, StoredAtTheEnd, TypeOK
<1>5. TypeOK'
  <2>1. StreamTypeOK'
    BY <1>1, <1>2 DEF TypeOK, StreamTypeOK, SetLimit
  <2>2. at' \in [Stream -> At] /\ reply' \in [Stream -> {0, 201, 400, 402, 413, 499, 500, 503}]
    BY <1>3 DEF TypeOK, At
  <2> QED  BY <1>3, <2>1, <2>2 DEF TypeOK
<1>6. CountIsEnough' /\ LimitIsKept'
  BY <1>1, <1>2, <1>4 DEF TypeOK, StreamTypeOK, SetLimit, CountIsEnough, LimitIsKept
<1>7. UntouchedWhenIdle' /\ GoesOnWithAll'
  BY <1>1, <1>3, <1>4 DEF TypeOK, SetLimit, UntouchedWhenIdle, GoesOnWithAll
<1>8. LimitFollowsPolicy'
  BY <1>1, <1>2, <1>3 DEF TypeOK, StreamTypeOK, SetLimit, LimitFollowsPolicy
<1>9. StoredAtTheEnd' /\ StoredBlobsFollowThePolicy' /\ ReplyIsTruthful'
  BY <1>3, <1>4 DEF TypeOK, StoredAtTheEnd, StoredBlobsFollowThePolicy, ReplyIsTruthful
<1> QED  BY <1>5, <1>6, <1>7, <1>8, <1>9

LEMMA ReadBodyKeeps ==
    ASSUME BlobInv, NEW u \in Stream, ReadBody(u)
    PROVE  BlobInv'
<1> USE DEF BlobInv
<1>1. PICK n \in 1..upload[u].size - moved[u] :
            Read(u, n) /\ IF TooLong(u, n) THEN Answer(u, 413) ELSE Goto(u, at[u])
  BY DEF ReadBody
<1>2. n \in Nat
  BY BlobAssumption DEF TypeOK, StreamTypeOK, Upload
<1>3. StreamTypeOK' /\ CountIsEnough' /\ LimitIsKept'
  BY <1>1, <1>2, CountingKeepsTheLimit DEF Read, TypeOK, StreamTypeOK
<1>4. at[u] \in {"validate", "upload"} /\ ~stored[u] /\ UNCHANGED <<upload, blobs, lengthLimit>>
  BY <1>1 DEF ReadBody, StoredAtTheEnd, TypeOK, Read, Answer, Goto
<1>5. TypeOK'
  BY <1>1, <1>3, <1>4 DEF TypeOK, At, blobs, Answer, Goto
<1>6. UntouchedWhenIdle' /\ LimitFollowsPolicy'
  BY <1>1, <1>4 DEF TypeOK, StreamTypeOK, Read, ReportProgress, Answer, Goto, UntouchedWhenIdle,
                    LimitFollowsPolicy
<1>7. GoesOnWithAll'
  BY <1>1, <1>2, <1>4 DEF TypeOK, StreamTypeOK, Read, ReportProgress, Answer, Goto, GoesOnWithAll
<1>8. StoredAtTheEnd' /\ StoredBlobsFollowThePolicy' /\ ReplyIsTruthful'
  BY <1>1, <1>4 DEF TypeOK, Answer, Goto, blobs, StoredAtTheEnd, StoredBlobsFollowThePolicy,
                    ReplyIsTruthful
<1> QED  BY <1>3, <1>5, <1>6, <1>7, <1>8

LEMMA ValidateKeeps ==
    ASSUME BlobInv, NEW u \in Stream, Validate(u)
    PROVE  BlobInv'
<1> USE DEF BlobInv
<1>1. /\ at[u] = "validate" /\ moved[u] = upload[u].size /\ ~stored[u] /\ reply[u] = 0
      /\ UNCHANGED <<streamVars, blobs, upload>>
  BY DEF Validate, StoredAtTheEnd, TypeOK, Answer, Goto
<1>2. TypeOK' /\ CountIsEnough' /\ LimitIsKept'
  BY <1>1, QuietStream DEF Validate, Answer, Goto, blobs, TypeOK, At
<1>3. UntouchedWhenIdle' /\ LimitFollowsPolicy' /\ GoesOnWithAll'
  BY <1>1 DEF Validate, Answer, Goto, blobs, streamVars, TypeOK, UntouchedWhenIdle,
              LimitFollowsPolicy, GoesOnWithAll
<1>4. StoredAtTheEnd' /\ StoredBlobsFollowThePolicy' /\ ReplyIsTruthful'
  BY <1>1 DEF Validate, Answer, Goto, blobs, TypeOK, StoredAtTheEnd,
              StoredBlobsFollowThePolicy, ReplyIsTruthful
<1> QED  BY <1>2, <1>3, <1>4

\* What is stored has been read to its end within a limit of the policy.
LEMMA StoreFollowsPolicy ==
    ASSUME BlobInv, NEW u \in Stream, Store(u), UNCHANGED upload
    PROVE  StoredBlobsFollowThePolicy'
<1> USE DEF BlobInv
<1>1. upload[u].size \in Nat /\ upload[u].life \in Int
  BY BlobAssumption DEF TypeOK, Upload
<1>2. at[u] \in {"upload", "uploadCopy"} /\ handed[u] = upload[u].size
  BY DEF Store, IsRead, GoesOnWithAll
<1>3. lengthLimit[u] \in Nat /\ upload[u].size <= lengthLimit[u]
  BY <1>2, StreamAssumption DEF LimitIsKept, LimitFollowsPolicy
<1>4. \/ /\ upload[u].type = "entry" /\ upload[u].body = "valid"
         /\ upload[u].size <= MaxAddressBookEntrySize
      \/ \E k \in Sizes : /\ upload[u].size <= k
                          /\ upload[u].life <= MaxBlobSizesAndLifetimes[k]
  <2>1. CASE at[u] = "uploadCopy"
    BY <1>1, <1>3, <2>1, BlobAssumption DEF GoesOnWithAll, LimitFollowsPolicy
  <2>2. CASE at[u] = "upload"
    <3>1. PICK k \in Sizes : /\ lengthLimit[u] <= k
                             /\ upload[u].life <= MaxBlobSizesAndLifetimes[k]
      BY <2>2 DEF LimitFollowsPolicy
    <3>2. k \in Nat
      BY BlobAssumption DEF Sizes
    <3> QED  BY <1>1, <1>3, <3>1, <3>2
  <2> QED  BY <1>2, <2>1, <2>2
<1> QED  BY <1>4 DEF Store, TypeOK, StoredBlobsFollowThePolicy

\* The handler ends, with or without having stored its blob or created the
\* container.
LEMMA EndingKeeps ==
    ASSUME BlobInv, NEW u \in Stream, at[u] # "idle", at[u] # "done",
           NEW s \in {201, 499, 500, 503}, Answer(u, s), UNCHANGED streamVars,
           \/ Store(u) /\ s \in {201, 499, 500}
           \/ CreateContainerIfNotExists /\ s # 201
           \/ UNCHANGED blobs /\ s # 201
    PROVE  BlobInv'
<1> USE DEF BlobInv
<1>1. ~stored[u] /\ UNCHANGED upload
  BY DEF StoredAtTheEnd, TypeOK, Answer
<1>2. TypeOK' /\ CountIsEnough' /\ LimitIsKept'
  <2>1. StreamTypeOK' /\ CountIsEnough' /\ LimitIsKept'
    BY QuietStream DEF TypeOK
  <2>2. at' \in [Stream -> At] /\ reply' \in [Stream -> {0, 201, 400, 402, 413, 499, 500, 503}]
    BY DEF Answer, TypeOK, At
  <2>3. payloadsExist' \in BOOLEAN /\ stored' \in [Stream -> BOOLEAN]
    <3>1. CASE Store(u)
      BY <3>1 DEF Store, TypeOK
    <3>2. CASE CreateContainerIfNotExists
      BY <3>2 DEF CreateContainerIfNotExists, TypeOK
    <3>3. CASE UNCHANGED blobs
      BY <3>3 DEF blobs, TypeOK
    <3> QED  BY <3>1, <3>2, <3>3
  <2> QED  BY <1>1, <2>1, <2>2, <2>3 DEF TypeOK
<1>3. UntouchedWhenIdle' /\ LimitFollowsPolicy' /\ GoesOnWithAll'
  BY <1>1 DEF Answer, streamVars, TypeOK, UntouchedWhenIdle, LimitFollowsPolicy, GoesOnWithAll
<1>4. StoredBlobsFollowThePolicy'
  <2>1. CASE Store(u)
    BY <1>1, <2>1, StoreFollowsPolicy
  <2>2. CASE UNCHANGED stored
    BY <1>1, <2>2 DEF StoredBlobsFollowThePolicy
  <2> QED  BY <2>1, <2>2 DEF CreateContainerIfNotExists, blobs
<1>5. \/ stored' = [stored EXCEPT ![u] = TRUE] /\ s \in {201, 499, 500}
      \/ UNCHANGED stored /\ s # 201
  BY DEF Store, CreateContainerIfNotExists, blobs
<1>6. StoredAtTheEnd' /\ ReplyIsTruthful'
  BY <1>1, <1>5 DEF Answer, TypeOK, StoredAtTheEnd, ReplyIsTruthful
<1> QED  BY <1>2, <1>3, <1>4, <1>6

LEMMA MissContainerKeeps ==
    ASSUME BlobInv, NEW u \in Stream, MissContainer(u)
    PROVE  BlobInv'
<1> USE DEF BlobInv
<1>1. TypeOK' /\ CountIsEnough' /\ LimitIsKept'
  BY QuietStream DEF MissContainer, Goto, blobs, TypeOK, At
<1>2. UntouchedWhenIdle' /\ LimitFollowsPolicy' /\ GoesOnWithAll'
  BY DEF MissContainer, Goto, blobs, streamVars, TypeOK, UntouchedWhenIdle,
         LimitFollowsPolicy, GoesOnWithAll
<1>3. StoredAtTheEnd' /\ StoredBlobsFollowThePolicy' /\ ReplyIsTruthful'
  BY DEF MissContainer, Goto, blobs, TypeOK, StoredAtTheEnd, StoredBlobsFollowThePolicy,
         ReplyIsTruthful
<1> QED  BY <1>1, <1>2, <1>3

\* The invariant behind the properties of the blob controller.
THEOREM BlobInvariant == Spec => []BlobInv
<1>1. Init => BlobInv
  BY InitInv
<1>2. BlobInv /\ [Next]_vars => BlobInv'
  <2> SUFFICES ASSUME BlobInv, [Next]_vars PROVE BlobInv'
    OBVIOUS
  <2>1. ASSUME NEW u \in Stream, Refuse(u) PROVE BlobInv'
    BY <2>1, RefuseKeeps
  <2>2. ASSUME NEW u \in Stream, Begin(u) PROVE BlobInv'
    BY <2>2, BeginKeeps
  <2>3. ASSUME NEW u \in Stream, ReadBody(u) PROVE BlobInv'
    BY <2>3, ReadBodyKeeps
  <2>4. ASSUME NEW u \in Stream, Validate(u) PROVE BlobInv'
    BY <2>4, ValidateKeeps
  <2>5. ASSUME NEW u \in Stream, Commit(u) PROVE BlobInv'
    <3>1. at[u] # "idle" /\ at[u] # "done"
      BY <2>5 DEF Commit, Store, IsRead
    <3> QED  BY <2>5, <3>1, EndingKeeps DEF Commit
  <2>6. ASSUME NEW u \in Stream, MissContainer(u) PROVE BlobInv'
    BY <2>6, MissContainerKeeps
  <2>7. ASSUME NEW u \in Stream, CreateContainer(u) PROVE BlobInv'
    BY <2>7, EndingKeeps DEF CreateContainer
  <2>8. ASSUME NEW u \in Stream, Interrupt(u) PROVE BlobInv'
    BY <2>8, EndingKeeps DEF Interrupt
  <2>9. CASE UNCHANGED vars
    BY <2>9 DEF vars, blobs, streamVars, BlobInv, TypeOK, StreamTypeOK, CountIsEnough,
                LimitIsKept, UntouchedWhenIdle, LimitFollowsPolicy, GoesOnWithAll,
                StoredAtTheEnd, StoredBlobsFollowThePolicy, ReplyIsTruthful
  <2> QED  BY <2>1, <2>2, <2>3, <2>4, <2>5, <2>6, <2>7, <2>8, <2>9 DEF Next
<1> QED  BY <1>1, <1>2, PTL DEF Spec

\* Whatever the policy, declared or chunked, honest or not: a stored blob obeys
\* a rule with its real size, or is a valid and small address book entry.
THEOREM PolicyIsEnforced == Spec => []StoredBlobsFollowThePolicy
<1>1. BlobInv => StoredBlobsFollowThePolicy
  BY DEF BlobInv
<1> QED  BY <1>1, BlobInvariant, PTL

\* Every variable of the handler and its stream keeps its type.
THEOREM BlobTypesAreKept == Spec => []TypeOK
<1>1. BlobInv => TypeOK
  BY DEF BlobInv
<1> QED  BY <1>1, BlobInvariant, PTL

\* No more than MaxAddressBookEntrySize bytes are copied to memory.
THEOREM CopiesAreShort == Spec => []EntryCopyIsShort
<1>1. BlobInv => EntryCopyIsShort
  <2> SUFFICES ASSUME BlobInv, NEW u \in Stream, at[u] = "validate"
               PROVE  handed[u] <= MaxAddressBookEntrySize
    BY DEF EntryCopyIsShort
  <2>1. lengthLimit[u] \in 0..MaxAddressBookEntrySize /\ handed[u] <= lengthLimit[u]
    BY StreamAssumption DEF BlobInv, LimitFollowsPolicy, LimitIsKept
  <2> QED  BY <2>1, BlobAssumption DEF BlobInv, TypeOK, StreamTypeOK
<1> QED  BY <1>1, BlobInvariant, PTL

\* The response of an upload agrees with what is stored.
THEOREM RepliesAreTruthful == Spec => []ReplyIsTruthful
<1>1. BlobInv => ReplyIsTruthful
  BY DEF BlobInv
<1> QED  BY <1>1, BlobInvariant, PTL
=============================================================================
