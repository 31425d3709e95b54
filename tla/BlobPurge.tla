------------------------------ MODULE BlobPurge ------------------------------
(***************************************************************************)
(* AzureBlobStorage.PurgeBlobsExpiringBeforeAsync: the directories that    *)
(* UploadMessageAsync names after days are fed to one bounded block of     *)
(* workers, whose handlers list each directory and feed its blobs to a     *)
(* second bounded block, which deletes them.  Any storage request may      *)
(* fail, the caller may cancel, and others delete blobs meanwhile.         *)
(*                                                                         *)
(* The blocks are ActionBlocks of TPL Dataflow: the capacity counts what   *)
(* is queued and what is being processed; a block that failed or was       *)
(* cancelled drops its queue and declines what it is sent.  The order of a *)
(* queue is left open.                                                     *)
(***************************************************************************)
EXTENDS Integers, FiniteSets

CONSTANTS
    Blob,
    Never,              \* DateTime.MaxValue
    TicksPerDay,
    Expiration,         \* the expirations of uploads, times or Never
    Limit,              \* the times before which is purged
    DirectoryCapacity,  \* BoundedCapacity and MaxDegreeOfParallelism of
    DirectoryParallel,  \* directoryToBlobs
    BlobCapacity,       \* the same of deleteBlobBlock
    BlobParallel,
    Fault               \* "storage", "cancel", "others"

ASSUME PurgeAssumption ==
    /\ Never \notin Int
    /\ TicksPerDay \in Nat \ {0}
    /\ Expiration \subseteq Nat \cup {Never} /\ Limit \subseteq Nat
    /\ DirectoryCapacity \in Nat \ {0} /\ DirectoryParallel \in Nat \ {0}
    /\ BlobCapacity \in Nat \ {0} /\ BlobParallel \in Nat \ {0}

VARIABLES
    expires,    \* expirationUtc of each blob
    store,      \* the blobs in the container
    before,     \* deleteBlobsExpiringBefore
    pc,         \* what PurgeBlobsExpiringBeforeAsync waits for
    outcome,
    token,      \* the caller's cancellation was requested
    listed,     \* directories the outer listing has yet to yield
    directory,  \* each directory in directoryToBlobs
    rest,       \* what its handler has yet to send
    item,       \* each blob in deleteBlobBlock
    failed      \* the blocks that have failed

callVars == <<before, outcome, token>>
blockVars == <<directory, rest, item, failed>>
vars == <<expires, store, callVars, pc, listed, blockVars>>

-----------------------------------------------------------------------------
(***************************************************************************)
(* Directories.                                                            *)
(***************************************************************************)

\* The day an expiration falls on.
SameDay(t) == t - (t % TicksPerDay)

\* The day after it: all that is in a directory has expired by that day.
DayAfter(t) == t - (t % TicksPerDay) + TicksPerDay

Day == {DayAfter(t) : t \in Expiration \ {Never}}

\* The blobs of a directory; those that never expire are in none.
In(d) == {b \in store : expires[b] # Never /\ DayAfter(expires[b]) = d}

-----------------------------------------------------------------------------
(***************************************************************************)
(* The enumeration of directories and its end.                             *)
(***************************************************************************)

Processing(d) == directory[d] = "listing"

\* What directoryToBlobs has accepted and not finished with.
HeldDirectories == {d \in Day : directory[d] \in {"queued", "listing"}}
DirectoryCount == Cardinality(HeldDirectories)

\* Whether a send ends: accepted if there is room, declined by a failed block.
DirectoriesTake == "directories" \in failed \/ DirectoryCount < DirectoryCapacity

Finish(how) == pc' = "over" /\ outcome' = how

\* SendAsync: accepted, or waiting for room, or declined by a failed block,
\* which is not noticed.
SendDirectory ==
    /\ pc = "list" /\ ~token
    /\ \E d \in listed :
       /\ \A e \in listed : d <= e
       /\ d < before
       /\ DirectoriesTake
       /\ directory' = IF "directories" \in failed THEN directory
                       ELSE [directory EXCEPT ![d] = "queued"]
       /\ listed' = listed \ {d}
    /\ UNCHANGED <<expires, store, callVars, pc, rest, item, failed>>

\* The first later directory ends the enumeration, and directoryToBlobs is
\* completed.
EndListing ==
    /\ pc = "list" /\ ~token
    /\ \A d \in listed : d >= before
    /\ pc' = "drain"
    /\ UNCHANGED <<expires, store, callVars, listed, blockVars>>

\* Completing both blocks at once.
DrainAtOnce ==
    /\ pc = "drain"
    /\ pc' = "finish"
    /\ UNCHANGED <<expires, store, callVars, listed, blockVars>>

\* Awaiting the first block before the second is completed.
Drain ==
    /\ pc = "drain"
    /\ \A d \in Day : ~Processing(d)
    /\ \/ "directories" \in failed /\ Finish("failed")
       \/ "directories" \notin failed /\ token /\ Finish("cancelled")
       \/ /\ "directories" \notin failed /\ ~token
          /\ \A d \in Day : directory[d] # "queued"
          /\ pc' = "finish" /\ UNCHANGED outcome
    /\ UNCHANGED <<expires, store, before, token, listed, blockVars>>

Await ==
    /\ pc = "finish"
    /\ \A b \in Blob : item[b] # "deleting"
    /\ \/ "deletions" \in failed /\ Finish("failed")
       \/ "deletions" \notin failed /\ token /\ Finish("cancelled")
       \/ /\ "deletions" \notin failed /\ ~token
          /\ \A b \in Blob : item[b] # "queued"
          /\ Finish("ok")
    /\ UNCHANGED <<expires, store, before, token, listed, blockVars>>

\* The outer listing, or waiting for room, is cancelled; neither block is
\* completed.
CancelListing ==
    /\ pc = "list" /\ token /\ Finish("cancelled")
    /\ UNCHANGED <<expires, store, before, token, listed, blockVars>>

\* The outer listing fails; neither block is completed.
FailListing ==
    /\ "storage" \in Fault
    /\ pc = "list" /\ Finish("failed")
    /\ UNCHANGED <<expires, store, before, token, listed, blockVars>>

-----------------------------------------------------------------------------
(***************************************************************************)
(* The handlers of directoryToBlobs.                                       *)
(***************************************************************************)

CanStartDirectory(d) ==
    /\ directory[d] = "queued" /\ "directories" \notin failed /\ ~token
    /\ Cardinality({c \in Day : Processing(c)}) < DirectoryParallel

StartDirectory(d) ==
    /\ CanStartDirectory(d)
    /\ directory' = [directory EXCEPT ![d] = "listing"]
    /\ rest' = [rest EXCEPT ![d] = In(d)]
    /\ UNCHANGED <<expires, store, callVars, pc, listed, item, failed>>

\* What deleteBlobBlock has accepted and not finished with.
HeldBlobs == {b \in Blob : item[b] \in {"queued", "deleting"}}
BlobCount == Cardinality(HeldBlobs)

BlobsTake == "deletions" \in failed \/ BlobCount < BlobCapacity

\* A send that waits for room even when the block has failed.
SendBlobOnceAccepted(d, b) ==
    /\ Processing(d) /\ b \in rest[d] /\ ~token
    /\ "deletions" \notin failed /\ BlobCount < BlobCapacity
    /\ item' = [item EXCEPT ![b] = "queued"]
    /\ rest' = [rest EXCEPT ![d] = @ \ {b}]
    /\ UNCHANGED <<expires, store, callVars, pc, listed, directory, failed>>

\* SendAsync, whose result is not looked at.
SendBlob(d, b) ==
    /\ Processing(d) /\ b \in rest[d] /\ ~token
    /\ BlobsTake
    /\ item' = IF "deletions" \in failed THEN item ELSE [item EXCEPT ![b] = "queued"]
    /\ rest' = [rest EXCEPT ![d] = @ \ {b}]
    /\ UNCHANGED <<expires, store, callVars, pc, listed, directory, failed>>

\* The listing ends, or SendAsync is cancelled.
EndDirectory(d) ==
    /\ Processing(d) /\ (rest[d] = {} \/ token)
    /\ directory' = [directory EXCEPT ![d] = "done"]
    /\ UNCHANGED <<expires, store, callVars, pc, listed, rest, item, failed>>

\* A page of the listing fails, and with it the block.
FailDirectory(d) ==
    /\ "storage" \in Fault
    /\ Processing(d)
    /\ failed' = failed \cup {"directories"}
    /\ directory' = [directory EXCEPT ![d] = "done"]
    /\ UNCHANGED <<expires, store, callVars, pc, listed, rest, item>>

-----------------------------------------------------------------------------
(***************************************************************************)
(* The handlers of deleteBlobBlock.                                        *)
(***************************************************************************)

CanStartDelete(b) ==
    /\ item[b] = "queued" /\ "deletions" \notin failed /\ ~token
    /\ Cardinality({c \in Blob : item[c] = "deleting"}) < BlobParallel

StartDelete(b) ==
    /\ CanStartDelete(b)
    /\ item' = [item EXCEPT ![b] = "deleting"]
    /\ UNCHANGED <<expires, store, callVars, pc, listed, directory, rest, failed>>

\* A failed deletion that is ignored like one of a missing blob.
EndDeleteRegardless(b) ==
    /\ item[b] = "deleting"
    /\ \/ store' = store \ {b}
       \/ token /\ UNCHANGED store
       \/ "storage" \in Fault /\ store' \in {store, store \ {b}}
    /\ item' = [item EXCEPT ![b] = "done"]
    /\ UNCHANGED <<expires, callVars, pc, listed, directory, rest, failed>>

\* The blob is deleted or gone already; or the request is cancelled or fails,
\* whether or not it took effect.
EndDelete(b) ==
    /\ item[b] = "deleting"
    /\ \/ store' = store \ {b} /\ UNCHANGED failed
       \/ token /\ UNCHANGED <<store, failed>>
       \/ /\ "storage" \in Fault
          /\ store' \in {store, store \ {b}}
          /\ failed' = failed \cup {"deletions"}
    /\ item' = [item EXCEPT ![b] = "done"]
    /\ UNCHANGED <<expires, callVars, pc, listed, directory, rest>>

-----------------------------------------------------------------------------

Cancel ==
    /\ "cancel" \in Fault /\ ~token /\ pc # "over"
    /\ token' = TRUE
    /\ UNCHANGED <<expires, store, before, outcome, pc, listed, blockVars>>

\* An owner, or another purge, deletes a blob.
DeleteElsewhere(b) ==
    /\ "others" \in Fault
    /\ b \in store /\ store' = store \ {b}
    /\ UNCHANGED <<expires, callVars, pc, listed, blockVars>>

Init ==
    /\ expires \in [Blob -> Expiration]
    /\ store = Blob
    /\ before \in Limit
    /\ pc = "list" /\ outcome = "none" /\ token = FALSE
    /\ listed = {d \in Day : In(d) # {}}
    /\ directory = [d \in Day |-> "none"]
    /\ rest = [d \in Day |-> {}]
    /\ item = [b \in Blob |-> "none"]
    /\ failed = {}

CallStep == SendDirectory \/ EndListing \/ Drain \/ Await \/ CancelListing

DirectoryStep(d) ==
    StartDirectory(d) \/ (\E b \in Blob : SendBlob(d, b)) \/ EndDirectory(d)

DeleteStep(b) == StartDelete(b) \/ EndDelete(b)

Next ==
    \/ CallStep
    \/ \E d \in Day : DirectoryStep(d) \/ FailDirectory(d)
    \/ \E b \in Blob : DeleteStep(b) \/ DeleteElsewhere(b)
    \/ FailListing \/ Cancel

Spec == Init /\ [][Next]_vars

\* The workers of both blocks and the method run on the thread pool, and a
\* storage request is answered.  Nothing makes one fail, or the caller cancel.
FairSpec ==
    /\ Spec /\ WF_vars(CallStep)
    /\ \A d \in Day : WF_vars(DirectoryStep(d))
    /\ \A b \in Blob : WF_vars(DeleteStep(b))

-----------------------------------------------------------------------------
(***************************************************************************)
(* Properties.                                                             *)
(***************************************************************************)

TypeOK ==
    /\ expires \in [Blob -> Expiration]
    /\ store \subseteq Blob
    /\ before \in Limit
    /\ pc \in {"list", "drain", "finish", "over"}
    /\ outcome \in {"none", "ok", "failed", "cancelled"}
    /\ token \in BOOLEAN
    /\ listed \subseteq Day
    /\ directory \in [Day -> {"none", "queued", "listing", "done"}]
    /\ rest \in [Day -> SUBSET Blob]
    /\ item \in [Blob -> {"none", "queued", "deleting", "done"}]
    /\ failed \subseteq {"directories", "deletions"}

\* Both blocks keep to their capacities.
BlocksAreBounded ==
    /\ IsFiniteSet(HeldDirectories) /\ DirectoryCount <= DirectoryCapacity
    /\ IsFiniteSet(HeldBlobs) /\ BlobCount <= BlobCapacity

\* A directory is taken up once, and only if its day is before the given time; a
\* blob only by the handler of its own directory.
WorkIsOfItsDirectory ==
    /\ \A d \in listed : directory[d] = "none"
    /\ \A d \in Day : directory[d] # "none" => d < before
    /\ \A d \in Day : \A b \in rest[d] :
          expires[b] # Never /\ DayAfter(expires[b]) = d /\ item[b] = "none"
    /\ \A b \in Blob : item[b] # "none" =>
          /\ expires[b] # Never
          /\ directory[DayAfter(expires[b])] \in {"listing", "done"}

\* The stages of the method: past the enumeration no directory before the given
\* time is left, past the first block none is queued or listed, and
\* a purge that returns normally leaves nothing queued or running behind.
StagesAreOver ==
    /\ pc # "over" => outcome = "none"
    /\ pc \in {"drain", "finish"} \/ outcome = "ok" => \A d \in listed : d >= before
    /\ pc = "finish" \/ outcome = "ok" =>
          "directories" \notin failed /\ HeldDirectories = {}
    /\ outcome = "ok" => HeldBlobs = {} /\ "deletions" \notin failed /\ ~token

\* Where a blob of a directory is between the listing and its deletion.
Ahead(d, b) ==
    \/ d \in listed \/ directory[d] = "queued"
    \/ directory[d] = "listing" /\ b \in rest[d]
    \/ b \in HeldBlobs

\* No blob of a directory before the given time is lost between the stages,
\* unless a block has failed or the caller has cancelled.
NothingIsForgotten ==
    \A b \in store :
        expires[b] # Never /\ DayAfter(expires[b]) < before
        => Ahead(DayAfter(expires[b]), b) \/ failed # {} \/ token

\* The guards of the method's steps, and of the workers of both blocks.
MethodCanMove ==
    \/ pc = "list" /\ (token \/ DirectoriesTake \/ \A d \in listed : d >= before)
    \/ /\ pc = "drain" /\ \A d \in Day : ~Processing(d)
       /\ "directories" \in failed \/ token \/ \A d \in Day : directory[d] # "queued"
    \/ /\ pc = "finish" /\ \A b \in Blob : item[b] # "deleting"
       /\ "deletions" \in failed \/ token \/ \A b \in Blob : item[b] # "queued"

DirectoryCanMove(d) ==
    \/ CanStartDirectory(d)
    \/ Processing(d) /\ (rest[d] = {} \/ token \/ BlobsTake)

BlobCanMove(b) == CanStartDelete(b) \/ item[b] = "deleting"

\* Neither block ever waits for the other, nor the method for both, with nobody
\* who can move: not when a queue is full, a block has failed or the caller has
\* cancelled.
SomebodyCanMove ==
    \/ pc = "over" \/ MethodCanMove
    \/ \E d \in Day : DirectoryCanMove(d)
    \/ \E b \in Blob : BlobCanMove(b)

\* The blocks, the stages of the method, the way of each blob through them, and
\* that it never stops: all but the last are the inductive invariant.
PurgeInv ==
    /\ TypeOK /\ BlocksAreBounded
    /\ WorkIsOfItsDirectory /\ StagesAreOver /\ NothingIsForgotten
    /\ SomebodyCanMove

Expired(b) == expires[b] # Never /\ expires[b] < before

\* The purge deletes only what expires before the given time, although it
\* looks at nothing but the names of directories.
OnlyExpiredArePurged == \A b \in Blob : item[b] # "none" => Expired(b)

\* When it returns normally, every blob that expired more than a day
\* before the given time is gone: none was left in a queue, declined by a
\* failed block, or skipped.  (Those that expired within that day may stay: the
\* name of their directory is not before the given time.)
PurgeIsComplete ==
    outcome = "ok" =>
        \A b \in store : expires[b] # Never => expires[b] + TicksPerDay >= before

\* How far a directory or a blob has come.
Stage == [none |-> 0, queued |-> 1, listing |-> 2, deleting |-> 2, done |-> 3]

\* No directory is listed twice, and no blob sent or deleted twice, by one
\* purge: whatever moves at all moves on.
WorkOnlyAdvances ==
    [][ /\ listed' \subseteq listed
        /\ \A d \in Day : Stage[directory[d]] <= Stage[directory'[d]]
        /\ \A d \in Day : rest'[d] \subseteq rest[d] \/ directory[d] = "queued"
        /\ \A b \in Blob : Stage[item[b]] <= Stage[item'[b]] ]_vars

\* Neither block waits for the other for ever, whatever fails.
PurgeEnds == pc = "list" ~> pc = "over"
=============================================================================
