-------------------------- MODULE InboxInvariants --------------------------
(***************************************************************************)
(* The inductive invariants behind the properties of InboxController: what *)
(* is true between any two steps of any handlers and makes the properties  *)
(* true.  TLC checks them on small instances; InboxControllerProofs proves *)
(* them.                                                                   *)
(***************************************************************************)
EXTENDS InboxController

PostPC == {"upload", "createContainer", "alert", "pulse"}
PollPC == {"register", "wait", "list", "download", "await"}
CreatePC == {"insert", "initTable", "initContainers", "insertAgain"}
OwnerPC == {"touch", "markDeleted", "deleteBlob", "openBlob"} \cup PollPC

\* Each handler is at a step of its own code, those behind the authentication
\* have the owner's code, and only a finished one has a status.
HandlersInTheirCode ==
    \A r \in Request :
        /\ pc[r] \in PostPC => Is(r, "post")
        /\ pc[r] \in PollPC => Is(r, "poll")
        /\ pc[r] \in CreatePC => Is(r, "create")
        /\ pc[r] = "markDeleted" => Is(r, "deleteInbox")
        /\ pc[r] = "deleteBlob" => Is(r, "deleteItem")
        /\ pc[r] = "openBlob" => Is(r, "getItem")
        /\ pc[r] \in {"lookup", "touch"} => ~Is(r, "create")
        /\ pc[r] = "touch" => ~Is(r, "post")
        /\ pc[r] \in OwnerPC => req[r].code = "owner"
        /\ pc[r] # "done" => status[r] = 0

\* A copy of an entity with the ETag of the stored one is equal to it.
CopiesMatchETags ==
    \A r \in Request :
        snap[r].exists =>
            /\ snap[r].etag <= table[Mbox(r)].etag
            /\ table[Mbox(r)].exists /\ snap[r].etag = table[Mbox(r)].etag
                  => snap[r] = table[Mbox(r)]

\* A handler about to merge has a copy to merge, of a mailbox that was not
\* deleted when it was read.
MergersHaveCopies ==
    \A r \in Request :
        pc[r] \in {"touch", "markDeleted"} => snap[r].exists /\ ~snap[r].deleted

\* The inbox that a request is creating, or will create, does not exist yet.
NamesAreUnused ==
    /\ FreshNames(req)
    /\ \A r \in Request :
          Is(r, "create") /\ pc[r] # "done" => table[Mbox(r)] = NoEntity

-----------------------------------------------------------------------------

\* r's event is the one that the next alert of its mailbox will pulse.
Armed(r) == evt[r] = waiters[Mbox(r)]

Listed(r) == pc[r] \in {"download", "await"}

\* A post that is alerting has stored its item; one that is yet to upload has
\* not.
PostsStoreBeforeAlerting ==
    \A p \in Request :
        /\ pc[p] \in {"alert", "pulse"} => blob[p] # "none"
        /\ pc[p] \in {"idle", "lookup", "upload", "createContainer"} => blob[p] = "none"

\* A poll that has registered has an event, and one that waits found nothing.
PollsAreRegistered ==
    \A r \in Request :
        /\ pc[r] \in {"wait", "list", "download", "await"} => evt[r] # NoEvent
        /\ pc[r] = "await" => todo[r] = {} /\ sent[r] = {}

\* A poll that lost its event before it listed will find what the poster that
\* took the event stored, or that item has been deleted.
DisarmedBeforeListing ==
    \A r \in Request :
        pc[r] \in {"wait", "list"} /\ ~Armed(r)
            => \E p \in Request : InMailbox(p, Mbox(r)) /\ blob[p] # "none"

\* A poll that still has its event after it listed has seen every item whose
\* poster is past taking the event out.
ArmedSinceListing ==
    \A r \in Request :
        Listed(r) /\ Armed(r)
            => \A i \in StoredIn(Mbox(r)) :
                  pc[i] = "pulse" \/ status[i] = 200 => i \in todo[r] \cup sent[r]

\* A poll that lost its event is about to be pulsed, has found an item, or is
\* in a mailbox from which an item was deleted.
DisarmedSinceListing ==
    \A r \in Request :
        Listed(r) /\ task[r] = "pending" /\ ~Armed(r) /\ ~ToBePulsed(r)
            => \/ todo[r] \cup sent[r] # {}
               \/ \E d \in Request : InMailbox(d, Mbox(r)) /\ blob[d] = "deleted"

-----------------------------------------------------------------------------

\* An entity that is stored has an ETag.
EntitiesHaveETags == \A m \in Mailbox : table[m].exists => table[m].etag # 0

\* There are blobs only in a container that exists.
BlobsAreInTheContainer ==
    \A i \in Request : blob[i] # "none" => containerExists

\* A poll has listed, and sends, items of its own mailbox only.
PollsStayInTheirMailbox ==
    \A r \in Request : \A i \in todo[r] \cup sent[r] : InMailbox(i, Mbox(r))

\* What a poll has listed or sent was stored, and can only have been deleted.
ListedItemsWereStored ==
    \A r \in Request : \A i \in todo[r] \cup sent[r] : blob[i] # "none"

-----------------------------------------------------------------------------

TableInv == CopiesMatchETags /\ MergersHaveCopies /\ NamesAreUnused

WakeUpInv ==
    /\ PostsStoreBeforeAlerting
    /\ PollsAreRegistered
    /\ DisarmedBeforeListing
    /\ ArmedSinceListing
    /\ DisarmedSinceListing

StorageInv ==
    /\ EntitiesHaveETags
    /\ BlobsAreInTheContainer
    /\ PollsStayInTheirMailbox
    /\ ListedItemsWereStored

\* The invariant of the whole controller.
IInv == TypeOK /\ HandlersInTheirCode /\ TableInv /\ WakeUpInv /\ StorageInv
=============================================================================
