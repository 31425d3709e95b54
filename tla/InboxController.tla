-------------------------- MODULE InboxController --------------------------
(***************************************************************************)
(* The inbox half of the relay server: the handlers of InboxController     *)
(* running concurrently against the mailbox table, the inbox-item blob     *)
(* container and the long-poll dictionary.  A request is one activation of *)
(* one handler; a step is the code between two awaits, or between two      *)
(* operations on memory that handlers share.  An inbox item is named by    *)
(* the request that posted it.                                             *)
(***************************************************************************)
EXTENDS InboxTable, LongPollWaiters

CONSTANTS
    Initial,    \* the mailboxes that exist at the start
    Inputs,     \* the requests that clients may send
    Fault       \* what may go wrong around the handlers

ASSUME ControllerAssumption ==
    /\ Initial \subseteq Mailbox
    /\ Inputs \subseteq Input
    /\ Fault \subseteq {"abort", "storage", "restart", "deactivate", "dropTable"}

VARIABLES
    req,               \* what each request asks for, fixed from the start
    pc,                \* where each request's handler is
    status,            \* the status code of each response, 0 for none
    containerExists,   \* whether the inbox-item container has been created
    blob,              \* each item's blob: not uploaded, stored or deleted
    todo,              \* the items a poll has listed and not yet downloaded
    sent,              \* the items a response carries
    afterDeletion,     \* history: did r arrive after its inbox was deleted?
    waiting            \* history: the items in the mailbox when r arrived

blobVars == <<containerExists, blob>>
responseVars == <<todo, sent>>
historyVars == <<afterDeletion, waiting>>
vars == <<req, pc, status, tableVars, waiterVars, blobVars, responseVars,
          historyVars>>

PC == {"idle", "lookup", "touch", "markDeleted", "deleteBlob", "openBlob",
       "register", "wait", "list", "download", "await",
       "upload", "createContainer", "alert", "pulse",
       "insert", "initTable", "initContainers", "insertAgain", "done"}

Mbox(r) == req[r].mbox
Is(r, o) == req[r].op = o
InMailbox(i, m) == Is(i, "post") /\ Mbox(i) = m
DeletionConfirmed(m) ==
    \E d \in Request : Is(d, "deleteInbox") /\ Mbox(d) = m /\ status[d] = 200
StoredIn(m) == {i \in Request : InMailbox(i, m) /\ blob[i] = "stored"}

Goto(r, l) ==
    /\ pc' = [pc EXCEPT ![r] = l]
    /\ UNCHANGED <<req, status, historyVars>>

Respond(r, s) ==
    /\ pc' = [pc EXCEPT ![r] = "done"]
    /\ status' = [status EXCEPT ![r] = s]
    /\ UNCHANGED <<req, historyVars>>

\* Answer with s, or go on to l when s is 0.
RespondOrGoto(r, s, l) ==
    IF s # 0 THEN Respond(r, s) ELSE Goto(r, l)

CreateContainerIfNotExists ==
    /\ containerExists' = TRUE
    /\ UNCHANGED blob

-----------------------------------------------------------------------------
(***************************************************************************)
(* Arrival: what a handler decides before its first await.                 *)
(***************************************************************************)
FirstVerdict(in) ==
    CASE in.op = "post" /\ in.form = "noLength" -> 411
      [] in.op = "post" /\ in.form = "zero" -> 400
      [] in.op \notin {"post", "create"} /\ in.code = "none" -> 401
      [] OTHER -> 0

Arrive(r) ==
    /\ pc[r] = "idle"
    /\ LET verdict == FirstVerdict(req[r])
       IN  /\ pc' = [pc EXCEPT ![r] = IF verdict # 0 THEN "done"
                                      ELSE IF Is(r, "create") THEN "insert"
                                      ELSE "lookup"]
           /\ status' = [status EXCEPT ![r] = verdict]
    /\ afterDeletion' = [afterDeletion EXCEPT ![r] = DeletionConfirmed(Mbox(r))]
    /\ waiting' = [waiting EXCEPT ![r] = StoredIn(Mbox(r))]
    /\ UNCHANGED <<req, tableVars, waiterVars, blobVars, responseVars>>

-----------------------------------------------------------------------------
(***************************************************************************)
(* CheckInboxAuthenticationAsync: look the mailbox up, judge it, and merge *)
(* the time of this interaction into it.                                   *)
(***************************************************************************)

\* The check without its owner code, and without its Deleted flag.
VerdictForAnyone(in, e) ==
    IF ~e.exists THEN 404
    ELSE IF e.inactive /\ in.op # "deleteInbox" THEN 410
    ELSE IF e.deleted THEN 404
    ELSE 0

VerdictOnDeleted(in, e) ==
    IF ~e.exists THEN 404
    ELSE IF in.code # "owner" THEN 401
    ELSE IF e.inactive /\ in.op # "deleteInbox" THEN 410
    ELSE 0

AuthenticationVerdict(in, e) ==
    IF ~e.exists THEN 404
    ELSE IF in.code # "owner" THEN 401
    ELSE IF e.inactive /\ in.op # "deleteInbox" THEN 410
    ELSE IF e.deleted THEN 404
    ELSE 0

\* A query of a table that does not exist is an unhandled StorageException.
CheckLookup(r) ==
    /\ pc[r] = "lookup" /\ ~Is(r, "post")
    /\ \/ /\ LookupMailbox(r, Mbox(r))
          /\ RespondOrGoto(r, AuthenticationVerdict(req[r], table[Mbox(r)]), "touch")
       \/ /\ ~tableExists
          /\ Respond(r, 500)
          /\ UNCHANGED tableVars
    /\ UNCHANGED <<waiterVars, blobVars, responseVars>>

\* A poll that looks for items before it obtains its task.
ListFirst(op) ==
    CASE op = "deleteInbox" -> "markDeleted"
      [] op = "deleteItem"  -> "deleteBlob"
      [] op = "getItem"     -> "openBlob"
      [] OTHER              -> "list"

AfterCheck(op) ==
    CASE op = "deleteInbox" -> "markDeleted"
      [] op = "deleteItem"  -> "deleteBlob"
      [] op = "getItem"     -> "openBlob"
      [] OTHER              -> "register"

\* A refused merge is an unhandled StorageException.
Touch(r) ==
    /\ pc[r] = "touch"
    /\ \/ /\ MergeMailbox(r, Mbox(r), snap[r])
          /\ Goto(r, AfterCheck(req[r].op))
       \/ /\ ~MergeAccepted(r, Mbox(r))
          /\ Respond(r, 500)
          /\ UNCHANGED tableVars
    /\ UNCHANGED <<waiterVars, blobVars, responseVars>>

-----------------------------------------------------------------------------
(***************************************************************************)
(* CreateInboxAsync, with the just-in-time Startup.InitializeDatabasesAsync *)
(***************************************************************************)
Insert(r) ==
    /\ pc[r] = "insert"
    /\ \/ /\ InsertMailbox(Mbox(r))
          /\ Respond(r, 201)
       \/ /\ ~tableExists
          /\ Goto(r, "initTable")
          /\ UNCHANGED tableVars
    /\ UNCHANGED <<waiterVars, blobVars, responseVars>>

\* An initialization that skips the table, as its parameter allows.
InitWithoutTable(r) ==
    /\ pc[r] = "initTable"
    /\ Goto(r, "initContainers")
    /\ UNCHANGED <<tableVars, waiterVars, blobVars, responseVars>>

InitTable(r) ==
    /\ pc[r] = "initTable"
    /\ CreateTableIfNotExists
    /\ Goto(r, "initContainers")
    /\ UNCHANGED <<waiterVars, blobVars, responseVars>>

InitContainers(r) ==
    /\ pc[r] = "initContainers"
    /\ CreateContainerIfNotExists
    /\ Goto(r, "insertAgain")
    /\ UNCHANGED <<tableVars, waiterVars, responseVars>>

InsertAgain(r) ==
    /\ pc[r] = "insertAgain"
    /\ \/ /\ InsertMailbox(Mbox(r))
          /\ Respond(r, 201)
       \/ /\ ~tableExists
          /\ Respond(r, 503)
          /\ UNCHANGED tableVars
    /\ UNCHANGED <<waiterVars, blobVars, responseVars>>

-----------------------------------------------------------------------------
(***************************************************************************)
(* DeleteInboxAsync, DeleteInboxItemAsync and GetInboxItemAsync after the  *)
(* authentication.                                                         *)
(***************************************************************************)
MarkDeleted(r) ==
    /\ pc[r] = "markDeleted"
    /\ \/ /\ MergeMailbox(r, Mbox(r), [snap[r] EXCEPT !.deleted = TRUE])
          /\ Respond(r, 200)
       \/ /\ ~MergeAccepted(r, Mbox(r))
          /\ Respond(r, 500)
          /\ UNCHANGED tableVars
    /\ UNCHANGED <<waiterVars, blobVars, responseVars>>

\* A blob is addressed as "{mailbox}/{item}".
ItemFound(r) ==
    /\ containerExists
    /\ req[r].item \in StoredIn(Mbox(r))

RemoveBlob(r) ==
    /\ ItemFound(r)
    /\ blob' = [blob EXCEPT ![req[r].item] = "deleted"]
    /\ UNCHANGED containerExists

\* The delete whose 404 is taken for success.
DeleteBlobOrIgnore(r) ==
    /\ pc[r] = "deleteBlob"
    /\ \/ RemoveBlob(r)
       \/ ~ItemFound(r) /\ UNCHANGED blobVars
    /\ Respond(r, 200)
    /\ UNCHANGED <<tableVars, waiterVars, responseVars>>

DeleteBlob(r) ==
    /\ pc[r] = "deleteBlob"
    /\ \/ RemoveBlob(r) /\ Respond(r, 200)
       \/ ~ItemFound(r) /\ Respond(r, 404) /\ UNCHANGED blobVars
    /\ UNCHANGED <<tableVars, waiterVars, responseVars>>

\* Nothing catches the 404 of OpenReadAsync.
OpenBlob(r) ==
    /\ pc[r] = "openBlob"
    /\ \/ /\ ItemFound(r)
          /\ Respond(r, 200)
          /\ sent' = [sent EXCEPT ![r] = {req[r].item}]
          /\ UNCHANGED todo
       \/ /\ ~ItemFound(r)
          /\ Respond(r, 500)
          /\ UNCHANGED responseVars
    /\ UNCHANGED <<tableVars, waiterVars, blobVars>>

-----------------------------------------------------------------------------
(***************************************************************************)
(* PostInboxItemAsync after its first checks.                              *)
(***************************************************************************)
\* The verdicts in the order of the code.  A negative lifetime passes every
\* check of the handler and fails UploadMessageAsync's own.
PostVerdict(in, e) ==
    IF ~e.exists \/ e.deleted THEN 404
    ELSE IF e.inactive THEN 410
    ELSE IF in.form \in {"tooLarge", "tooLong"} THEN 400
    ELSE IF in.form = "negative" THEN 500
    ELSE 0

\* A post never merges, so it keeps no copy of the entity.
PostLookup(r) ==
    /\ pc[r] = "lookup" /\ Is(r, "post")
    /\ \/ /\ tableExists
          /\ RespondOrGoto(r, PostVerdict(req[r], table[Mbox(r)]), "upload")
       \/ /\ ~tableExists
          /\ Respond(r, 500)
    /\ UNCHANGED <<tableVars, waiterVars, blobVars, responseVars>>

StoreBlob(r) ==
    /\ containerExists
    /\ blob' = [blob EXCEPT ![r] = "stored"]
    /\ UNCHANGED containerExists

Upload(r) ==
    /\ pc[r] = "upload"
    /\ \/ StoreBlob(r) /\ Goto(r, "alert")
       \/ ~containerExists /\ Goto(r, "createContainer") /\ UNCHANGED blobVars
    /\ UNCHANGED <<tableVars, waiterVars, responseVars>>

\* A post that is accepted once the container exists, with nothing stored.
CreateContainerAndAccept(r) ==
    /\ pc[r] = "createContainer"
    /\ CreateContainerIfNotExists
    /\ Respond(r, 200)
    /\ UNCHANGED <<tableVars, waiterVars, responseVars>>

CreateContainer(r) ==
    /\ pc[r] = "createContainer"
    /\ CreateContainerIfNotExists
    /\ Respond(r, 503)
    /\ UNCHANGED <<tableVars, waiterVars, responseVars>>

\* AlertLongPollWaiter, up to the end of its lock block.
Alert(r) ==
    /\ pc[r] = "alert"
    /\ DetachWaiter(r, Mbox(r))
    /\ \/ waiters[Mbox(r)] # NoEvent /\ Goto(r, "pulse")
       \/ waiters[Mbox(r)] = NoEvent /\ Respond(r, 200)
    /\ UNCHANGED <<tableVars, blobVars, responseVars>>

Pulse(r) ==
    /\ pc[r] = "pulse"
    /\ PulseEvent(r)
    /\ Respond(r, 200)
    /\ UNCHANGED <<tableVars, blobVars, responseVars>>

-----------------------------------------------------------------------------
(***************************************************************************)
(* GetInboxContentAsync after the authentication.  A poll registers for    *)
(* the next message before it lists the mailbox, whether or not it is a    *)
(* long poll; one that has to wait starts over when it is woken.           *)
(***************************************************************************)
Register(r) ==
    /\ pc[r] = "register"
    /\ RegisterWaiter(r, Mbox(r))
    /\ Goto(r, "wait")
    /\ UNCHANGED <<tableVars, blobVars, responseVars>>

StartWait(r) ==
    /\ pc[r] = "wait"
    /\ WaitOnEvent(r)
    /\ Goto(r, "list")
    /\ UNCHANGED <<tableVars, blobVars, responseVars>>

\* GetBlobsByHierarchyAsync.  Without a container the inbox is empty.
List(r) ==
    /\ pc[r] = "list"
    /\ \/ /\ containerExists
          /\ todo' = [todo EXCEPT ![r] = StoredIn(Mbox(r))]
          /\ Goto(r, "download")
       \/ /\ ~containerExists
          /\ Respond(r, 200)
          /\ UNCHANGED todo
    /\ UNCHANGED <<tableVars, waiterVars, blobVars, sent>>

\* A poll that answers with the first item.
DownloadOne(r) ==
    /\ pc[r] = "download"
    /\ \E i \in todo[r] :
          /\ sent' = [sent EXCEPT ![r] = {i}]
          /\ todo' = [todo EXCEPT ![r] = {}]
    /\ Goto(r, "download")
    /\ UNCHANGED <<tableVars, waiterVars, blobVars>>

\* One turn of the loop over the listing.  The 404 of an item that is gone by
\* now ends up in the handler for a missing container: the response ends here.
Download(r) ==
    /\ pc[r] = "download"
    /\ \E i \in todo[r] :
          \/ /\ blob[i] = "stored"
             /\ sent' = [sent EXCEPT ![r] = @ \cup {i}]
             /\ todo' = [todo EXCEPT ![r] = @ \ {i}]
             /\ Goto(r, "download")
          \/ /\ blob[i] # "stored"
             /\ Respond(r, 200)
             /\ UNCHANGED responseVars
    /\ UNCHANGED <<tableVars, waiterVars, blobVars>>

\* A poll that would rather answer nothing than wait.
FinishListingAtOnce(r) ==
    /\ pc[r] = "download" /\ todo[r] = {}
    /\ Respond(r, 200)
    /\ UNCHANGED <<tableVars, waiterVars, blobVars, responseVars>>

\* A poll that waits though its client did not ask it to.
FinishListingByWaiting(r) ==
    /\ pc[r] = "download" /\ todo[r] = {}
    /\ IF sent[r] = {} THEN Goto(r, "await") ELSE Respond(r, 200)
    /\ UNCHANGED <<tableVars, waiterVars, blobVars, responseVars>>

FinishListing(r) ==
    /\ pc[r] = "download" /\ todo[r] = {}
    /\ IF req[r].form = "long" /\ sent[r] = {}
       THEN Goto(r, "await")
       ELSE Respond(r, 200)
    /\ UNCHANGED <<tableVars, waiterVars, blobVars, responseVars>>

Awaken(r) ==
    /\ pc[r] = "await" /\ task[r] = "done"
    /\ Goto(r, "register")
    /\ UNCHANGED <<tableVars, waiterVars, blobVars, responseVars>>

-----------------------------------------------------------------------------
(***************************************************************************)
(* What happens around the handlers.                                       *)
(***************************************************************************)

\* The statuses of a handler that is interrupted at an await: 499 when its
\* client has gone, 500 when storage fails for good.  (A poll that has begun to
\* send its response is cut off instead, which counts as the same.)
InterruptStatus(r) ==
    (IF "abort" \in Fault /\ pc[r] \notin {"initTable", "initContainers"}
     THEN {499} ELSE {})
    \cup (IF "storage" \in Fault /\ pc[r] # "await" THEN {500} ELSE {})

AtAwait == PC \ {"idle", "register", "wait", "alert", "pulse", "done"}

\* The storage operation a handler awaits takes effect.
StorageEffect(r) ==
    \/ pc[r] = "touch" /\ MergeMailbox(r, Mbox(r), snap[r]) /\ UNCHANGED blobVars
    \/ /\ pc[r] = "markDeleted"
       /\ MergeMailbox(r, Mbox(r), [snap[r] EXCEPT !.deleted = TRUE])
       /\ UNCHANGED blobVars
    \/ /\ pc[r] \in {"insert", "insertAgain"}
       /\ InsertMailbox(Mbox(r)) /\ UNCHANGED blobVars
    \/ pc[r] = "deleteBlob" /\ RemoveBlob(r) /\ UNCHANGED tableVars
    \/ pc[r] = "upload" /\ StoreBlob(r) /\ UNCHANGED tableVars
    \/ pc[r] = "initTable" /\ CreateTableIfNotExists /\ UNCHANGED blobVars
    \/ /\ pc[r] \in {"initContainers", "createContainer"}
       /\ CreateContainerIfNotExists /\ UNCHANGED tableVars

\* The operation in flight may still take effect in storage.
Interrupt(r) ==
    /\ pc[r] \in AtAwait
    /\ \E s \in InterruptStatus(r) : Respond(r, s)
    /\ StorageEffect(r) \/ UNCHANGED <<tableVars, blobVars>>
    /\ UNCHANGED <<waiterVars, responseVars>>

\* The server process ends, and with it all handlers, and starts again.  A
\* storage operation in flight was a step before this one, or is lost.
Restart ==
    /\ "restart" \in Fault
    /\ pc' = [r \in Request |-> IF pc[r] = "idle" THEN "idle" ELSE "done"]
    /\ LoseWaiters
    /\ UNCHANGED <<req, status, tableVars, blobVars, responseVars, historyVars>>

Maintenance ==
    /\ \/ "deactivate" \in Fault /\ \E m \in Mailbox : Deactivate(m)
       \/ "dropTable" \in Fault /\ DropTable
    /\ UNCHANGED <<req, pc, status, waiterVars, blobVars, responseVars, historyVars>>

-----------------------------------------------------------------------------

\* The name of a new inbox is a new GUID.
FreshNames(q) ==
    \A r \in Request : q[r].op = "create" =>
        /\ q[r].mbox \notin Initial
        /\ \A p \in Request \ {r} : q[p].op = "create" => q[p].mbox # q[r].mbox

Init ==
    /\ req \in {q \in [Request -> Inputs] : FreshNames(q)}
    /\ pc = [r \in Request |-> "idle"]
    /\ status = [r \in Request |-> 0]
    /\ tableExists \in BOOLEAN
    /\ Initial # {} => tableExists
    /\ table = [m \in Mailbox |-> IF m \in Initial THEN NewEntity(1) ELSE NoEntity]
    /\ snap = [r \in Request |-> NoEntity]
    /\ WaitersInit
    /\ containerExists \in BOOLEAN
    /\ containerExists => tableExists
    /\ blob = [r \in Request |-> "none"]
    /\ todo = [r \in Request |-> {}]
    /\ sent = [r \in Request |-> {}]
    /\ afterDeletion = [r \in Request |-> FALSE]
    /\ waiting = [r \in Request |-> {}]

PostStep(r) ==
    PostLookup(r) \/ Upload(r) \/ CreateContainer(r) \/ Alert(r) \/ Pulse(r)

PollStep(r) ==
    \/ Register(r) \/ StartWait(r) \/ List(r)
    \/ Download(r) \/ FinishListing(r) \/ Awaken(r)

CreateStep(r) ==
    Insert(r) \/ InitTable(r) \/ InitContainers(r) \/ InsertAgain(r)

OwnerStep(r) ==
    CheckLookup(r) \/ Touch(r) \/ MarkDeleted(r) \/ DeleteBlob(r) \/ OpenBlob(r)

HandlerStep(r) ==
    PostStep(r) \/ PollStep(r) \/ CreateStep(r) \/ OwnerStep(r)

Next ==
    \/ \E r \in Request : Arrive(r) \/ HandlerStep(r) \/ Interrupt(r)
    \/ Restart
    \/ Maintenance

Spec == Init /\ [][Next]_vars

\* The thread pool runs every handler that can go on; nothing makes a client
\* send a request or give up waiting.
Fairness == \A r \in Request : WF_vars(HandlerStep(r))

FairSpec == Spec /\ Fairness

-----------------------------------------------------------------------------
(***************************************************************************)
(* Properties.                                                             *)
(***************************************************************************)

Reply == {0, 200, 201, 400, 401, 404, 410, 411, 499, 500, 503}

ControlTypeOK ==
    /\ req \in [Request -> Inputs]
    /\ pc \in [Request -> PC]
    /\ status \in [Request -> Reply]
    /\ afterDeletion \in [Request -> BOOLEAN]
    /\ waiting \in [Request -> SUBSET Request]

BlobTypeOK ==
    /\ containerExists \in BOOLEAN
    /\ blob \in [Request -> {"none", "stored", "deleted"}]

ResponseTypeOK ==
    /\ todo \in [Request -> SUBSET Request]
    /\ sent \in [Request -> SUBSET Request]

TypeOK ==
    TableTypeOK /\ WaitersTypeOK /\ ControlTypeOK /\ BlobTypeOK /\ ResponseTypeOK

\* A post whose client was told that the item is in the inbox.
Accepted(i) == Is(i, "post") /\ status[i] = 200

Stranded(r) == pc[r] = "await" /\ task[r] = "pending"

\* Some poster took r's event from the dictionary and has yet to pulse it.
ToBePulsed(r) == \E p \in Request : pc[p] = "pulse" /\ evt[p] = evt[r]

\* No lost wake-up in GetInboxContentAsync against AlertLongPollWaiter: while
\* an accepted item is in the mailbox, no poll of it is left waiting for a task
\* that nobody is about to complete - unless another session deleted an item
\* of that mailbox.
StrandedOnlyByDeletion ==
    \A r, i \in Request :
        /\ Stranded(r) /\ ~ToBePulsed(r)
        /\ Accepted(i) /\ i \in StoredIn(Mbox(r))
        => \E d \in Request : InMailbox(d, Mbox(r)) /\ blob[d] = "deleted"

\* The same with no exemption, which is what the comment in
\* GetInboxContentAsync on obtaining the task before looking for items aims at.
AcceptedItemWakesPoll ==
    \A r, i \in Request :
        /\ Stranded(r)
        /\ Accepted(i) /\ i \in StoredIn(Mbox(r))
        => ToBePulsed(r)

\* A poll that ends normally has delivered every item that was in the mailbox
\* when it arrived and still is.
PollIsComplete ==
    \A r \in Request :
        Is(r, "poll") /\ pc[r] = "done" /\ status[r] = 200
            => waiting[r] \cap StoredIn(Mbox(r)) \subseteq sent[r]

\* While nobody removes the table, creating an inbox is never put off: the
\* insert that follows Startup.InitializeDatabasesAsync finds the table.
CreationIsNeverPutOff ==
    \A r \in Request : Is(r, "create") => status[r] # 503

\* A request that arrives after the owner was told that the inbox is deleted
\* neither succeeds nor stores or delivers anything, whatever requests that
\* were under way at the time still do to the mailbox.
DeletedMailboxRefusesAll ==
    \A r \in Request : afterDeletion[r] =>
        status[r] # 200 /\ blob[r] = "none" /\ sent[r] = {}

\* What a post is told agrees with what the container holds: an accepted item
\* was stored, and one refused or put off (503: "try again") was not, so that
\* a retry does not store it twice.
PostAnswerIsTruthful ==
    \A r \in Request : Is(r, "post") =>
        /\ status[r] = 200 => blob[r] # "none"
        /\ status[r] \in {400, 404, 410, 411, 503} => blob[r] = "none"

\* Items leave a mailbox, and reach a client, only through a request with the
\* owner's code for that very mailbox; the same for its deletion.
OnlyTheOwner ==
    /\ \A i \in Request : blob[i] = "deleted" =>
          \E d \in Request :
             /\ Is(d, "deleteItem") /\ req[d].code = "owner"
             /\ req[d].item = i /\ Mbox(d) = Mbox(i)
    /\ \A r \in Request : \A i \in sent[r] :
          req[r].code = "owner" /\ Mbox(r) = Mbox(i)
    /\ \A m \in Mailbox : table[m].exists /\ table[m].deleted =>
          \E d \in Request :
             Is(d, "deleteInbox") /\ req[d].code = "owner" /\ Mbox(d) = m

\* Of the requests that delete one item, one at most is told that it did.
OneDeletionSucceeds ==
    \A r, q \in Request :
        /\ r # q /\ Is(r, "deleteItem") /\ Is(q, "deleteItem")
        /\ req[r].item = req[q].item
        => ~(status[r] = 200 /\ status[q] = 200)

\* A long poll answers without an item only if one vanished while it was
\* reading, or the container did not exist.
LongPollAnswersWithItems ==
    [][\A r \in Request :
          /\ Is(r, "poll") /\ req[r].form = "long"
          /\ status[r] = 0 /\ status'[r] = 200 /\ sent'[r] = {}
          => \/ ~containerExists
             \/ \E i \in todo[r] : blob[i] = "deleted"]_vars

\* A long poll of a mailbox that holds an item is answered.
WaitingPollIsAnswered ==
    \A r \in Request :
        Is(r, "poll") /\ pc[r] # "idle" /\ StoredIn(Mbox(r)) # {} ~> pc[r] = "done"

\* So is every request that is not a long poll.
RequestIsAnswered ==
    \A r \in Request :
        pc[r] # "idle" /\ req[r].form # "long" ~> pc[r] = "done"
=============================================================================
