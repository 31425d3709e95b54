----------------------- MODULE InboxControllerProofs -----------------------
(***************************************************************************)
(* The invariants of InboxController, for every set of requests,           *)
(* mailboxes, inputs and faults: the variables keep their types, and a     *)
(* handler only reaches the steps of its own code; no handler's merge      *)
(* undoes what others wrote to the mailbox table; and no wake-up is lost   *)
(* between polls and posts, apart from deletions.                          *)
(***************************************************************************)
EXTENDS InboxInvariants, TLAPS

(***************************************************************************)
(* Type correctness.  One lemma for each part of the state says that the   *)
(* operations on that part keep its type; the theorem puts them together,  *)
(* one step for each action.                                               *)
(***************************************************************************)

\* What a request asks for has the fields of Input.
LEMMA RequestType ==
    ASSUME ControlTypeOK, NEW r \in Request
    PROVE  /\ req[r] \in Input
           /\ Mbox(r) \in Mailbox
           /\ req[r].op \in Op
           /\ req[r].item \in Request \cup {NoItem}
  BY ControllerAssumption DEF ControlTypeOK, Mbox, Input

\* A step that leaves a part of the state alone keeps its type.
LEMMA UnchangedTypes ==
    /\ TableTypeOK /\ UNCHANGED tableVars => TableTypeOK'
    /\ WaitersTypeOK /\ UNCHANGED waiterVars => WaitersTypeOK'
    /\ BlobTypeOK /\ UNCHANGED blobVars => BlobTypeOK'
    /\ ResponseTypeOK /\ UNCHANGED responseVars => ResponseTypeOK'
  <1>1. TableTypeOK /\ UNCHANGED tableVars => TableTypeOK'
    BY DEF TableTypeOK, tableVars
  <1>2. WaitersTypeOK /\ UNCHANGED waiterVars => WaitersTypeOK'
    BY DEF WaitersTypeOK, waiterVars
  <1>3. BlobTypeOK /\ UNCHANGED blobVars => BlobTypeOK'
    BY DEF BlobTypeOK, blobVars
  <1>4. ResponseTypeOK /\ UNCHANGED responseVars => ResponseTypeOK'
    BY DEF ResponseTypeOK, responseVars
  <1>5. QED
    BY <1>1, <1>2, <1>3, <1>4

\* Inserting a new entity, and merging one, write entities.
LEMMA WriteTypes ==
    ASSUME TableTypeOK, NEW m \in Mailbox
    PROVE  /\ InsertMailbox(m) => TableTypeOK'
           /\ \A r \in Request, e \in Entity : MergeMailbox(r, m, e) => TableTypeOK'
  <1>1. InsertMailbox(m) => TableTypeOK'
    BY DEF TableTypeOK, InsertMailbox, Entity, NewEntity
  <1>2. ASSUME NEW r \in Request, NEW e \in Entity, MergeMailbox(r, m, e)
        PROVE  TableTypeOK'
    BY <1>2 DEF TableTypeOK, MergeMailbox, Entity
  <1>3. QED
    BY <1>1, <1>2

\* A lookup copies an entity.
LEMMA LookupTypes ==
    ASSUME TableTypeOK, NEW r \in Request, NEW m \in Mailbox, LookupMailbox(r, m)
    PROVE  TableTypeOK'
  BY DEF TableTypeOK, LookupMailbox

\* So do the creation of the table and what others do to it.
LEMMA TableMaintenanceTypes ==
    ASSUME TableTypeOK
    PROVE  /\ CreateTableIfNotExists => TableTypeOK'
           /\ \A m \in Mailbox : Deactivate(m) => TableTypeOK'
           /\ DropTable => TableTypeOK'
  <1>1. CreateTableIfNotExists => TableTypeOK'
    BY DEF TableTypeOK, CreateTableIfNotExists
  <1>2. ASSUME NEW m \in Mailbox, Deactivate(m)
        PROVE  TableTypeOK'
    BY <1>2 DEF TableTypeOK, Deactivate, Entity
  <1>3. DropTable => TableTypeOK'
    BY DEF TableTypeOK, DropTable, Entity
  <1>4. QED
    BY <1>1, <1>2, <1>3

\* Every operation on the long-poll dictionary and its events keeps its types.
LEMMA WaiterTypes ==
    ASSUME WaitersTypeOK, NEW r \in Request
    PROVE  /\ \A m \in Mailbox : RegisterWaiter(r, m) => WaitersTypeOK'
           /\ \A m \in Mailbox : DetachWaiter(r, m) => WaitersTypeOK'
           /\ WaitOnEvent(r) => WaitersTypeOK'
           /\ PulseEvent(r) => WaitersTypeOK'
  <1>1. ASSUME NEW m \in Mailbox, RegisterWaiter(r, m)
        PROVE  WaitersTypeOK'
    BY <1>1 DEF WaitersTypeOK, RegisterWaiter, NoEvent
  <1>2. ASSUME NEW m \in Mailbox, DetachWaiter(r, m)
        PROVE  WaitersTypeOK'
    BY <1>2 DEF WaitersTypeOK, DetachWaiter, NoEvent
  <1>3. WaitOnEvent(r) => WaitersTypeOK'
    BY DEF WaitersTypeOK, WaitOnEvent
  <1>4. PulseEvent(r) => WaitersTypeOK'
    BY DEF WaitersTypeOK, PulseEvent
  <1>5. QED
    BY <1>1, <1>2, <1>3, <1>4

\* The crash of the process empties the dictionary.
LEMMA LoseWaitersTypes ==
    ASSUME WaitersTypeOK, LoseWaiters
    PROVE  WaitersTypeOK'
  BY DEF WaitersTypeOK, LoseWaiters, NoEvent

\* Blobs are stored and removed, and the container is created.
LEMMA BlobTypes ==
    ASSUME BlobTypeOK, NEW r \in Request
    PROVE  /\ StoreBlob(r) => BlobTypeOK'
           /\ RemoveBlob(r) => BlobTypeOK'
           /\ CreateContainerIfNotExists => BlobTypeOK'
  BY DEF BlobTypeOK, StoreBlob, RemoveBlob, CreateContainerIfNotExists

\* Going on within a handler keeps the control variables' types.
LEMMA GotoTypes ==
    ASSUME ControlTypeOK, NEW r \in Request, NEW l \in PC, Goto(r, l)
    PROVE  ControlTypeOK'
  BY DEF ControlTypeOK, Goto, historyVars

\* So does a response.
LEMMA RespondTypes ==
    ASSUME ControlTypeOK, NEW r \in Request, NEW s \in Reply, Respond(r, s)
    PROVE  ControlTypeOK'
  <1>1. "done" \in PC
    BY DEF PC
  <1>2. QED
    BY <1>1 DEF ControlTypeOK, Respond, historyVars

\* The verdicts and the continuation of the authentication have their types.
LEMMA VerdictTypes ==
    ASSUME NEW in \in Input, NEW e \in Entity
    PROVE  /\ FirstVerdict(in) \in Reply
           /\ AuthenticationVerdict(in, e) \in Reply
           /\ PostVerdict(in, e) \in Reply
           /\ AfterCheck(in.op) \in PC
  <1>1. FirstVerdict(in) \in Reply
    BY DEF FirstVerdict, Reply
  <1>2. AuthenticationVerdict(in, e) \in Reply
    BY DEF AuthenticationVerdict, Reply
  <1>3. PostVerdict(in, e) \in Reply
    BY DEF PostVerdict, Reply
  <1>4. AfterCheck(in.op) \in PC
    BY DEF AfterCheck, PC
  <1>5. QED
    BY <1>1, <1>2, <1>3, <1>4

\* The entities that the handlers judge and merge are entities.
LEMMA EntityTypes ==
    ASSUME TableTypeOK, ControlTypeOK, NEW r \in Request
    PROVE  /\ table[Mbox(r)] \in Entity
           /\ snap[r] \in Entity
           /\ [snap[r] EXCEPT !.deleted = TRUE] \in Entity
  <1>1. table[Mbox(r)] \in Entity /\ snap[r] \in Entity
    BY RequestType DEF TableTypeOK
  <1>2. QED
    BY <1>1 DEF Entity

\* An interrupted handler's storage operation keeps the types of storage.
LEMMA StorageEffectTypes ==
    ASSUME TypeOK, NEW r \in Request,
           StorageEffect(r) \/ UNCHANGED <<tableVars, blobVars>>
    PROVE  TableTypeOK' /\ BlobTypeOK'
  <1> USE DEF TypeOK
  <1>1. CASE \/ MergeMailbox(r, Mbox(r), snap[r]) /\ UNCHANGED blobVars
             \/ /\ MergeMailbox(r, Mbox(r), [snap[r] EXCEPT !.deleted = TRUE])
                /\ UNCHANGED blobVars
    BY <1>1, RequestType, EntityTypes, WriteTypes, UnchangedTypes
  <1>2. CASE (InsertMailbox(Mbox(r)) \/ CreateTableIfNotExists) /\ UNCHANGED blobVars
    BY <1>2, RequestType, WriteTypes, TableMaintenanceTypes, UnchangedTypes
  <1>3. CASE /\ RemoveBlob(r) \/ StoreBlob(r) \/ CreateContainerIfNotExists
             /\ UNCHANGED tableVars
    BY <1>3, BlobTypes, UnchangedTypes
  <1>4. CASE UNCHANGED <<tableVars, blobVars>>
    BY <1>4, UnchangedTypes
  <1>5. QED
    BY <1>1, <1>2, <1>3, <1>4 DEF StorageEffect

\* Hence so have the judgements of a request on its mailbox.
LEMMA JudgementTypes ==
    ASSUME TableTypeOK, ControlTypeOK, NEW r \in Request
    PROVE  /\ FirstVerdict(req[r]) \in Reply
           /\ AuthenticationVerdict(req[r], table[Mbox(r)]) \in Reply
           /\ PostVerdict(req[r], table[Mbox(r)]) \in Reply
           /\ AfterCheck(req[r].op) \in PC
  BY RequestType, EntityTypes, VerdictTypes

\* Answering or going on keeps the control variables' types.
LEMMA RespondOrGotoTypes ==
    ASSUME ControlTypeOK, NEW r \in Request, NEW s \in Reply, NEW l \in PC,
           RespondOrGoto(r, s, l)
    PROVE  ControlTypeOK'
  BY GotoTypes, RespondTypes DEF RespondOrGoto

\* The type invariant: every variable keeps to the values its code can give it.
THEOREM TypeCorrect == Spec => []TypeOK
  <1>1. Init => TypeOK
    <2>1. Init => TableTypeOK /\ WaitersTypeOK
      BY ControllerAssumption
         DEF Init, TableTypeOK, WaitersTypeOK, WaitersInit, Entity, NoEntity, NewEntity, NoEvent
    <2>2. Init => ControlTypeOK /\ BlobTypeOK /\ ResponseTypeOK
      BY DEF Init, ControlTypeOK, BlobTypeOK, ResponseTypeOK, PC, Reply
    <2>3. QED
      BY <2>1, <2>2 DEF TypeOK
  <1>2. TypeOK /\ [Next]_vars => TypeOK'
    <2> SUFFICES ASSUME TypeOK, [Next]_vars
                 PROVE  TypeOK'
      OBVIOUS
    <2> USE UnchangedTypes, GotoTypes, RespondTypes, RequestType DEF TypeOK, PC, Reply
    <2>1. ASSUME NEW r \in Request, CheckLookup(r)
          PROVE  TypeOK'
      BY <2>1, LookupTypes, JudgementTypes, RespondOrGotoTypes DEF CheckLookup
    <2>2. ASSUME NEW r \in Request, Touch(r)
          PROVE  TypeOK'
      <3>1. CASE MergeMailbox(r, Mbox(r), snap[r]) /\ Goto(r, AfterCheck(req[r].op))
        <4>1. TableTypeOK'
          BY <3>1, WriteTypes, EntityTypes
        <4>2. ControlTypeOK'
          BY <3>1, JudgementTypes
        <4>3. QED
          BY <2>2, <4>1, <4>2 DEF Touch
      <3>2. CASE Respond(r, 500) /\ UNCHANGED tableVars
        BY <2>2, <3>2 DEF Touch
      <3>3. QED
        BY <2>2, <3>1, <3>2 DEF Touch
    <2>3. ASSUME NEW r \in Request, Insert(r)
          PROVE  TypeOK'
      BY <2>3, WriteTypes DEF Insert
    <2>4. ASSUME NEW r \in Request, InitTable(r)
          PROVE  TypeOK'
      BY <2>4, TableMaintenanceTypes DEF InitTable
    <2>5. ASSUME NEW r \in Request, InitContainers(r)
          PROVE  TypeOK'
      BY <2>5, BlobTypes DEF InitContainers
    <2>6. ASSUME NEW r \in Request, InsertAgain(r)
          PROVE  TypeOK'
      BY <2>6, WriteTypes DEF InsertAgain
    <2>7. ASSUME NEW r \in Request, MarkDeleted(r)
          PROVE  TypeOK'
      BY <2>7, WriteTypes, EntityTypes DEF MarkDeleted
    <2>8. ASSUME NEW r \in Request, DeleteBlob(r)
          PROVE  TypeOK'
      BY <2>8, BlobTypes DEF DeleteBlob
    <2>9. ASSUME NEW r \in Request, OpenBlob(r)
          PROVE  TypeOK'
      BY <2>9 DEF OpenBlob, ItemFound, StoredIn, ResponseTypeOK
    <2>10. ASSUME NEW r \in Request, PostLookup(r)
          PROVE  TypeOK'
      BY <2>10, JudgementTypes, RespondOrGotoTypes DEF PostLookup
    <2>11. ASSUME NEW r \in Request, Upload(r)
          PROVE  TypeOK'
      BY <2>11, BlobTypes DEF Upload
    <2>12. ASSUME NEW r \in Request, CreateContainer(r)
          PROVE  TypeOK'
      BY <2>12, BlobTypes DEF CreateContainer
    <2>13. ASSUME NEW r \in Request, Alert(r)
          PROVE  TypeOK'
      BY <2>13, WaiterTypes DEF Alert
    <2>14. ASSUME NEW r \in Request, Pulse(r)
          PROVE  TypeOK'
      BY <2>14, WaiterTypes DEF Pulse
    <2>15. ASSUME NEW r \in Request, Register(r)
          PROVE  TypeOK'
      BY <2>15, WaiterTypes DEF Register
    <2>16. ASSUME NEW r \in Request, StartWait(r)
          PROVE  TypeOK'
      BY <2>16, WaiterTypes DEF StartWait
    <2>17. ASSUME NEW r \in Request, List(r)
          PROVE  TypeOK'
      BY <2>17 DEF List, StoredIn, ResponseTypeOK
    <2>18. ASSUME NEW r \in Request, Download(r)
          PROVE  TypeOK'
      BY <2>18 DEF Download, ResponseTypeOK
    <2>19. ASSUME NEW r \in Request, FinishListing(r)
          PROVE  TypeOK'
      BY <2>19 DEF FinishListing
    <2>20. ASSUME NEW r \in Request, Awaken(r)
          PROVE  TypeOK'
      BY <2>20 DEF Awaken
    <2>21. ASSUME NEW r \in Request, Arrive(r)
           PROVE  TypeOK'
      <3>1. ControlTypeOK'
        <4>1. StoredIn(Mbox(r)) \subseteq Request /\ DeletionConfirmed(Mbox(r)) \in BOOLEAN
          BY DEF StoredIn, DeletionConfirmed
        <4>2. QED
          BY <2>21, <4>1, JudgementTypes DEF Arrive, ControlTypeOK
      <3>2. QED
        BY <2>21, <3>1 DEF Arrive
    <2>22. ASSUME NEW r \in Request, Interrupt(r)
           PROVE  TypeOK'
      <3>1. ControlTypeOK'
        BY <2>22 DEF Interrupt, InterruptStatus
      <3>2. TableTypeOK' /\ BlobTypeOK'
        BY <2>22, StorageEffectTypes DEF Interrupt
      <3>3. QED
        BY <2>22, <3>1, <3>2 DEF Interrupt
    <2>23. CASE Restart
      <3>1. ControlTypeOK'
        BY <2>23 DEF Restart, ControlTypeOK, historyVars
      <3>2. QED
        BY <2>23, <3>1, LoseWaitersTypes DEF Restart
    <2>24. CASE Maintenance
      <3>1. ControlTypeOK'
        BY <2>24 DEF Maintenance, ControlTypeOK, historyVars
      <3>2. QED
        BY <2>24, <3>1, TableMaintenanceTypes DEF Maintenance
    <2>25. CASE UNCHANGED vars
      BY <2>25 DEF vars, historyVars, ControlTypeOK
    <2>26. QED
      BY <2>1, <2>2, <2>3, <2>4, <2>5, <2>6, <2>7, <2>8, <2>9,
         <2>10, <2>11, <2>12, <2>13, <2>14, <2>15, <2>16, <2>17,
         <2>18, <2>19, <2>20, <2>21, <2>22, <2>23, <2>24, <2>25
         DEF Next, HandlerStep, PostStep, PollStep, CreateStep, OwnerStep
  <1>3. QED
    BY <1>1, <1>2, PTL DEF Spec

-----------------------------------------------------------------------------
(***************************************************************************)
(* The control flow of the handlers.                                       *)
(***************************************************************************)

\* No step takes a handler to a step of another operation's code, lets it
\* pass the authentication without the owner's code, or answers twice.
LEMMA HandlersInTheirCodeStep ==
    ASSUME TypeOK, HandlersInTheirCode, [Next]_vars
    PROVE  HandlersInTheirCode'
  <1> USE DEF HandlersInTheirCode, TypeOK, ControlTypeOK, PostPC, PollPC, CreatePC,
              OwnerPC, PC, Goto, Respond, RespondOrGoto, historyVars, Is, Mbox
  <1>1. ASSUME NEW r \in Request, Arrive(r)
        PROVE  HandlersInTheirCode'
    BY <1>1 DEF Arrive, FirstVerdict
  <1>2. ASSUME NEW r \in Request, PostStep(r)
        PROVE  HandlersInTheirCode'
    BY <1>2 DEF PostStep, PostLookup, Upload, CreateContainer, Alert, Pulse
  <1>3. ASSUME NEW r \in Request, PollStep(r)
        PROVE  HandlersInTheirCode'
    BY <1>3 DEF PollStep, Register, StartWait, List, Download, FinishListing, Awaken
  <1>4. ASSUME NEW r \in Request, CreateStep(r)
        PROVE  HandlersInTheirCode'
    BY <1>4 DEF CreateStep, Insert, InitTable, InitContainers, InsertAgain
  <1>5. ASSUME NEW r \in Request, OwnerStep(r)
        PROVE  HandlersInTheirCode'
    <2>1. CASE CheckLookup(r)
      BY <2>1 DEF CheckLookup, AuthenticationVerdict
    <2>2. CASE Touch(r)
      <3>1. req[r].op \in Op
        BY RequestType
      <3>2. QED
        BY <2>2, <3>1 DEF Touch, AfterCheck, Op
    <2>3. CASE MarkDeleted(r) \/ DeleteBlob(r) \/ OpenBlob(r)
      BY <2>3 DEF MarkDeleted, DeleteBlob, OpenBlob
    <2>4. QED
      BY <1>5, <2>1, <2>2, <2>3 DEF OwnerStep
  <1>6. ASSUME NEW r \in Request, Interrupt(r)
        PROVE  HandlersInTheirCode'
    BY <1>6 DEF Interrupt
  <1>7. CASE Restart
    BY <1>7 DEF Restart
  <1>8. CASE Maintenance
    BY <1>8 DEF Maintenance
  <1>9. CASE UNCHANGED vars
    BY <1>9 DEF vars
  <1>10. QED
    BY <1>1, <1>2, <1>3, <1>4, <1>5, <1>6, <1>7, <1>8, <1>9 DEF Next, HandlerStep

\* A request whose handler has ended (by an answer, an interruption or a
\* restart) is never resumed.
LEMMA DoneIsFinal ==
    ASSUME TypeOK, [Next]_vars, NEW q \in Request, pc[q] = "done"
    PROVE  pc'[q] = "done"
  <1> USE DEF TypeOK, ControlTypeOK, Goto, Respond, RespondOrGoto
  <1>1. ASSUME NEW r \in Request, Arrive(r) \/ Interrupt(r)
        PROVE  pc'[q] = "done"
    BY <1>1 DEF Arrive, Interrupt
  <1>2. ASSUME NEW r \in Request, PostStep(r) \/ PollStep(r)
        PROVE  pc'[q] = "done"
    BY <1>2 DEF PostStep, PostLookup, Upload, CreateContainer, Alert, Pulse,
         PollStep, Register, StartWait, List, Download, FinishListing, Awaken
  <1>3. ASSUME NEW r \in Request, CreateStep(r) \/ OwnerStep(r)
        PROVE  pc'[q] = "done"
    BY <1>3 DEF CreateStep, Insert, InitTable, InitContainers, InsertAgain,
         OwnerStep, CheckLookup, Touch, MarkDeleted, DeleteBlob, OpenBlob
  <1>4. CASE Restart \/ Maintenance \/ UNCHANGED vars
    BY <1>4 DEF Restart, Maintenance, vars
  <1>5. QED
    BY <1>1, <1>2, <1>3, <1>4 DEF Next, HandlerStep

\* Every handler of InboxController is at a step of its own method, those past
\* CheckInboxAuthenticationAsync have the owner's code, and only one that has
\* ended has a status.
THEOREM HandlersKeepToTheirCode == Spec => []HandlersInTheirCode
  <1>1. Init => HandlersInTheirCode
    BY DEF Init, HandlersInTheirCode, PostPC, PollPC, CreatePC, OwnerPC
  <1>2. TypeOK /\ HandlersInTheirCode /\ [Next]_vars => HandlersInTheirCode'
    BY HandlersInTheirCodeStep
  <1>3. QED
    BY <1>1, <1>2, TypeCorrect, PTL DEF Spec

-----------------------------------------------------------------------------
(***************************************************************************)
(* The mailbox table: no handler's merge of a copy it read earlier undoes  *)
(* what others wrote since.  The argument: a copy that carries the stored  *)
(* entity's ETag equals the stored entity (CopiesMatchETags), so an        *)
(* accepted merge changes only what its handler means to change; and an    *)
(* insert never meets an entity (NamesAreUnused).                          *)
(***************************************************************************)

\* An accepted merge leaves every copy equal to the stored entity or with an
\* older ETag.
LEMMA MergeKeepsCopies ==
    ASSUME TypeOK, CopiesMatchETags, NEW r \in Request, NEW e \in Entity,
           MergeMailbox(r, Mbox(r), e), UNCHANGED req
    PROVE  CopiesMatchETags' /\ snap'[r].exists = e.exists /\ snap'[r].deleted = e.deleted
           /\ \A q \in Request \ {r} : snap'[q] = snap[q]
  <1> DEFINE m == Mbox(r)
  <1>1. m \in Mailbox /\ \A q \in Request : Mbox(q)' = Mbox(q) /\ Mbox(q) \in Mailbox
    BY ControllerAssumption DEF TypeOK, ControlTypeOK, Mbox, Input
  <1>2. PICK merged \in Entity :
           /\ merged.exists = e.exists /\ merged.deleted = e.deleted
           /\ merged.etag = table[m].etag + 1
           /\ table' = [table EXCEPT ![m] = merged]
           /\ snap' = [snap EXCEPT ![r] = merged]
    <2> DEFINE merged == [e EXCEPT !.etag = table[m].etag + 1]
    <2>1. /\ merged \in Entity /\ merged.exists = e.exists /\ merged.deleted = e.deleted
          /\ merged.etag = table[m].etag + 1
      BY <1>1 DEF TypeOK, TableTypeOK, Entity
    <2>2. QED
      BY <2>1 DEF MergeMailbox
  <1>3. CopiesMatchETags'
    BY <1>1, <1>2 DEF CopiesMatchETags, TypeOK, TableTypeOK, Entity
  <1>4. QED
    BY <1>2, <1>3 DEF TypeOK, TableTypeOK

-----------------------------------------------------------------------------
(***************************************************************************)
(* What one step can do to the table.  The lemma TableSteps reduces the    *)
(* twenty-odd actions to these seven cases.                                *)
(***************************************************************************)
TableStep ==
    \/ UNCHANGED tableVars
    \/ \E r \in Request, e \in Entity :
          /\ MergeMailbox(r, Mbox(r), e)
          /\ pc[r] \in {"touch", "markDeleted"}
          /\ e.exists = snap[r].exists /\ e.etag = snap[r].etag
          /\ e.inactive = snap[r].inactive /\ (snap[r].deleted => e.deleted)
    \/ \E r \in Request : LookupMailbox(r, Mbox(r))
    \/ \E r \in Request : InsertMailbox(Mbox(r)) /\ pc[r] \in CreatePC /\ pc'[r] = "done"
    \/ CreateTableIfNotExists
    \/ \E m \in Mailbox : Deactivate(m)
    \/ "dropTable" \in Fault /\ DropTable

\* The two merges of the handlers write their copy, with Deleted set or not.
LEMMA MergersMerge ==
    ASSUME TypeOK, NEW r \in Request,
           pc[r] \in {"touch", "markDeleted"},
           \/ MergeMailbox(r, Mbox(r), snap[r])
           \/ MergeMailbox(r, Mbox(r), [snap[r] EXCEPT !.deleted = TRUE])
    PROVE  TableStep
  <1>1. snap[r] \in Entity
    BY DEF TypeOK, TableTypeOK
  <1>2. CASE MergeMailbox(r, Mbox(r), snap[r])
    BY <1>1, <1>2 DEF TableStep
  <1>3. CASE MergeMailbox(r, Mbox(r), [snap[r] EXCEPT !.deleted = TRUE])
    <2> DEFINE e == [snap[r] EXCEPT !.deleted = TRUE]
    <2>1. /\ e \in Entity /\ e.exists = snap[r].exists /\ e.etag = snap[r].etag
          /\ e.inactive = snap[r].inactive /\ e.deleted
      BY <1>1 DEF Entity
    <2>2. QED
      BY <1>3, <2>1 DEF TableStep
  <1>4. QED
    BY <1>2, <1>3

\* Every step does one of these to the table, and none changes what requests
\* ask for.
LEMMA TableSteps ==
    ASSUME TypeOK, [Next]_vars
    PROVE  TableStep /\ UNCHANGED req
  <1> USE DEF Goto, Respond, RespondOrGoto
  <1>1. UNCHANGED req
    <2>1. ASSUME NEW r \in Request, Arrive(r) \/ Interrupt(r)
          PROVE  UNCHANGED req
      BY <2>1 DEF Arrive, Interrupt
    <2>2. ASSUME NEW r \in Request, PostStep(r) \/ PollStep(r)
          PROVE  UNCHANGED req
      BY <2>2 DEF PostStep, PostLookup, Upload, CreateContainer, Alert, Pulse,
           PollStep, Register, StartWait, List, Download, FinishListing, Awaken
    <2>3. ASSUME NEW r \in Request, CreateStep(r) \/ OwnerStep(r)
          PROVE  UNCHANGED req
      BY <2>3 DEF CreateStep, Insert, InitTable, InitContainers, InsertAgain,
           OwnerStep, CheckLookup, Touch, MarkDeleted, DeleteBlob, OpenBlob
    <2>4. CASE Restart \/ Maintenance \/ UNCHANGED vars
      BY <2>4 DEF Restart, Maintenance, vars
    <2>5. QED
      BY <2>1, <2>2, <2>3, <2>4 DEF Next, HandlerStep
  <1>2. ASSUME NEW r \in Request, Arrive(r) \/ PostStep(r) \/ PollStep(r)
        PROVE  TableStep
    BY <1>2 DEF TableStep, Arrive, PostStep, PostLookup, Upload, CreateContainer,
           Alert, Pulse,
           PollStep, Register, StartWait, List, Download, FinishListing, Awaken
  <1>3. ASSUME NEW r \in Request, CreateStep(r)
        PROVE  TableStep
    <2>1. CASE InitTable(r) \/ InitContainers(r)
      BY <2>1 DEF TableStep, InitTable, InitContainers
    <2>2. CASE Insert(r) \/ InsertAgain(r)
      BY <2>2 DEF TableStep, CreatePC, Insert, InsertAgain, TypeOK, ControlTypeOK
    <2>3. QED
      BY <1>3, <2>1, <2>2 DEF CreateStep
  <1>4. ASSUME NEW r \in Request, OwnerStep(r)
        PROVE  TableStep
    <2>1. CASE CheckLookup(r) \/ DeleteBlob(r) \/ OpenBlob(r)
      BY <2>1 DEF TableStep, CheckLookup, DeleteBlob, OpenBlob
    <2>2. CASE Touch(r) \/ MarkDeleted(r)
      <3>1. CASE UNCHANGED tableVars
        BY <3>1 DEF TableStep
      <3>2. QED
        BY <2>2, <3>1, MergersMerge DEF Touch, MarkDeleted
    <2>3. QED
      BY <1>4, <2>1, <2>2 DEF OwnerStep
  <1>5. ASSUME NEW r \in Request, Interrupt(r)
        PROVE  TableStep
    <2>1. CASE UNCHANGED tableVars
      BY <2>1 DEF TableStep
    <2>2. CASE StorageEffect(r) /\ ~UNCHANGED tableVars
      <3>1. pc'[r] = "done"
        BY <1>5 DEF Interrupt, TypeOK, ControlTypeOK
      <3>2. QED
        BY <2>2, <3>1, MergersMerge DEF StorageEffect, TableStep, CreatePC
    <2>3. QED
      BY <1>5, <2>1, <2>2 DEF Interrupt
  <1>6. CASE Restart \/ UNCHANGED vars
    BY <1>6 DEF TableStep, Restart, vars
  <1>7. CASE Maintenance
    BY <1>7 DEF TableStep, Maintenance
  <1>8. QED
    BY <1>1, <1>2, <1>3, <1>4, <1>5, <1>6, <1>7 DEF Next, HandlerStep

-----------------------------------------------------------------------------

\* Every write gives an entity a new ETag, so no step makes a copy differ from
\* a stored entity with the same ETag.
LEMMA CopiesMatchETagsStep ==
    ASSUME TypeOK, TableInv, [Next]_vars
    PROVE  CopiesMatchETags'
  <1>0. /\ TableStep /\ UNCHANGED req /\ CopiesMatchETags /\ MergersHaveCopies
        /\ \A q \in Request : Mbox(q)' = Mbox(q) /\ Mbox(q) \in Mailbox
    BY TableSteps, ControllerAssumption DEF TypeOK, ControlTypeOK, Mbox, Input, TableInv
  <1> USE DEF CopiesMatchETags, TypeOK, TableTypeOK, Entity
  <1>1. CASE UNCHANGED tableVars
    BY <1>0, <1>1 DEF tableVars
  <1>2. ASSUME NEW r \in Request, NEW e \in Entity, MergeMailbox(r, Mbox(r), e)
        PROVE  CopiesMatchETags'
    BY <1>0, <1>2, MergeKeepsCopies
  <1>3. ASSUME NEW r \in Request, LookupMailbox(r, Mbox(r))
        PROVE  CopiesMatchETags'
    BY <1>0, <1>3 DEF LookupMailbox
  <1>4. ASSUME NEW r \in Request, InsertMailbox(Mbox(r))
        PROVE  CopiesMatchETags'
    BY <1>0, <1>4 DEF InsertMailbox, NewEntity
  <1>5. CASE CreateTableIfNotExists
    BY <1>0, <1>5 DEF CreateTableIfNotExists
  <1>6. ASSUME NEW m \in Mailbox, Deactivate(m)
        PROVE  CopiesMatchETags'
    <2>1. /\ snap' = snap
          /\ table'[m].etag = table[m].etag + 1
          /\ \A n \in Mailbox \ {m} : table'[n] = table[n]
      BY <1>6 DEF Deactivate
    <2>2. QED
      BY <1>0, <2>1
  <1>7. CASE DropTable
    <2>1. /\ snap' = snap
          /\ \A n \in Mailbox : table'[n].etag = table[n].etag /\ table'[n].exists = FALSE
      BY <1>7 DEF DropTable
    <2>2. QED
      BY <1>0, <2>1
  <1>8. QED
    BY <1>0, <1>1, <1>2, <1>3, <1>4, <1>5, <1>6, <1>7 DEF TableStep

\* A handler goes on to a merge only with an entity that its lookup found.
LEMMA MergersHaveCopiesStep ==
    ASSUME TypeOK, TableInv, [Next]_vars
    PROVE  MergersHaveCopies'
  <1> USE DEF TableInv, MergersHaveCopies, TypeOK, ControlTypeOK, TableTypeOK, PC,
              Goto, Respond, RespondOrGoto, tableVars
  <1>1. ASSUME NEW r \in Request, Arrive(r)
        PROVE  MergersHaveCopies'
    BY <1>1 DEF Arrive
  <1>2. ASSUME NEW r \in Request, PostStep(r) \/ PollStep(r)
        PROVE  MergersHaveCopies'
    BY <1>2 DEF PostStep, PostLookup, Upload, CreateContainer, Alert, Pulse,
           PollStep, Register, StartWait, List, Download, FinishListing, Awaken
  <1>3. ASSUME NEW r \in Request, CreateStep(r)
        PROVE  MergersHaveCopies'
    BY <1>3 DEF CreateStep, Insert, InitTable, InitContainers, InsertAgain,
           InsertMailbox, CreateTableIfNotExists
  <1>4. ASSUME NEW r \in Request, OwnerStep(r)
        PROVE  MergersHaveCopies'
    <2>1. CASE CheckLookup(r)
      BY <2>1 DEF CheckLookup, LookupMailbox, AuthenticationVerdict
    <2>2. CASE Touch(r)
      BY <2>2, MergeKeepsCopies DEF Touch
    <2>3. CASE MarkDeleted(r) \/ DeleteBlob(r) \/ OpenBlob(r)
      <3>1. \A q \in Request \ {r} : snap'[q] = snap[q]
        BY <2>3 DEF MarkDeleted, DeleteBlob, OpenBlob, MergeMailbox
      <3>2. pc' = [pc EXCEPT ![r] = "done"]
        BY <2>3 DEF MarkDeleted, DeleteBlob, OpenBlob
      <3>3. QED
        BY <3>1, <3>2
    <2>4. QED
      BY <1>4, <2>1, <2>2, <2>3 DEF OwnerStep
  <1>5. ASSUME NEW r \in Request, Interrupt(r)
        PROVE  MergersHaveCopies'
    <2>1. \A q \in Request \ {r} : snap'[q] = snap[q]
      BY <1>5 DEF Interrupt, StorageEffect, MergeMailbox, InsertMailbox, CreateTableIfNotExists
    <2>2. pc' = [pc EXCEPT ![r] = "done"]
      BY <1>5 DEF Interrupt
    <2>3. QED
      BY <2>1, <2>2
  <1>6. CASE Restart
    BY <1>6 DEF Restart
  <1>7. CASE Maintenance
    BY <1>7 DEF Maintenance, Deactivate, DropTable
  <1>8. CASE UNCHANGED vars
    BY <1>8 DEF vars
  <1>9. QED
    BY <1>1, <1>2, <1>3, <1>4, <1>5, <1>6, <1>7, <1>8 DEF Next, HandlerStep

\* Only the request that creates an inbox inserts its entity.
LEMMA NamesAreUnusedStep ==
    ASSUME TypeOK, HandlersInTheirCode, NamesAreUnused, [Next]_vars
    PROVE  NamesAreUnused'
  <1>1. TableStep /\ UNCHANGED req /\ \A q \in Request : Mbox(q) \in Mailbox
    BY TableSteps, RequestType DEF TypeOK
  <1> SUFFICES ASSUME NEW r \in Request, Is(r, "create"), pc'[r] # "done"
               PROVE  table'[Mbox(r)] = NoEntity
    BY <1>1 DEF NamesAreUnused, FreshNames, Is, Mbox
  <1> DEFINE m == Mbox(r)
  <1>2. m \in Mailbox /\ table[m] = NoEntity /\ ~table[m].exists
    BY <1>1, DoneIsFinal DEF NamesAreUnused, NoEntity
  <1> USE DEF TypeOK, TableTypeOK
  <1>3. ASSUME NEW p \in Request, NEW e \in Entity, MergeMailbox(p, Mbox(p), e)
        PROVE  table'[m] = table[m]
    BY <1>1, <1>2, <1>3 DEF MergeMailbox, MergeAccepted
  <1>4. ASSUME NEW p \in Request, InsertMailbox(Mbox(p)), pc[p] \in CreatePC, pc'[p] = "done"
        PROVE  table'[m] = table[m]
    <2>1. Is(p, "create") /\ p # r
      BY <1>4 DEF HandlersInTheirCode, CreatePC
    <2>2. Mbox(p) # m
      BY <2>1 DEF NamesAreUnused, FreshNames, Is, Mbox
    <2>3. QED
      BY <1>1, <1>2, <1>4, <2>2 DEF InsertMailbox
  <1>5. ASSUME NEW n \in Mailbox, Deactivate(n)
        PROVE  table'[m] = table[m]
    BY <1>2, <1>5 DEF Deactivate
  <1>6. CASE DropTable
    <2>1. /\ table'[m].exists = FALSE /\ table'[m].deleted = table[m].deleted
          /\ table'[m].inactive = table[m].inactive /\ table'[m].etag = table[m].etag
      BY <1>2, <1>6 DEF DropTable, Entity
    <2>2. table'[m] \in Entity /\ table[m] \in Entity
      BY <1>2, <1>6, TableMaintenanceTypes
    <2>3. QED
      BY <1>2, <2>1, <2>2 DEF Entity
  <1>7. CASE \/ UNCHANGED tableVars \/ CreateTableIfNotExists
             \/ \E p \in Request : LookupMailbox(p, Mbox(p))
    BY <1>2, <1>7 DEF tableVars, CreateTableIfNotExists, LookupMailbox
  <1>8. QED
    BY <1>1, <1>2, <1>3, <1>4, <1>5, <1>6, <1>7 DEF TableStep

\* The invariant of the mailbox table under the concurrent lookups, merges and
\* inserts of InboxController.
THEOREM TableInvariant == Spec => []TableInv
  <1>1. Init => TableInv
    <2>1. Init => CopiesMatchETags /\ MergersHaveCopies
      BY DEF Init, CopiesMatchETags, MergersHaveCopies, NoEntity
    <2>2. Init => NamesAreUnused
      BY ControllerAssumption DEF Init, NamesAreUnused, FreshNames, NoEntity, Is, Mbox, Input
    <2>3. QED
      BY <2>1, <2>2 DEF TableInv
  <1>2. TypeOK /\ HandlersInTheirCode /\ TableInv /\ [Next]_vars => TableInv'
    BY CopiesMatchETagsStep, MergersHaveCopiesStep, NamesAreUnusedStep DEF TableInv
  <1>3. QED
    BY <1>1, <1>2, TypeCorrect, HandlersKeepToTheirCode, PTL DEF Spec

\* No older copy that a handler merges undoes a deletion, or a deactivation that
\* the handler has not seen.
THEOREM StaleCopiesAreHarmless == Spec => StaleCopiesUndoNothing
  <1> DEFINE Kept(m) ==
          /\ table[m].exists /\ table'[m].exists /\ table[m].deleted => table'[m].deleted
          /\ table[m].exists /\ table'[m].exists /\ table[m].inactive => table'[m].inactive
  <1>1. ASSUME TypeOK, HandlersInTheirCode, TableInv, [Next]_vars, NEW m \in Mailbox
        PROVE  Kept(m)
    <2>1. TableStep /\ CopiesMatchETags /\ MergersHaveCopies
      BY <1>1, TableSteps DEF TableInv
    <2> USE DEF TypeOK, TableTypeOK, Entity
    <2>2. ASSUME NEW r \in Request, NEW e \in Entity, MergeMailbox(r, Mbox(r), e),
                 pc[r] \in {"touch", "markDeleted"},
                 e.inactive = snap[r].inactive, snap[r].deleted => e.deleted
          PROVE  Kept(m)
      <3>1. Mbox(r) \in Mailbox
        BY <1>1, RequestType
      <3>2. table[Mbox(r)].exists /\ snap[r].exists => snap[r] = table[Mbox(r)]
        BY <2>1, <2>2 DEF MergeMailbox, MergeAccepted, CopiesMatchETags
      <3>3. snap[r].exists
        BY <2>1, <2>2 DEF MergersHaveCopies
      <3>4. m = Mbox(r) => table'[m].deleted = e.deleted /\ table'[m].inactive = e.inactive
        BY <1>1, <2>2, <3>1 DEF MergeMailbox
      <3>5. m # Mbox(r) => table'[m] = table[m]
        BY <1>1, <2>2, <3>1 DEF MergeMailbox
      <3>6. CASE m = Mbox(r)
        BY <2>2, <3>2, <3>3, <3>4, <3>6
      <3>7. QED
        BY <3>5, <3>6
    <2>3. ASSUME NEW r \in Request, InsertMailbox(Mbox(r)), pc[r] \in CreatePC
          PROVE  Kept(m)
      <3>1. ~table[Mbox(r)].exists
        BY <1>1, <2>3 DEF TableInv, NamesAreUnused, NoEntity, HandlersInTheirCode, CreatePC
      <3>2. QED
        BY <1>1, <2>3, <3>1 DEF InsertMailbox
    <2>4. ASSUME NEW n \in Mailbox, Deactivate(n)
          PROVE  Kept(m)
      BY <1>1, <2>4 DEF Deactivate
    <2>5. CASE DropTable
      BY <1>1, <2>5 DEF DropTable
    <2>6. CASE \/ UNCHANGED tableVars \/ CreateTableIfNotExists
               \/ \E r \in Request : LookupMailbox(r, Mbox(r))
      BY <1>1, <2>6 DEF tableVars, CreateTableIfNotExists, LookupMailbox
    <2>7. QED
      BY <2>1, <2>2, <2>3, <2>4, <2>5, <2>6 DEF TableStep
  <1> DEFINE Undoing(m) ==
          table[m].exists /\ table'[m].exists =>
             /\ table[m].deleted => table'[m].deleted
             /\ table[m].inactive /\ ~table'[m].inactive =>
                   \E r \in Request : /\ snap'[r] # snap[r] /\ snap'[r] = table'[m]
                                      /\ snap[r].inactive
  <1>2. TypeOK /\ HandlersInTheirCode /\ TableInv /\ [Next]_vars
            => [\A m \in Mailbox : Undoing(m)]_tableVars
    BY <1>1
  <1>3. QED
    BY <1>2, TypeCorrect, HandlersKeepToTheirCode, TableInvariant, PTL
       DEF Spec, StaleCopiesUndoNothing

\* A creation that has run the initialization finds the table, unless somebody
\* removes it in between, which no code of the relay does.
THEOREM CreationGoesThrough ==
    ASSUME "dropTable" \notin Fault
    PROVE  Spec => []CreationIsNeverPutOff
  <1> DEFINE Initialized ==
          \A r \in Request : pc[r] \in {"initContainers", "insertAgain"} => tableExists
             TableFirst == Initialized /\ CreationIsNeverPutOff
  <1>1. Init => TableFirst
    BY DEF Init, CreationIsNeverPutOff
  <1>2. ASSUME TypeOK, HandlersInTheirCode, TableFirst, [Next]_vars
        PROVE  TableFirst'
    <2> USE DEF TypeOK, TableTypeOK, ControlTypeOK, Goto, Respond, RespondOrGoto,
                CreationIsNeverPutOff, Is
    <2>0. tableExists => tableExists'
      BY <1>2, TableSteps
         DEF TableStep, MergeMailbox, LookupMailbox, InsertMailbox, CreateTableIfNotExists,
             Deactivate, tableVars
    <2>1. ASSUME NEW r \in Request, Arrive(r) \/ Interrupt(r)
          PROVE  TableFirst'
      BY <1>2, <2>0, <2>1 DEF Arrive, FirstVerdict, Interrupt, InterruptStatus
    <2>2. ASSUME NEW r \in Request, PostStep(r) \/ PollStep(r)
          PROVE  TableFirst'
      BY <1>2, <2>0, <2>2
         DEF HandlersInTheirCode, PostPC, PostStep, PostLookup, PostVerdict, Upload,
             CreateContainer, Alert, Pulse,
             PollStep, Register, StartWait, List, Download, FinishListing, Awaken
    <2>3. ASSUME NEW r \in Request, CreateStep(r)
          PROVE  TableFirst'
      BY <1>2, <2>0, <2>3
         DEF CreateStep, Insert, InitTable, InitContainers, InsertAgain,
             CreateTableIfNotExists
    <2>4. ASSUME NEW r \in Request, OwnerStep(r)
          PROVE  TableFirst'
      BY <1>2, <2>0, <2>4
         DEF OwnerStep, CheckLookup, AuthenticationVerdict, Touch, AfterCheck,
             MarkDeleted, DeleteBlob, OpenBlob
    <2>5. CASE Restart \/ Maintenance \/ UNCHANGED vars
      BY <1>2, <2>0, <2>5 DEF Restart, Maintenance, vars
    <2>6. QED
      BY <1>2, <2>1, <2>2, <2>3, <2>4, <2>5 DEF Next, HandlerStep
  <1>3. QED
    BY <1>1, <1>2, TypeCorrect, HandlersKeepToTheirCode, PTL DEF Spec

-----------------------------------------------------------------------------
(***************************************************************************)
(* Waking polls: no wake-up is lost between GetInboxContentAsync and       *)
(* AlertLongPollWaiter, apart from deletions.  The argument follows a poll *)
(* through its registration: while it holds the dictionary's event, every  *)
(* poster that is past taking the event was listed; once a poster took the *)
(* event, that poster either pulses it or had stored its item before the   *)
(* poll listed.                                                            *)
(***************************************************************************)

\* A step of r's handler that leaves the dictionary, every other handler and
\* the listings alone, does not enter or leave the part of the code where polls
\* and posters meet, and at most stores r's own blob or deletes another.
QuietStep(r) ==
    /\ UNCHANGED <<req, waiterVars>>
    /\ pc[r] \notin {"alert", "pulse"}
    /\ pc'[r] \notin {"idle", "wait", "list", "download", "await", "alert", "pulse"}
    /\ \A q \in Request \ {r} : /\ pc'[q] = pc[q]
                                /\ status'[q] = status[q]
                                /\ todo'[q] = todo[q]
                                /\ sent'[q] = sent[q]
    /\ Is(r, "post") => status'[r] # 200
    /\ \A i \in Request : \/ blob'[i] = blob[i]
                          \/ blob[i] = "stored" /\ blob'[i] = "deleted"
                          \/ i = r /\ blob[i] = "none" /\ blob'[i] = "stored"
    /\ pc'[r] \in {"lookup", "upload", "createContainer"}
          => pc[r] \in {"idle", "lookup", "upload"} /\ blob' = blob

\* Such a step keeps the invariant.
LEMMA QuietKeepsWakeUp ==
    ASSUME TypeOK, HandlersInTheirCode, WakeUpInv, NEW r \in Request, QuietStep(r)
    PROVE  WakeUpInv'
  <1> USE DEF QuietStep, WakeUpInv, waiterVars
  <1>1. PostsStoreBeforeAlerting'
    BY DEF PostsStoreBeforeAlerting
  <1>2. PollsAreRegistered'
    BY DEF PollsAreRegistered
  <1>3. DisarmedBeforeListing'
    BY DEF DisarmedBeforeListing, Armed, InMailbox, Is, Mbox
  <1>4. ArmedSinceListing'
    BY DEF ArmedSinceListing, Armed, Listed, StoredIn, InMailbox, Is, Mbox
  <1>5. DisarmedSinceListing'
    BY DEF DisarmedSinceListing, Armed, Listed, ToBePulsed, InMailbox, Is, Mbox
  <1>6. QED
    BY <1>1, <1>2, <1>3, <1>4, <1>5

\* Most actions are such steps.
LEMMA QuietSteps ==
    ASSUME TypeOK, HandlersInTheirCode, WakeUpInv, NEW r \in Request,
           \/ Arrive(r) \/ PostLookup(r) \/ CreateContainer(r) \/ Awaken(r)
           \/ CreateStep(r) \/ OwnerStep(r) \/ Interrupt(r)
    PROVE  QuietStep(r)
  <1> USE DEF QuietStep, TypeOK, ControlTypeOK, BlobTypeOK, ResponseTypeOK,
              HandlersInTheirCode, Goto, Respond, RespondOrGoto,
              historyVars, blobVars, responseVars
  <1>1. CASE Arrive(r)
    BY <1>1 DEF Arrive, FirstVerdict
  <1>2. CASE PostLookup(r) \/ CreateContainer(r)
    BY <1>2 DEF PostLookup, CreateContainer, CreateContainerIfNotExists, PostVerdict
  <1>3. CASE Awaken(r)
    BY <1>3 DEF Awaken, PollPC, Is
  <1>4. CASE CreateStep(r)
    BY <1>4 DEF CreateStep, CreatePC, Is, Insert, InitTable, InitContainers,
           InsertAgain, CreateContainerIfNotExists
  <1>5. CASE OwnerStep(r)
    <2>1. CASE CheckLookup(r)
      BY <2>1 DEF CheckLookup
    <2>2. CASE Touch(r)
      BY <2>2 DEF Touch, AfterCheck
    <2>3. CASE MarkDeleted(r)
      BY <2>3 DEF MarkDeleted, Is
    <2>4. CASE DeleteBlob(r)
      BY <2>4 DEF DeleteBlob, RemoveBlob, ItemFound, StoredIn, Is
    <2>5. CASE OpenBlob(r)
      BY <2>5 DEF OpenBlob, Is
    <2>6. QED
      BY <1>5, <2>1, <2>2, <2>3, <2>4, <2>5 DEF OwnerStep
  <1>6. CASE Interrupt(r)
    <2>1. /\ pc[r] \in AtAwait /\ pc' = [pc EXCEPT ![r] = "done"]
          /\ \A q \in Request \ {r} : status'[q] = status[q]
          /\ status'[r] \in {499, 500}
          /\ UNCHANGED <<req, waiterVars, responseVars>>
      BY <1>6 DEF Interrupt, InterruptStatus
    <2>2. \A i \in Request : \/ blob'[i] = blob[i]
                             \/ blob[i] = "stored" /\ blob'[i] = "deleted"
                             \/ i = r /\ blob[i] = "none" /\ blob'[i] = "stored"
      <3>1. CASE UNCHANGED blobVars
        BY <3>1
      <3>2. CASE RemoveBlob(r)
        BY <3>2 DEF RemoveBlob, ItemFound, StoredIn
      <3>3. CASE pc[r] = "upload" /\ StoreBlob(r)
        BY <3>3 DEF StoreBlob, WakeUpInv, PostsStoreBeforeAlerting
      <3>4. CASE CreateContainerIfNotExists
        BY <3>4 DEF CreateContainerIfNotExists
      <3>5. QED
        BY <1>6, <3>1, <3>2, <3>3, <3>4 DEF Interrupt, StorageEffect
    <2>3. QED
      BY <2>1, <2>2 DEF AtAwait
  <1>7. QED
    BY <1>1, <1>2, <1>3, <1>4, <1>5, <1>6

\* The others are those of the rendezvous; each keeps the invariant too.
LEMMA WakeUpStep ==
    ASSUME TypeOK, HandlersInTheirCode, WakeUpInv, [Next]_vars
    PROVE  WakeUpInv'
  <1> USE DEF TypeOK, WaitersTypeOK, ControlTypeOK, BlobTypeOK, ResponseTypeOK,
              HandlersInTheirCode, WakeUpInv, PostsStoreBeforeAlerting,
              PollsAreRegistered, DisarmedBeforeListing, ArmedSinceListing,
              DisarmedSinceListing, Armed, Listed, ToBePulsed, StoredIn, InMailbox,
              Is, Mbox, Goto, Respond, historyVars, blobVars, responseVars,
              waiterVars, PostPC, PollPC, NoEvent
  <1>1. ASSUME NEW r \in Request, Upload(r)
        PROVE  WakeUpInv'
    <2>1. CASE ~containerExists /\ Goto(r, "createContainer") /\ UNCHANGED blobVars
      BY <1>1, <2>1, QuietKeepsWakeUp DEF Upload, QuietStep
    <2>2. CASE StoreBlob(r) /\ Goto(r, "alert")
      <3>1. /\ pc[r] = "upload" /\ status[r] = 0 /\ blob[r] = "none"
            /\ pc' = [pc EXCEPT ![r] = "alert"] /\ blob' = [blob EXCEPT ![r] = "stored"]
            /\ UNCHANGED <<req, status, waiters, evt, task, todo, sent>>
        BY <1>1, <2>2 DEF Upload, StoreBlob
      <3>2. PostsStoreBeforeAlerting' /\ PollsAreRegistered' /\ DisarmedBeforeListing'
        BY <3>1
      <3>3. ArmedSinceListing'
        BY <3>1
      <3>4. DisarmedSinceListing'
        BY <3>1
      <3>5. QED
        BY <3>2, <3>3, <3>4
    <2>3. QED
      BY <1>1, <2>1, <2>2 DEF Upload
  <1>2. ASSUME NEW r \in Request, Alert(r)
        PROVE  WakeUpInv'
    <2>1. /\ pc[r] = "alert" /\ InMailbox(r, Mbox(r)) /\ blob[r] # "none"
          /\ Mbox(r) \in Mailbox
          /\ evt' = [evt EXCEPT ![r] = waiters[Mbox(r)]]
          /\ waiters' = [waiters EXCEPT ![Mbox(r)] = NoEvent]
          /\ UNCHANGED <<req, blob, task, todo, sent>>
          /\ \A q \in Request \ {r} : pc'[q] = pc[q] /\ status'[q] = status[q]
          /\ \/ waiters[Mbox(r)] # NoEvent /\ pc'[r] = "pulse" /\ status'[r] = 0
             \/ waiters[Mbox(r)] = NoEvent /\ pc'[r] = "done" /\ status'[r] = 200
      BY <1>2, RequestType DEF Alert, DetachWaiter
    <2>2. PostsStoreBeforeAlerting' /\ PollsAreRegistered'
      BY <2>1
    <2>3. DisarmedBeforeListing'
      BY <2>1
    <2>4. ArmedSinceListing'
      BY <2>1
    <2>5. DisarmedSinceListing'
      BY <2>1, SMTT(30)
    <2>6. QED
      BY <2>2, <2>3, <2>4, <2>5
  <1>3. ASSUME NEW r \in Request, Pulse(r)
        PROVE  WakeUpInv'
    BY <1>3 DEF Pulse, PulseEvent
  <1>4. ASSUME NEW r \in Request, Register(r)
        PROVE  WakeUpInv'
    BY <1>4, RequestType DEF Register, RegisterWaiter
  <1>5. ASSUME NEW r \in Request, StartWait(r)
        PROVE  WakeUpInv'
    BY <1>5 DEF StartWait, WaitOnEvent
  <1>6. ASSUME NEW r \in Request, List(r)
        PROVE  WakeUpInv'
    BY <1>6 DEF List
  <1>7. ASSUME NEW r \in Request, Download(r)
        PROVE  WakeUpInv'
    <2>1. PostsStoreBeforeAlerting' /\ PollsAreRegistered' /\ DisarmedBeforeListing'
      BY <1>7 DEF Download
    <2>2. ArmedSinceListing'
      BY <1>7 DEF Download
    <2>3. DisarmedSinceListing'
      BY <1>7 DEF Download
    <2>4. QED
      BY <2>1, <2>2, <2>3
  <1>8. ASSUME NEW r \in Request, FinishListing(r)
        PROVE  WakeUpInv'
    BY <1>8 DEF FinishListing
  <1>9. CASE Restart
    BY <1>9 DEF Restart, LoseWaiters
  <1>10. CASE Maintenance
    BY <1>10 DEF Maintenance
  <1>11. CASE UNCHANGED vars
    BY <1>11 DEF vars
  <1>12. QED
    BY <1>1, <1>2, <1>3, <1>4, <1>5, <1>6, <1>7, <1>8, <1>9, <1>10, <1>11,
       QuietSteps, QuietKeepsWakeUp
       DEF Next, HandlerStep, PostStep, PollStep

\* The invariant of the rendezvous of polls and posters, under aborted requests,
\* storage failures and restarts.
THEOREM WakeUpInvariant == Spec => []WakeUpInv
  <1>1. Init => WakeUpInv
    BY DEF Init, WakeUpInv, PostsStoreBeforeAlerting, PollsAreRegistered, DisarmedBeforeListing,
           ArmedSinceListing, DisarmedSinceListing, Listed
  <1>2. TypeOK /\ HandlersInTheirCode /\ WakeUpInv /\ [Next]_vars => WakeUpInv'
    BY WakeUpStep
  <1>3. QED
    BY <1>1, <1>2, TypeCorrect, HandlersKeepToTheirCode, PTL DEF Spec

\* No lost wake-up: an accepted item never leaves a long poll of its mailbox
\* waiting for a task that nobody will complete, unless an item of that mailbox
\* was deleted.
THEOREM NoLostWakeUp == Spec => []StrandedOnlyByDeletion
  <1>1. WakeUpInv => StrandedOnlyByDeletion
    <2> SUFFICES ASSUME WakeUpInv, NEW r \in Request, NEW i \in Request,
                        Stranded(r), ~ToBePulsed(r), Accepted(i), i \in StoredIn(Mbox(r))
                 PROVE  \E d \in Request : InMailbox(d, Mbox(r)) /\ blob[d] = "deleted"
      BY DEF StrandedOnlyByDeletion
    <2>1. Listed(r) /\ todo[r] = {} /\ sent[r] = {}
      BY DEF WakeUpInv, PollsAreRegistered, Listed, Stranded
    <2>2. ~Armed(r)
      BY <2>1 DEF WakeUpInv, ArmedSinceListing, Accepted
    <2>3. QED
      BY <2>1, <2>2 DEF WakeUpInv, DisarmedSinceListing, Stranded
  <1>2. QED
    BY <1>1, WakeUpInvariant, PTL

-----------------------------------------------------------------------------
(***************************************************************************)
(* What a poll delivers.                                                   *)
(***************************************************************************)

\* Where no request deletes items, a poll that ends normally has delivered every
\* item that was in the mailbox when it arrived, whatever posts, deletions of the
\* mailbox, failures and restarts come in between.
THEOREM PollsAreComplete ==
    ASSUME \A in \in Inputs : in.op # "deleteItem"
    PROVE  Spec => []PollIsComplete
  <1> DEFINE NothingDeleted == \A i \in Request : blob[i] # "deleted"
             InContainer == \A i \in Request : blob[i] # "none" => containerExists
             StillThere ==
                \A r \in Request : \A i \in waiting[r] \cup todo[r] :
                   InMailbox(i, Mbox(r)) /\ blob[i] = "stored"
             Delivered ==
                \A r \in Request :
                   /\ pc[r] \in {"download", "await"} => waiting[r] \subseteq todo[r] \cup sent[r]
                   /\ pc[r] = "await" => todo[r] = {} /\ sent[r] = {}
                   /\ Is(r, "poll") /\ status[r] = 200 => waiting[r] \subseteq sent[r]
             Complete == NothingDeleted /\ InContainer /\ StillThere /\ Delivered
  <1>1. Init => Complete
    BY DEF Init
  <1>2. ASSUME TypeOK, HandlersInTheirCode, Complete, [Next]_vars
        PROVE  Complete'
    <2> USE DEF TypeOK, ControlTypeOK, BlobTypeOK, ResponseTypeOK, HandlersInTheirCode,
                Goto, Respond, RespondOrGoto, blobVars, responseVars, historyVars,
                StoredIn, InMailbox, Is, Mbox
    <2>1. \A r \in Request : pc[r] # "deleteBlob"
      BY <1>2
    <2>2. ASSUME NEW r \in Request, Arrive(r)
          PROVE  Complete'
      BY <1>2, <2>2 DEF Arrive, FirstVerdict
    <2>3. ASSUME NEW r \in Request, PostStep(r)
          PROVE  Complete'
      BY <1>2, <2>3
         DEF PostPC, PostStep, PostLookup, Upload, StoreBlob, CreateContainer,
             CreateContainerIfNotExists, Alert, Pulse
    <2>4. ASSUME NEW r \in Request, PollStep(r)
          PROVE  Complete'
      <3>1. CASE List(r)
        BY <1>2, <3>1 DEF List
      <3>2. CASE Download(r)
        <4>1. PICK i \in todo[r] :
                 /\ pc[r] = "download"
                 /\ \/ /\ sent' = [sent EXCEPT ![r] = @ \cup {i}]
                       /\ todo' = [todo EXCEPT ![r] = @ \ {i}]
                       /\ Goto(r, "download")
                    \/ blob[i] # "stored"
          BY <3>2 DEF Download
        <4>2. blob[i] = "stored"
          BY <1>2, <4>1
        <4>3. /\ pc' = pc /\ UNCHANGED <<status, req, waiting, blob, containerExists>>
              /\ sent' = [sent EXCEPT ![r] = @ \cup {i}]
              /\ todo' = [todo EXCEPT ![r] = @ \ {i}]
          BY <1>2, <3>2, <4>1, <4>2 DEF Download
        <4>4. NothingDeleted' /\ InContainer' /\ StillThere'
          BY <1>2, <4>3
        <4>5. Delivered'
          BY <1>2, <4>1, <4>3
        <4>6. QED
          BY <4>4, <4>5
      <3>3. CASE FinishListing(r)
        BY <1>2, <3>3 DEF FinishListing
      <3>4. CASE Register(r) \/ StartWait(r) \/ Awaken(r)
        BY <1>2, <3>4 DEF Register, StartWait, Awaken
      <3>5. QED
        BY <2>4, <3>1, <3>2, <3>3, <3>4 DEF PollStep
    <2>5. ASSUME NEW r \in Request, CreateStep(r) \/ OwnerStep(r)
          PROVE  Complete'
      <3>1. CASE CreateStep(r)
        BY <1>2, <3>1
           DEF CreatePC, CreateStep, Insert, InitTable, InitContainers, InsertAgain,
               CreateContainerIfNotExists
      <3>2. CASE CheckLookup(r) \/ Touch(r)
        BY <1>2, <3>2 DEF CheckLookup, AuthenticationVerdict, Touch, AfterCheck
      <3>3. CASE MarkDeleted(r) \/ DeleteBlob(r) \/ OpenBlob(r)
        BY <1>2, <2>1, <3>3 DEF MarkDeleted, DeleteBlob, OpenBlob
      <3>4. QED
        BY <2>5, <3>1, <3>2, <3>3 DEF OwnerStep
    <2>6. ASSUME NEW r \in Request, Interrupt(r)
          PROVE  Complete'
      BY <1>2, <2>1, <2>6
         DEF Interrupt, InterruptStatus, StorageEffect, StoreBlob,
             CreateContainerIfNotExists, PostPC
    <2>7. CASE Restart \/ Maintenance \/ UNCHANGED vars
      BY <1>2, <2>7 DEF Restart, Maintenance, vars
    <2>8. QED
      BY <1>2, <2>2, <2>3, <2>4, <2>5, <2>6, <2>7 DEF Next, HandlerStep
  <1>3. Complete => PollIsComplete
    BY DEF PollIsComplete
  <1>4. QED
    BY <1>1, <1>2, <1>3, TypeCorrect, HandlersKeepToTheirCode, PTL DEF Spec

-----------------------------------------------------------------------------
(***************************************************************************)
(* What is stored, and the inductive invariant as a whole.                 *)
(***************************************************************************)

\* Every write gives an entity a new ETag.
LEMMA EntitiesHaveETagsStep ==
    ASSUME TypeOK, EntitiesHaveETags, [Next]_vars
    PROVE  EntitiesHaveETags'
  <1>1. TableStep /\ \A q \in Request : Mbox(q) \in Mailbox
    BY TableSteps, RequestType DEF TypeOK
  <1> USE DEF TypeOK, TableTypeOK, Entity, EntitiesHaveETags
  <1>2. ASSUME NEW r \in Request, NEW e \in Entity, MergeMailbox(r, Mbox(r), e)
        PROVE  EntitiesHaveETags'
    <2>1. table'[Mbox(r)].etag = table[Mbox(r)].etag + 1
      BY <1>1, <1>2 DEF MergeMailbox
    <2>2. \A m \in Mailbox \ {Mbox(r)} : table'[m] = table[m]
      BY <1>1, <1>2 DEF MergeMailbox
    <2>3. QED
      BY <1>1, <2>1, <2>2
  <1>3. ASSUME NEW r \in Request, InsertMailbox(Mbox(r))
        PROVE  EntitiesHaveETags'
    BY <1>1, <1>3 DEF InsertMailbox, NewEntity
  <1>4. ASSUME NEW m \in Mailbox, Deactivate(m)
        PROVE  EntitiesHaveETags'
    BY <1>4 DEF Deactivate
  <1>5. CASE DropTable
    BY <1>5 DEF DropTable
  <1>6. CASE \/ UNCHANGED tableVars \/ CreateTableIfNotExists
             \/ \E r \in Request : LookupMailbox(r, Mbox(r))
    BY <1>6 DEF tableVars, CreateTableIfNotExists, LookupMailbox
  <1>7. QED
    BY <1>1, <1>2, <1>3, <1>4, <1>5, <1>6 DEF TableStep

\* Blobs are stored in the container only, and it stays.
LEMMA BlobsAreInTheContainerStep ==
    ASSUME TypeOK, BlobsAreInTheContainer, [Next]_vars
    PROVE  BlobsAreInTheContainer'
  <1> USE DEF TypeOK, BlobTypeOK, BlobsAreInTheContainer, blobVars
  <1>1. CASE UNCHANGED blobVars
    BY <1>1
  <1>2. ASSUME NEW r \in Request, StoreBlob(r) \/ RemoveBlob(r) \/ CreateContainerIfNotExists
        PROVE  BlobsAreInTheContainer'
    BY <1>2 DEF StoreBlob, RemoveBlob, ItemFound, CreateContainerIfNotExists
  <1>3. ASSUME NEW r \in Request, Arrive(r) \/ PostStep(r) \/ PollStep(r)
        PROVE  BlobsAreInTheContainer'
    BY <1>1, <1>2, <1>3
       DEF Arrive, PostStep, PostLookup, Upload, CreateContainer, Alert, Pulse,
           PollStep, Register, StartWait, List, Download, FinishListing, Awaken
  <1>4. ASSUME NEW r \in Request, CreateStep(r) \/ OwnerStep(r)
        PROVE  BlobsAreInTheContainer'
    BY <1>1, <1>2, <1>4
       DEF CreateStep, Insert, InitTable, InitContainers, InsertAgain,
           OwnerStep, CheckLookup, Touch, MarkDeleted, DeleteBlob, OpenBlob
  <1>5. ASSUME NEW r \in Request, Interrupt(r)
        PROVE  BlobsAreInTheContainer'
    BY <1>1, <1>2, <1>5 DEF Interrupt, StorageEffect
  <1>6. CASE Restart \/ Maintenance \/ UNCHANGED vars
    BY <1>1, <1>6 DEF Restart, Maintenance, vars
  <1>7. QED
    BY <1>3, <1>4, <1>5, <1>6 DEF Next, HandlerStep

\* Only List, Download and OpenBlob change what a response holds, and they look
\* in the mailbox of the request.
LEMMA PollsStayInTheirMailboxStep ==
    ASSUME TypeOK, PollsStayInTheirMailbox, [Next]_vars
    PROVE  PollsStayInTheirMailbox'
  <1>0. UNCHANGED req
    BY TableSteps
  <1> USE <1>0 DEF TypeOK, ResponseTypeOK, PollsStayInTheirMailbox, responseVars,
                   InMailbox, Is, Mbox
  <1>1. CASE UNCHANGED responseVars
    BY <1>1
  <1>2. ASSUME NEW r \in Request, Arrive(r) \/ PostStep(r) \/ CreateStep(r) \/ Interrupt(r)
        PROVE  PollsStayInTheirMailbox'
    BY <1>1, <1>2
       DEF Arrive, PostStep, PostLookup, Upload, CreateContainer, Alert, Pulse,
           CreateStep, Insert, InitTable, InitContainers, InsertAgain, Interrupt
  <1>3. ASSUME NEW r \in Request, PollStep(r)
        PROVE  PollsStayInTheirMailbox'
    <2>1. CASE List(r)
      BY <2>1 DEF List, StoredIn
    <2>2. CASE Download(r)
      BY <2>2 DEF Download
    <2>3. CASE UNCHANGED responseVars
      BY <1>1, <2>3
    <2>4. QED
      BY <1>3, <2>1, <2>2, <2>3
         DEF PollStep, Register, StartWait, FinishListing, Awaken
  <1>4. ASSUME NEW r \in Request, OwnerStep(r)
        PROVE  PollsStayInTheirMailbox'
    <2>1. CASE OpenBlob(r)
      BY <2>1 DEF OpenBlob, ItemFound, StoredIn
    <2>2. CASE UNCHANGED responseVars
      BY <1>1, <2>2
    <2>3. QED
      BY <1>4, <2>1, <2>2 DEF OwnerStep, CheckLookup, Touch, MarkDeleted, DeleteBlob
  <1>5. CASE Restart \/ Maintenance \/ UNCHANGED vars
    BY <1>1, <1>5 DEF Restart, Maintenance, vars
  <1>6. QED
    BY <1>2, <1>3, <1>4, <1>5 DEF Next, HandlerStep

\* A listing holds what was stored, and no blob is ever as if it had not been.
LEMMA ListedItemsWereStoredStep ==
    ASSUME TypeOK, ListedItemsWereStored, [Next]_vars
    PROVE  ListedItemsWereStored'
  <1> USE DEF TypeOK, BlobTypeOK, ResponseTypeOK, ListedItemsWereStored, blobVars, responseVars
  <1>1. ASSUME UNCHANGED responseVars, \A i \in Request : blob[i] # "none" => blob'[i] # "none"
        PROVE  ListedItemsWereStored'
    BY <1>1
  <1>2. CASE UNCHANGED blobVars /\ UNCHANGED responseVars
    BY <1>2
  <1>3. ASSUME NEW r \in Request, StoreBlob(r) \/ RemoveBlob(r) \/ CreateContainerIfNotExists
        PROVE  \A i \in Request : blob[i] # "none" => blob'[i] # "none"
    BY <1>3 DEF StoreBlob, RemoveBlob, CreateContainerIfNotExists
  <1>4. ASSUME NEW r \in Request, Arrive(r) \/ PostStep(r) \/ CreateStep(r)
        PROVE  ListedItemsWereStored'
    BY <1>1, <1>2, <1>3, <1>4
       DEF Arrive, PostStep, PostLookup, Upload, CreateContainer, Alert, Pulse,
           CreateStep, Insert, InitTable, InitContainers, InsertAgain
  <1>5. ASSUME NEW r \in Request, PollStep(r)
        PROVE  ListedItemsWereStored'
    <2>1. CASE List(r)
      BY <2>1 DEF List, StoredIn
    <2>2. CASE Download(r)
      BY <2>2 DEF Download
    <2>3. QED
      BY <1>2, <1>5, <2>1, <2>2
         DEF PollStep, Register, StartWait, FinishListing, Awaken
  <1>6. ASSUME NEW r \in Request, OwnerStep(r)
        PROVE  ListedItemsWereStored'
    <2>1. CASE OpenBlob(r)
      BY <2>1 DEF OpenBlob, ItemFound, StoredIn
    <2>2. QED
      BY <1>1, <1>2, <1>3, <1>6, <2>1
         DEF OwnerStep, CheckLookup, Touch, MarkDeleted, DeleteBlob
  <1>7. ASSUME NEW r \in Request, Interrupt(r)
        PROVE  ListedItemsWereStored'
    BY <1>1, <1>2, <1>3, <1>7 DEF Interrupt, StorageEffect
  <1>8. CASE Restart \/ Maintenance \/ UNCHANGED vars
    BY <1>2, <1>8 DEF Restart, Maintenance, vars
  <1>9. QED
    BY <1>4, <1>5, <1>6, <1>7, <1>8 DEF Next, HandlerStep

\* The invariant of the whole controller, under aborted requests, failing
\* storage, restarts, deactivation and loss of the table.
THEOREM WholeInvariant == Spec => []IInv
  <1>1. Init => StorageInv
    BY DEF Init, StorageInv, EntitiesHaveETags, BlobsAreInTheContainer,
           PollsStayInTheirMailbox, ListedItemsWereStored, NewEntity, NoEntity
  <1>2. TypeOK /\ StorageInv /\ [Next]_vars => StorageInv'
    BY EntitiesHaveETagsStep, BlobsAreInTheContainerStep, PollsStayInTheirMailboxStep,
       ListedItemsWereStoredStep DEF StorageInv
  <1>3. Spec => []StorageInv
    BY <1>1, <1>2, TypeCorrect, PTL DEF Spec
  <1>4. QED
    BY <1>3, TypeCorrect, HandlersKeepToTheirCode, TableInvariant, WakeUpInvariant, PTL
       DEF IInv

\* A long poll that answers without an item listed one that another session
\* deleted before it was downloaded, or found no container.
THEOREM EmptyAnswersAreExcused == Spec => LongPollAnswersWithItems
  <1> DEFINE Excused(r) ==
          /\ Is(r, "poll") /\ req[r].form = "long"
          /\ status[r] = 0 /\ status'[r] = 200 /\ sent'[r] = {}
          => \/ ~containerExists
             \/ \E i \in todo[r] : blob[i] = "deleted"
  <1>1. ASSUME IInv, [Next]_vars, NEW r \in Request, Is(r, "poll"), req[r].form = "long",
               status[r] = 0, status'[r] = 200, sent'[r] = {}
        PROVE  ~containerExists \/ \E i \in todo[r] : blob[i] = "deleted"
    <2> USE DEF IInv, TypeOK, ControlTypeOK, BlobTypeOK, ResponseTypeOK, Goto, Respond,
                RespondOrGoto, HandlersInTheirCode, Is
    <2>1. CASE List(r)
      BY <1>1, <2>1 DEF List
    <2>2. CASE Download(r)
      BY <1>1, <2>2 DEF Download, StorageInv, ListedItemsWereStored
    <2>3. CASE FinishListing(r)
      BY <1>1, <2>3 DEF FinishListing, responseVars
    <2>4. ASSUME NEW q \in Request \ {r}, Arrive(q) \/ HandlerStep(q) \/ Interrupt(q)
          PROVE  FALSE
      <3>1. status'[r] = status[r]
        BY <1>1, <2>4
           DEF Arrive, Interrupt, HandlerStep,
               PostStep, PostLookup, Upload, CreateContainer, Alert, Pulse,
               PollStep, Register, StartWait, List, Download, FinishListing, Awaken,
               CreateStep, Insert, InitTable, InitContainers, InsertAgain,
               OwnerStep, CheckLookup, Touch, MarkDeleted, DeleteBlob, OpenBlob
      <3>2. QED
        BY <1>1, <3>1
    <2>5. CASE Restart \/ Maintenance \/ UNCHANGED vars
      BY <1>1, <2>5 DEF Restart, Maintenance, vars
    <2>6. CASE Arrive(r) \/ Interrupt(r)
      BY <1>1, <2>6 DEF Arrive, FirstVerdict, Interrupt, InterruptStatus
    <2>7. CASE PostStep(r) \/ CreateStep(r)
      BY <1>1, <2>7
         DEF PostPC, CreatePC, PostStep, PostLookup, Upload, CreateContainer, Alert, Pulse,
             CreateStep, Insert, InitTable, InitContainers, InsertAgain
    <2>8. CASE OwnerStep(r)
      BY <1>1, <2>8
         DEF OwnerStep, CheckLookup, AuthenticationVerdict, Touch, MarkDeleted,
             DeleteBlob, OpenBlob
    <2>9. CASE Register(r) \/ StartWait(r) \/ Awaken(r)
      BY <1>1, <2>9 DEF Register, StartWait, Awaken
    <2>10. QED
      BY <1>1, <2>1, <2>2, <2>3, <2>4, <2>5, <2>6, <2>7, <2>8, <2>9
         DEF Next, HandlerStep, PollStep
  <1>2. IInv /\ [Next]_vars => [\A r \in Request : Excused(r)]_vars
    BY <1>1
  <1>3. QED
    BY <1>2, WholeInvariant, PTL DEF Spec, LongPollAnswersWithItems
=============================================================================
