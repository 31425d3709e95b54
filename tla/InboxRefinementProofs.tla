----------------------- MODULE InboxRefinementProofs -----------------------
(***************************************************************************)
(* Proof that InboxController implements RelayService, and what follows    *)
(* from it for the code.  The argument: IInv holds throughout, so that a   *)
(* merge writes what its handler means to write, a handler past the check  *)
(* has the owner's code, and blobs are where the handlers look for them;   *)
(* then each handler's step is either one step of its request in           *)
(* RelayService or changes nothing that its client can see.                *)
(***************************************************************************)
EXTENDS InboxControllerProofs, InboxRefinement

(***************************************************************************)
(* What the pieces of a handler's step are under the mapping.              *)
(***************************************************************************)

\* Going on within a handler moves its request to the phase of its new place,
\* and is invisible when that is the phase of the old one.
LEMMA GotoMapped ==
    ASSUME ControlTypeOK, NEW r \in Request, NEW l \in PC, Goto(r, l)
    PROVE  /\ phaseMap' = [phaseMap EXCEPT ![r] = PhaseOf(l)]
           /\ PhaseOf(l) = phaseMap[r] => UNCHANGED Service!callVars
           /\ UNCHANGED <<req, status, afterDeletion>>
  <1>1. \A q \in Request : pc'[q] = IF q = r THEN l ELSE pc[q]
    BY DEF Goto, ControlTypeOK
  <1>2. phaseMap' = [phaseMap EXCEPT ![r] = PhaseOf(l)]
    BY <1>1 DEF phaseMap
  <1>3. PhaseOf(l) = phaseMap[r] => phaseMap' = phaseMap
    BY <1>2 DEF phaseMap
  <1>4. QED
    BY <1>2, <1>3 DEF Goto, historyVars, Service!callVars

\* A response ends its request with its status.
LEMMA RespondMapped ==
    ASSUME ControlTypeOK, NEW r \in Request, NEW s, Respond(r, s)
    PROVE  Service!Finish(r, s)
  <1>1. \A q \in Request : pc'[q] = IF q = r THEN "done" ELSE pc[q]
    BY DEF Respond, ControlTypeOK
  <1>2. PhaseOf("done") = "over"
    BY DEF PhaseOf, OwnerPC, PostPC, PollPC
  <1>3. phaseMap' = [phaseMap EXCEPT ![r] = "over"]
    BY <1>1, <1>2 DEF phaseMap
  <1>4. QED
    BY <1>3 DEF Respond, historyVars, Service!Finish

\* The phases of the handlers' places.
LEMMA Phases ==
    ASSUME NEW r \in Request, pc[r] \in PC
    PROVE  /\ pc[r] = "idle" => phaseMap[r] = "unsent"
           /\ pc[r] \in {"lookup"} \cup CreatePC => phaseMap[r] = "sent"
           /\ pc[r] \in OwnerPC \cup PostPC => phaseMap[r] = "admitted"
           /\ pc[r] = "done" => phaseMap[r] = "over"
  <1>1. phaseMap[r] = PhaseOf(pc[r])
    BY DEF phaseMap
  <1>2. /\ PhaseOf("idle") = "unsent" /\ PhaseOf("done") = "over"
        /\ \A l \in {"lookup"} \cup CreatePC : PhaseOf(l) = "sent"
    BY DEF PhaseOf, OwnerPC, PostPC, PollPC, CreatePC
  <1>3. \A l \in OwnerPC \cup PostPC : PhaseOf(l) = "admitted"
    <2>1. \A l \in OwnerPC \cup PostPC : l # "idle" /\ l # "done"
      BY DEF OwnerPC, PostPC, PollPC
    <2>2. QED
      BY <2>1 DEF PhaseOf
  <1>4. QED
    BY <1>1, <1>2, <1>3

\* A write to one mailbox changes one account, or none if its meaning is the
\* same.
LEMMA WriteMapped ==
    ASSUME TableTypeOK, NEW m \in Mailbox, NEW e, table' = [table EXCEPT ![m] = e]
    PROVE  /\ accountMap' = [accountMap EXCEPT ![m] = AccountOf(e)]
           /\ AccountOf(e) = AccountOf(table[m]) => accountMap' = accountMap
  <1>1. \A n \in Mailbox : table'[n] = IF n = m THEN e ELSE table[n]
    BY DEF TableTypeOK
  <1>2. \A n \in Mailbox : AccountOf(table'[n]) = IF n = m THEN AccountOf(e) ELSE AccountOf(table[n])
    BY <1>1
  <1>3. QED
    BY <1>2 DEF accountMap

\* An accepted merge by one of the handlers.
LEMMA MergeMapped ==
    ASSUME IInv, NEW r \in Request, pc[r] \in {"touch", "markDeleted"}
    PROVE  /\ MergeMailbox(r, Mbox(r), snap[r]) => accountMap' = accountMap
           /\ MergeMailbox(r, Mbox(r), [snap[r] EXCEPT !.deleted = TRUE])
                => /\ accountMap' = [accountMap EXCEPT ![Mbox(r)] = "closed"]
                   /\ accountMap[Mbox(r)] \in {"open", "suspended"}
  <1> DEFINE m == Mbox(r)
             e == [snap[r] EXCEPT !.deleted = TRUE]
  <1>1. /\ TableTypeOK /\ m \in Mailbox /\ table[m] \in Entity
        /\ snap[r] \in Entity /\ snap[r].exists /\ ~snap[r].deleted
    BY RequestType DEF IInv, TypeOK, TableInv, MergersHaveCopies, TableTypeOK
  <1>2. MergeAccepted(r, m) => snap[r] = table[m]
    BY <1>1 DEF IInv, TableInv, CopiesMatchETags, MergeAccepted
  <1>3. ASSUME MergeMailbox(r, m, snap[r])
        PROVE  accountMap' = accountMap
    <2> DEFINE w == [snap[r] EXCEPT !.etag = table[m].etag + 1]
    <2>1. table' = [table EXCEPT ![m] = w] /\ snap[r] = table[m]
      BY <1>2, <1>3 DEF MergeMailbox
    <2>2. AccountOf(w) = AccountOf(table[m])
      BY <1>1, <2>1 DEF AccountOf, Entity
    <2>3. QED
      BY <1>1, <2>1, <2>2, WriteMapped
  <1>4. ASSUME MergeMailbox(r, m, e)
        PROVE  /\ accountMap' = [accountMap EXCEPT ![m] = "closed"]
               /\ accountMap[m] \in {"open", "suspended"}
    <2> DEFINE w == [e EXCEPT !.etag = table[m].etag + 1]
    <2>1. table' = [table EXCEPT ![m] = w] /\ snap[r] = table[m]
      BY <1>2, <1>4 DEF MergeMailbox
    <2>2. AccountOf(w) = "closed"
      BY <1>1 DEF AccountOf, Entity
    <2>3. accountMap[m] \in {"open", "suspended"}
      <3>1. table[m].exists /\ ~table[m].deleted
        BY <1>1, <2>1
      <3>2. accountMap[m] = AccountOf(table[m])
        BY <1>1 DEF accountMap
      <3>3. AccountOf(table[m]) \in {"open", "suspended"}
        BY <1>1, <3>1 DEF AccountOf, Entity
      <3>4. QED
        BY <3>2, <3>3
    <2> HIDE DEF w, m
    <2>4. accountMap' = [accountMap EXCEPT ![m] = AccountOf(w)]
      BY <1>1, <2>1, WriteMapped
    <2>5. QED
      BY <2>2, <2>3, <2>4
  <1>5. QED
    BY <1>3, <1>4

\* The insert of a new inbox.
LEMMA InsertMapped ==
    ASSUME IInv, NEW r \in Request, pc[r] \in CreatePC, InsertMailbox(Mbox(r))
    PROVE  /\ accountMap[Mbox(r)] = "none"
           /\ accountMap' = [accountMap EXCEPT ![Mbox(r)] = "open"]
  <1>1. TableTypeOK /\ Mbox(r) \in Mailbox /\ table[Mbox(r)] = NoEntity
    BY RequestType
       DEF IInv, TypeOK, TableInv, NamesAreUnused, HandlersInTheirCode, CreatePC
  <1>2. AccountOf(NoEntity) = "none" /\ AccountOf(NewEntity(table[Mbox(r)].etag + 1)) = "open"
    BY DEF AccountOf, NoEntity, NewEntity
  <1>3. QED
    BY <1>1, <1>2, WriteMapped DEF InsertMailbox, accountMap

\* The item of a request is found where RelayService says.
LEMMA FoundMapped ==
    ASSUME IInv, NEW r \in Request
    PROVE  ItemFound(r) <=> Service!Here(r)
  BY DEF IInv, StorageInv, BlobsAreInTheContainer, ItemFound, StoredIn, InMailbox, Is, Mbox,
         Service!Here, Service!ItemOf, Service!For

-----------------------------------------------------------------------------
(***************************************************************************)
(* Each step of the code is a step of RelayService, or invisible.          *)
(***************************************************************************)

\* What no client sees.
Invisible == UNCHANGED <<Service!callVars, accountMap, blob, sent>>

\* A step that leaves the table, the blobs and what is sent alone.
LEMMA QuietMapped ==
    /\ UNCHANGED tableVars => UNCHANGED accountMap
    /\ UNCHANGED blobVars => UNCHANGED blob
    /\ UNCHANGED responseVars => UNCHANGED sent
  BY DEF tableVars, blobVars, responseVars, accountMap

\* The steps of a post.
LEMMA PostMapped ==
    ASSUME IInv, NEW r \in Request, PostStep(r)
    PROVE  Service!Entry(r) \/ Service!Effect(r) \/ Invisible
  <1>0. /\ ControlTypeOK /\ pc[r] \in PC /\ Is(r, "post") /\ Service!Wants(r, "post")
        /\ Mbox(r) \in Mailbox /\ Service!For(r) = Mbox(r)
        /\ accountMap[Mbox(r)] = AccountOf(table[Mbox(r)])
        /\ table[Mbox(r)] \in Entity
    BY RequestType
       DEF PostStep, PostLookup, Upload, CreateContainer, Alert, Pulse, IInv, TypeOK,
           ControlTypeOK, TableTypeOK, HandlersInTheirCode, PostPC, Is, Mbox,
           Service!Wants, Service!For, accountMap
  <1>1. CASE PostLookup(r)
    <2>1. phaseMap[r] = "sent" /\ UNCHANGED <<accountMap, blob, sent>>
      BY <1>0, <1>1, Phases, QuietMapped DEF PostLookup
    <2>2. CASE Goto(r, "upload") /\ PostVerdict(req[r], table[Mbox(r)]) = 0
      <3>1. accountMap[Mbox(r)] = "open"
        BY <1>0, <2>2 DEF PostVerdict, AccountOf
      <3>2. PhaseOf("upload") = "admitted" /\ "upload" \in PC
        BY DEF PhaseOf, PostPC, PC
      <3>3. Service!MoveTo(r, "admitted")
        BY <1>0, <2>2, <3>2, GotoMapped DEF Service!MoveTo
      <3>4. QED
        BY <1>0, <2>1, <3>1, <3>3
           DEF Service!Entry, Service!Admit, Service!stateVars, Service!Wants
    <2>3. CASE Respond(r, 500)
      <3>1. Service!GiveUp(r)
        BY <1>0, <2>1, <2>3, RespondMapped DEF Service!GiveUp, Service!Lost, Service!stateVars
      <3>2. QED
        BY <3>1 DEF Service!Entry
    <2>4. ASSUME NEW s, s = PostVerdict(req[r], table[Mbox(r)]), s \notin {0, 500}, Respond(r, s)
          PROVE  Service!Refuse(r)
      <3>1. Service!Finish(r, s)
        BY <1>0, <2>4, RespondMapped
      <3>2. \/ s = 404 /\ accountMap[Mbox(r)] \in {"none", "closed", "lost"}
            \/ s = 410 /\ accountMap[Mbox(r)] \in {"suspended", "closed"}
            \/ s = 400 /\ req[r].form \in {"tooLarge", "tooLong"}
        BY <1>0, <2>4 DEF PostVerdict, AccountOf, Entity
      <3>3. QED
        BY <1>0, <2>1, <3>1, <3>2
           DEF Service!Refuse, Service!stateVars, Service!Wants
    <2>5. QED
      BY <1>1, <2>2, <2>3, <2>4 DEF PostLookup, RespondOrGoto, Service!Entry
  <1>2. ~PostLookup(r) => phaseMap[r] = "admitted" /\ UNCHANGED <<accountMap, sent>>
    BY <1>0, Phases, QuietMapped
       DEF PostStep, Upload, CreateContainer, Alert, Pulse, PostPC
  <1>3. \A k \in {"alert", "pulse", "createContainer"} :
           k \in PC /\ PhaseOf(k) = "admitted"
    <2>1. \A k \in {"alert", "pulse", "createContainer"} :
             k \in PC /\ k \in PostPC /\ k # "idle" /\ k # "done"
      BY DEF PC, PostPC
    <2>2. QED
      BY <2>1 DEF PhaseOf
  <1>4. CASE Upload(r) /\ ~PostLookup(r)
    <2>1. CASE StoreBlob(r) /\ Goto(r, "alert")
      <3>1. blob[r] = "none"
        BY <1>4 DEF Upload, IInv, WakeUpInv, PostsStoreBeforeAlerting
      <3>2. UNCHANGED Service!callVars
        BY <1>0, <1>2, <1>3, <1>4, <2>1, GotoMapped
      <3>3. Service!Deposit(r)
        BY <1>0, <1>2, <1>4, <2>1, <3>1, <3>2 DEF Service!Deposit, StoreBlob
      <3>4. QED
        BY <3>3 DEF Service!Effect
    <2>2. CASE Goto(r, "createContainer") /\ UNCHANGED blobVars
      BY <1>0, <1>2, <1>3, <1>4, <2>2, GotoMapped, QuietMapped DEF Invisible
    <2>3. QED
      BY <1>4, <2>1, <2>2 DEF Upload
  <1>5. CASE CreateContainer(r) /\ ~PostLookup(r)
    <2>1. blob[r] = "none" /\ UNCHANGED blob /\ Respond(r, 503)
      BY <1>5 DEF CreateContainer, CreateContainerIfNotExists, IInv, WakeUpInv,
             PostsStoreBeforeAlerting
    <2>2. Service!GiveUp(r)
      BY <1>0, <1>2, <1>5, <2>1, RespondMapped DEF Service!GiveUp, Service!stateVars
    <2>3. QED
      BY <2>2 DEF Service!Entry
  <1>6. CASE (Alert(r) \/ Pulse(r)) /\ ~PostLookup(r)
    <2>1. blob[r] # "none" /\ UNCHANGED blob
      BY <1>6, QuietMapped DEF Alert, Pulse, IInv, WakeUpInv, PostsStoreBeforeAlerting
    <2>2. CASE Goto(r, "pulse")
      BY <1>0, <1>2, <1>3, <1>6, <2>1, <2>2, GotoMapped DEF Invisible
    <2>3. CASE Respond(r, 200)
      <3>1. Service!Accept(r)
        BY <1>0, <1>2, <1>6, <2>1, <2>3, RespondMapped DEF Service!Accept, Service!stateVars
      <3>2. QED
        BY <3>1 DEF Service!Effect
    <2>4. QED
      BY <1>6, <2>2, <2>3 DEF Alert, Pulse
  <1>7. QED
    BY <1>1, <1>4, <1>5, <1>6 DEF PostStep

\* The steps of a poll.
LEMMA PollMapped ==
    ASSUME IInv, NEW r \in Request, PollStep(r)
    PROVE  Service!Effect(r) \/ Invisible
  <1>0. /\ ControlTypeOK /\ ResponseTypeOK /\ Service!Wants(r, "poll")
        /\ phaseMap[r] = "admitted"
        /\ UNCHANGED <<accountMap, blob>>
    <2>1. pc[r] \in PollPC /\ pc[r] \in PC
      BY DEF PollStep, Register, StartWait, List, Download, FinishListing, Awaken,
             PollPC, IInv, TypeOK, ControlTypeOK
    <2>2. phaseMap[r] = "admitted" /\ Is(r, "poll")
      BY <2>1, Phases DEF OwnerPC, IInv, HandlersInTheirCode
    <2>3. QED
      BY <2>2, QuietMapped
         DEF PollStep, Register, StartWait, List, Download, FinishListing, Awaken,
             IInv, TypeOK, Is, Service!Wants
  <1>1. \A k \in PollPC : k \in PC /\ PhaseOf(k) = "admitted"
    <2>1. \A k \in PollPC : k \in PC /\ k \in OwnerPC /\ k # "idle" /\ k # "done"
      BY DEF PC, PollPC, OwnerPC
    <2>2. QED
      BY <2>1 DEF PhaseOf
  <1>2. CASE UNCHANGED sent /\ \E k \in PollPC : Goto(r, k)
    BY <1>0, <1>1, <1>2, GotoMapped DEF Invisible
  <1>3. CASE UNCHANGED sent /\ Respond(r, 200)
    BY <1>0, <1>3, RespondMapped
       DEF Service!Effect, Service!EndOfPoll, Service!stateVars
  <1>4. ASSUME NEW i \in todo[r], blob[i] = "stored", Goto(r, "download"),
               sent' = [sent EXCEPT ![r] = @ \cup {i}]
        PROVE  Service!Effect(r)
    <2>1. i \in Request /\ Service!ItemOf(i, Service!For(r))
      BY <1>0, <1>4 DEF IInv, StorageInv, PollsStayInTheirMailbox, ResponseTypeOK,
             InMailbox, Is, Mbox, Service!ItemOf, Service!For
    <2>2. UNCHANGED Service!callVars
      BY <1>0, <1>1, <1>4, GotoMapped DEF PollPC
    <2>3. QED
      BY <1>0, <1>4, <2>1, <2>2 DEF Service!Effect, Service!Read
  <1>5. CASE Register(r) \/ StartWait(r) \/ FinishListing(r) \/ Awaken(r)
    BY <1>2, <1>3, <1>5, QuietMapped
       DEF Register, StartWait, FinishListing, Awaken, PollPC
  <1>6. CASE List(r)
    BY <1>2, <1>3, <1>6 DEF List, PollPC
  <1>7. CASE Download(r)
    BY <1>3, <1>4, <1>7, QuietMapped DEF Download
  <1>8. QED
    BY <1>5, <1>6, <1>7 DEF PollStep

\* The steps of a creation.
LEMMA CreateMapped ==
    ASSUME IInv, NEW r \in Request, CreateStep(r)
    PROVE  Service!Entry(r) \/ Service!Effect(r) \/ Invisible
  <1>0. /\ ControlTypeOK /\ pc[r] \in CreatePC /\ Service!Wants(r, "create")
        /\ phaseMap[r] = "sent" /\ Service!For(r) = Mbox(r)
        /\ UNCHANGED <<blob, sent>>
    <2>1. pc[r] \in CreatePC /\ pc[r] \in PC
      BY DEF CreateStep, Insert, InitTable, InitContainers, InsertAgain, CreatePC,
             IInv, TypeOK, ControlTypeOK
    <2>2. phaseMap[r] = "sent" /\ Is(r, "create")
      BY <2>1, Phases DEF IInv, HandlersInTheirCode
    <2>3. UNCHANGED <<blob, sent>>
      BY QuietMapped DEF CreateStep, Insert, InitTable, InitContainers, InsertAgain,
             CreateContainerIfNotExists
    <2>4. QED
      BY <2>1, <2>2, <2>3 DEF IInv, TypeOK, Is, Mbox, Service!Wants, Service!For
  <1>1. \A k \in CreatePC : k \in PC /\ PhaseOf(k) = "sent"
    BY DEF PC, CreatePC, PhaseOf, OwnerPC, PostPC, PollPC
  <1>2. CASE UNCHANGED accountMap /\ \E k \in CreatePC : Goto(r, k)
    BY <1>0, <1>1, <1>2, GotoMapped DEF Invisible
  <1>3. CASE InsertMailbox(Mbox(r)) /\ Respond(r, 201)
    BY <1>0, <1>3, InsertMapped, RespondMapped DEF Service!Effect, Service!Create
  <1>4. CASE UNCHANGED accountMap /\ Respond(r, 503)
    BY <1>0, <1>4, RespondMapped DEF Service!Entry, Service!GiveUp, Service!stateVars
  <1>5. CASE InitTable(r)
    <2>1. UNCHANGED accountMap
      BY <1>5 DEF InitTable, CreateTableIfNotExists, accountMap
    <2>2. QED
      BY <1>2, <1>5, <2>1 DEF InitTable, CreatePC
  <1>6. CASE Insert(r) \/ InsertAgain(r) \/ InitContainers(r)
    BY <1>2, <1>3, <1>4, <1>6, QuietMapped DEF Insert, InsertAgain, InitContainers, CreatePC
  <1>7. QED
    BY <1>5, <1>6 DEF CreateStep

\* The steps of the owner's other requests and of every authentication.
LEMMA OwnerMapped ==
    ASSUME IInv, NEW r \in Request, OwnerStep(r)
    PROVE  Service!Entry(r) \/ Service!Effect(r) \/ Invisible
  <1>0. /\ ControlTypeOK /\ pc[r] \in PC /\ Service!For(r) = Mbox(r) /\ Mbox(r) \in Mailbox
        /\ accountMap[Mbox(r)] = AccountOf(table[Mbox(r)])
        /\ table[Mbox(r)] \in Entity
    BY RequestType
       DEF IInv, TypeOK, ControlTypeOK, TableTypeOK, Mbox, Service!For, accountMap
  <1>1. CASE CheckLookup(r)
    <2>1. /\ phaseMap[r] = "sent" /\ ~Service!Wants(r, "create") /\ ~Service!Wants(r, "post")
          /\ UNCHANGED <<accountMap, blob, sent>>
      BY <1>0, <1>1, Phases, QuietMapped
         DEF CheckLookup, LookupMailbox, IInv, HandlersInTheirCode, Is, Service!Wants,
             accountMap
    <2>2. CASE Goto(r, "touch") /\ AuthenticationVerdict(req[r], table[Mbox(r)]) = 0
      <3>1. /\ req[r].code = "owner"
            /\ \/ accountMap[Mbox(r)] = "open"
               \/ accountMap[Mbox(r)] = "suspended" /\ req[r].op = "deleteInbox"
        BY <1>0, <2>2 DEF AuthenticationVerdict, AccountOf, Entity
      <3>2. PhaseOf("touch") = "admitted" /\ "touch" \in PC
        BY DEF PhaseOf, OwnerPC, PC
      <3>3. Service!MoveTo(r, "admitted")
        BY <1>0, <2>2, <3>2, GotoMapped DEF Service!MoveTo
      <3>4. QED
        BY <1>0, <2>1, <3>1, <3>3
           DEF Service!Entry, Service!Admit, Service!stateVars, Service!Wants
    <2>3. CASE Respond(r, 500)
      <3>1. Service!GiveUp(r)
        BY <1>0, <2>1, <2>3, RespondMapped DEF Service!GiveUp, Service!Lost, Service!stateVars
      <3>2. QED
        BY <3>1 DEF Service!Entry
    <2>4. ASSUME NEW s, s = AuthenticationVerdict(req[r], table[Mbox(r)]), s # 0, Respond(r, s)
          PROVE  Service!Refuse(r)
      <3>1. Service!Finish(r, s)
        BY <1>0, <2>4, RespondMapped
      <3>2. \/ s = 404 /\ accountMap[Mbox(r)] \in {"none", "closed", "lost"}
            \/ s = 410 /\ accountMap[Mbox(r)] \in {"suspended", "closed"}
            \/ s = 401 /\ req[r].code # "owner"
        BY <1>0, <2>4 DEF AuthenticationVerdict, AccountOf, Entity
      <3>3. QED
        BY <1>0, <2>1, <3>1, <3>2
           DEF Service!Refuse, Service!stateVars, Service!Wants
    <2>5. QED
      BY <1>1, <2>2, <2>3, <2>4 DEF CheckLookup, RespondOrGoto, Service!Entry
  <1>2. pc[r] \in OwnerPC => phaseMap[r] = "admitted"
    BY <1>0, Phases
  <1>3. CASE phaseMap[r] = "admitted" /\ Respond(r, 500) /\ UNCHANGED <<accountMap, blob, sent>>
    BY <1>0, <1>3, RespondMapped
       DEF Service!Entry, Service!GiveUp, Service!Lost, Service!stateVars
  <1>4. CASE Touch(r)
    <2>1. UNCHANGED <<accountMap, blob, sent>> /\ phaseMap[r] = "admitted"
      BY <1>2, <1>4, MergeMapped, QuietMapped DEF Touch, OwnerPC
    <2>2. CASE Goto(r, AfterCheck(req[r].op))
      <3>1. /\ AfterCheck(req[r].op) \in {"markDeleted", "deleteBlob", "openBlob", "register"}
        BY DEF AfterCheck
      <3>2. \A k \in {"markDeleted", "deleteBlob", "openBlob", "register"} :
               k \in PC /\ PhaseOf(k) = "admitted"
        <4>1. \A k \in {"markDeleted", "deleteBlob", "openBlob", "register"} :
                 k \in PC /\ k \in OwnerPC /\ k # "idle" /\ k # "done"
          BY DEF PC, PollPC, OwnerPC
        <4>2. QED
          BY <4>1 DEF PhaseOf
      <3>3. QED
        BY <1>0, <2>1, <2>2, <3>1, <3>2, GotoMapped DEF Invisible
    <2>3. QED
      BY <1>3, <1>4, <2>1, <2>2 DEF Touch
  <1>5. CASE MarkDeleted(r)
    <2>1. /\ phaseMap[r] = "admitted" /\ Service!Wants(r, "deleteInbox")
          /\ UNCHANGED <<blob, sent>>
      BY <1>2, <1>5, QuietMapped
         DEF MarkDeleted, OwnerPC, IInv, HandlersInTheirCode, Is, Service!Wants
    <2>2. CASE MergeMailbox(r, Mbox(r), [snap[r] EXCEPT !.deleted = TRUE]) /\ Respond(r, 200)
      <3>1. Service!Close(r)
        BY <1>0, <1>5, <2>1, <2>2, MergeMapped, RespondMapped DEF MarkDeleted, Service!Close
      <3>2. QED
        BY <3>1 DEF Service!Effect
    <2>3. QED
      BY <1>3, <1>5, <2>1, <2>2, QuietMapped DEF MarkDeleted
  <1>6. CASE DeleteBlob(r)
    <2>1. /\ phaseMap[r] = "admitted" /\ Service!Wants(r, "deleteItem")
          /\ UNCHANGED <<accountMap, sent>>
      BY <1>2, <1>6, QuietMapped
         DEF DeleteBlob, OwnerPC, IInv, HandlersInTheirCode, Is, Service!Wants
    <2>2. CASE RemoveBlob(r) /\ Respond(r, 200)
      <3>1. Service!Withdraw(r)
        BY <1>0, <2>1, <2>2, FoundMapped, RespondMapped DEF RemoveBlob, Service!Withdraw
      <3>2. QED
        BY <3>1 DEF Service!Effect
    <2>3. CASE ~ItemFound(r) /\ Respond(r, 404) /\ UNCHANGED blobVars
      <3>1. Service!NothingToWithdraw(r)
        BY <1>0, <2>1, <2>3, FoundMapped, RespondMapped, QuietMapped
           DEF Service!NothingToWithdraw, Service!stateVars
      <3>2. QED
        BY <3>1 DEF Service!Effect
    <2>4. QED
      BY <1>6, <2>2, <2>3 DEF DeleteBlob
  <1>7. CASE OpenBlob(r)
    <2>1. /\ phaseMap[r] = "admitted" /\ Service!Wants(r, "getItem")
          /\ UNCHANGED <<accountMap, blob>>
      BY <1>2, <1>7, QuietMapped
         DEF OpenBlob, OwnerPC, IInv, HandlersInTheirCode, Is, Service!Wants
    <2>2. CASE ItemFound(r) /\ Respond(r, 200) /\ sent' = [sent EXCEPT ![r] = {req[r].item}]
      <3>1. Service!HandOut(r)
        BY <1>0, <2>1, <2>2, FoundMapped, RespondMapped DEF Service!HandOut
      <3>2. QED
        BY <3>1 DEF Service!Effect
    <2>3. QED
      BY <1>3, <1>7, <2>1, <2>2, QuietMapped DEF OpenBlob
  <1>8. QED
    BY <1>1, <1>4, <1>5, <1>6, <1>7 DEF OwnerStep

\* An interrupted handler: its operation took effect, or it did nothing.
LEMMA InterruptMapped ==
    ASSUME IInv, NEW r \in Request, Interrupt(r)
    PROVE  Service!Entry(r) \/ Service!Effect(r)
  <1>1. PICK s \in Service!Lost : Service!Finish(r, s)
    BY RespondMapped DEF Interrupt, InterruptStatus, Service!Lost, IInv, TypeOK
  <1>2. /\ ControlTypeOK /\ pc[r] \in PC /\ Service!For(r) = Mbox(r)
        /\ pc[r] \in AtAwait /\ UNCHANGED sent
    BY QuietMapped DEF Interrupt, IInv, TypeOK, ControlTypeOK, Mbox, Service!For
  <1>3. phaseMap[r] \in {"sent", "admitted"}
    <2>1. pc[r] \in {"lookup"} \cup CreatePC \cup OwnerPC \cup PostPC
      BY <1>2 DEF AtAwait, PC, CreatePC, OwnerPC, PollPC, PostPC
    <2>2. QED
      BY <1>2, <2>1, Phases
  <1>4. CASE UNCHANGED accountMap /\ UNCHANGED blob
    BY <1>1, <1>2, <1>3, <1>4 DEF Service!Entry, Service!GiveUp, Service!stateVars
  <1>5. CASE pc[r] = "touch" /\ MergeMailbox(r, Mbox(r), snap[r]) /\ UNCHANGED blobVars
    BY <1>4, <1>5, MergeMapped, QuietMapped
  <1>6. CASE /\ pc[r] = "markDeleted"
             /\ MergeMailbox(r, Mbox(r), [snap[r] EXCEPT !.deleted = TRUE])
             /\ UNCHANGED blobVars
    <2>1. phaseMap[r] = "admitted" /\ Service!Wants(r, "deleteInbox")
      BY <1>2, <1>6, Phases DEF OwnerPC, IInv, HandlersInTheirCode, Is, Service!Wants
    <2>2. Service!Close(r)
      BY <1>1, <1>2, <1>6, <2>1, MergeMapped, QuietMapped DEF Service!Close
    <2>3. QED
      BY <2>2 DEF Service!Effect
  <1>7. CASE /\ pc[r] \in {"insert", "insertAgain"}
             /\ InsertMailbox(Mbox(r)) /\ UNCHANGED blobVars
    <2>1. pc[r] \in CreatePC
      BY <1>7 DEF CreatePC
    <2>2. phaseMap[r] = "sent" /\ Service!Wants(r, "create")
      BY <1>2, <2>1, Phases DEF IInv, HandlersInTheirCode, Is, Service!Wants
    <2>3. Service!Create(r)
      BY <1>1, <1>2, <1>7, <2>1, <2>2, InsertMapped, QuietMapped DEF Service!Create
    <2>4. QED
      BY <2>3 DEF Service!Effect
  <1>8. CASE pc[r] = "deleteBlob" /\ RemoveBlob(r) /\ UNCHANGED tableVars
    <2>1. phaseMap[r] = "admitted" /\ Service!Wants(r, "deleteItem")
      BY <1>2, <1>8, Phases DEF OwnerPC, IInv, HandlersInTheirCode, Is, Service!Wants
    <2>2. Service!Withdraw(r)
      BY <1>1, <1>2, <1>8, <2>1, FoundMapped, QuietMapped DEF RemoveBlob, Service!Withdraw
    <2>3. QED
      BY <2>2 DEF Service!Effect
  <1>9. CASE pc[r] = "upload" /\ StoreBlob(r) /\ UNCHANGED tableVars
    <2>1. phaseMap[r] = "admitted" /\ Service!Wants(r, "post") /\ blob[r] = "none"
      BY <1>2, <1>9, Phases
         DEF PostPC, IInv, HandlersInTheirCode, Is, Service!Wants, WakeUpInv,
             PostsStoreBeforeAlerting
    <2>2. Service!Deposit(r)
      BY <1>1, <1>2, <1>9, <2>1, QuietMapped DEF StoreBlob, Service!Deposit
    <2>3. QED
      BY <2>2 DEF Service!Effect
  <1>10. CASE pc[r] = "initTable" /\ CreateTableIfNotExists /\ UNCHANGED blobVars
    BY <1>4, <1>10, QuietMapped DEF CreateTableIfNotExists, accountMap
  <1>11. CASE /\ pc[r] \in {"initContainers", "createContainer"}
              /\ CreateContainerIfNotExists /\ UNCHANGED tableVars
    BY <1>4, <1>11, QuietMapped DEF CreateContainerIfNotExists
  <1>12. CASE UNCHANGED <<tableVars, blobVars>>
    BY <1>4, <1>12, QuietMapped
  <1>13. QED
    BY <1>5, <1>6, <1>7, <1>8, <1>9, <1>10, <1>11, <1>12 DEF Interrupt, StorageEffect

\* An arrival.
LEMMA ArriveMapped ==
    ASSUME IInv, NEW r \in Request, Arrive(r)
    PROVE  Service!Send(r)
  <1> DEFINE v == FirstVerdict(req[r])
             l == IF v # 0 THEN "done" ELSE IF Is(r, "create") THEN "insert" ELSE "lookup"
  <1>1. /\ pc[r] = "idle" /\ pc' = [pc EXCEPT ![r] = l]
        /\ status' = [status EXCEPT ![r] = v] /\ UNCHANGED req
        /\ status \in [Request -> Reply] /\ status[r] = 0 /\ pc \in [Request -> PC]
        /\ UNCHANGED <<accountMap, blob, sent>>
    BY QuietMapped DEF Arrive, IInv, TypeOK, ControlTypeOK, HandlersInTheirCode
  <1>2. afterDeletion' = [afterDeletion EXCEPT ![r] = Service!DeletionAnswered(Service!For(r))]
    BY DEF Arrive, DeletionConfirmed, Is, Mbox, Service!DeletionAnswered, Service!Wants,
           Service!For
  <1>3. phaseMap[r] = "unsent"
    BY <1>1, Phases
  <1>4. phaseMap' = [phaseMap EXCEPT ![r] = PhaseOf(l)]
    <2>1. \A q \in Request : pc'[q] = IF q = r THEN l ELSE pc[q]
      BY <1>1
    <2>2. QED
      BY <2>1 DEF phaseMap
  <1>5. /\ PhaseOf("done") = "over" /\ PhaseOf("insert") = "sent" /\ PhaseOf("lookup") = "sent"
    BY DEF PhaseOf, OwnerPC, PostPC, PollPC
  <1>6. CASE v = 0
    <2>1. status' = status /\ phaseMap' = [phaseMap EXCEPT ![r] = "sent"]
      BY <1>1, <1>4, <1>5, <1>6
    <2>2. QED
      BY <1>1, <1>2, <1>3, <2>1 DEF Service!Send, Service!stateVars
  <1>7. CASE v # 0
    <2>1. phaseMap' = [phaseMap EXCEPT ![r] = "over"]
      BY <1>4, <1>5, <1>7
    <2>2. v \in {400, 401, 411} /\ Service!RefusedUnseen(r)
      BY <1>1, <1>7 DEF FirstVerdict, Service!RefusedUnseen, Service!Wants
    <2>3. \/ status' = [status EXCEPT ![r] = 400]
          \/ status' = [status EXCEPT ![r] = 401]
          \/ status' = [status EXCEPT ![r] = 411]
      <3> HIDE DEF v
      <3>1. v = 400 \/ v = 401 \/ v = 411
        BY <2>2
      <3>2. QED
        BY <1>1, <3>1, Zenon
    <2>4. \E s \in {400, 401, 411} : status' = [status EXCEPT ![r] = s]
      <3>1. CASE status' = [status EXCEPT ![r] = 400]
        BY <3>1, Zenon
      <3>2. CASE status' = [status EXCEPT ![r] = 401]
        BY <3>2, Zenon
      <3>3. CASE status' = [status EXCEPT ![r] = 411]
        BY <3>3, Zenon
      <3>4. QED
        BY <2>3, <3>1, <3>2, <3>3, Zenon
    <2>5. QED
      BY <1>1, <1>2, <1>3, <2>1, <2>2, <2>4 DEF Service!Send, Service!stateVars
  <1>8. QED
    BY <1>6, <1>7

\* What happens around the handlers.
LEMMA EnvironmentMapped ==
    ASSUME IInv, Restart \/ Maintenance \/ UNCHANGED vars
    PROVE  [Service!ServiceNext]_Service!serviceVars
  <1> USE DEF Service!serviceVars, Service!callVars, Service!stateVars
  <1>1. CASE Restart
    <2>1. \A q \in Request : PhaseOf(pc'[q]) = IF phaseMap[q] = "unsent" THEN "unsent" ELSE "over"
      BY <1>1 DEF Restart, phaseMap, PhaseOf, OwnerPC, PostPC, PollPC
    <2>2. phaseMap' = [q \in Request |-> IF phaseMap[q] = "unsent" THEN "unsent" ELSE "over"]
      BY <2>1 DEF phaseMap
    <2>3. Service!Crash
      BY <1>1, <2>2, QuietMapped DEF Restart, historyVars, Service!Crash
    <2>4. QED
      BY <2>3 DEF Service!ServiceNext
  <1>2. CASE Maintenance
    <2>1. UNCHANGED <<req, phaseMap, status, afterDeletion, blob, sent>>
      BY <1>2, QuietMapped DEF Maintenance, historyVars, phaseMap
    <2>2. TableTypeOK
      BY DEF IInv, TypeOK
    <2>3. ASSUME NEW m \in Mailbox, Deactivate(m)
          PROVE  Service!Suspend(m) \/ UNCHANGED accountMap
      <3> DEFINE e == [table[m] EXCEPT !.inactive = TRUE, !.etag = @ + 1]
      <3>1. table' = [table EXCEPT ![m] = e] /\ table[m] \in Entity
            /\ table[m].exists /\ ~table[m].inactive
        BY <2>2, <2>3 DEF Deactivate, TableTypeOK
      <3>2. \/ AccountOf(table[m]) = "open" /\ AccountOf(e) = "suspended"
            \/ AccountOf(table[m]) = AccountOf(e)
        BY <3>1 DEF AccountOf, Entity
      <3>3. accountMap[m] = AccountOf(table[m])
        BY DEF accountMap
      <3>4. QED
        BY <2>1, <2>2, <3>1, <3>2, <3>3, WriteMapped DEF Service!Suspend
    <2>4. ASSUME DropTable
          PROVE  Service!LoseAccounts
      <3>1. \A m \in Mailbox : table'[m].exists = FALSE /\ table'[m].etag = table[m].etag
        BY <2>2, <2>4 DEF DropTable, TableTypeOK, Entity
      <3>2. \A m \in Mailbox :
               AccountOf(table'[m]) = IF AccountOf(table[m]) = "none" THEN "none" ELSE "lost"
        <4> SUFFICES ASSUME NEW m \in Mailbox
                     PROVE  AccountOf(table'[m]) = IF AccountOf(table[m]) = "none"
                                                   THEN "none" ELSE "lost"
          OBVIOUS
        <4>1. CASE table[m].exists
          <5>1. table'[m].etag # 0
            BY <3>1, <4>1 DEF IInv, StorageInv, EntitiesHaveETags
          <5>2. QED
            BY <3>1, <4>1, <5>1 DEF AccountOf
        <4>2. CASE ~table[m].exists
          BY <3>1, <4>2 DEF AccountOf
        <4>3. QED
          BY <4>1, <4>2
      <3>3. accountMap' = [m \in Mailbox |-> IF accountMap[m] = "none" THEN "none" ELSE "lost"]
        BY <3>2 DEF accountMap
      <3>4. QED
        BY <2>1, <3>3 DEF Service!LoseAccounts
    <2>5. QED
      BY <1>2, <2>1, <2>3, <2>4 DEF Maintenance, Service!ServiceNext
  <1>3. CASE UNCHANGED vars
    BY <1>3 DEF vars, tableVars, blobVars, responseVars, historyVars, phaseMap, accountMap
  <1>4. QED
    BY <1>1, <1>2, <1>3

\* InboxController implements RelayService: every behaviour of the handlers, with
\* whatever interleaving, aborts, failures, restarts and losses, is one in which
\* each request has its one effect at one instant, while it is admitted.
THEOREM RelayServiceIsImplemented == Spec => ImplementsRelayService
  <1>1. Init => Service!ServiceInit
    <2>1. ASSUME Init
          PROVE  Service!ServiceInit
      <3>1. req \in [Request -> Input]
        BY <2>1, ControllerAssumption DEF Init
      <3>5. Input = Service!Input
        BY DEF Input, Op, PostForm, PollForm, Service!Input, Service!Op, Service!PostForm,
               Service!PollForm
      <3>2. phaseMap = [r \in Request |-> "unsent"]
        BY <2>1 DEF Init, phaseMap, PhaseOf, OwnerPC, PostPC, PollPC
      <3>3. \A m \in Mailbox : AccountOf(table[m]) \in {"none", "open"}
        BY <2>1 DEF Init, AccountOf, NewEntity, NoEntity
      <3>4. QED
        <4>1. accountMap \in [Mailbox -> {"none", "open"}]
          BY <3>3 DEF accountMap
        <4>2. QED
          BY <2>1, <3>1, <3>2, <3>5, <4>1 DEF Init, Service!ServiceInit
    <2>2. QED
      BY <2>1
  <1>2. IInv /\ [Next]_vars => [Service!ServiceNext]_Service!serviceVars
    <2>1. ASSUME NEW r \in Request, Invisible
          PROVE  UNCHANGED Service!serviceVars
      BY <2>1 DEF Invisible, Service!serviceVars, Service!stateVars
    <2>2. ASSUME IInv, NEW r \in Request, Arrive(r) \/ HandlerStep(r) \/ Interrupt(r)
          PROVE  Service!Entry(r) \/ Service!Effect(r) \/ UNCHANGED Service!serviceVars
      BY <2>1, <2>2, PostMapped, PollMapped, CreateMapped, OwnerMapped, InterruptMapped,
         ArriveMapped DEF HandlerStep, Service!Entry
    <2>3. QED
      BY <2>2, EnvironmentMapped DEF Next, Service!ServiceNext
  <1>3. QED
    BY <1>1, <1>2, WholeInvariant, PTL DEF Spec, ImplementsRelayService, Service!ServiceSpec

-----------------------------------------------------------------------------
(***************************************************************************)
(* What RelayService promises, carried over to the code.                   *)
(***************************************************************************)

LEMMA PromiseCarriesOver == Spec => []Service!Promise
  <1>1. Service!ServiceSpec => []Service!Promise
    BY Service!PromisesAreKept, NoItemAssumption, PTL
  <1>2. QED
    BY <1>1, RelayServiceIsImplemented, PTL DEF ImplementsRelayService

\* Items leave a mailbox, and reach a client, only through a request with the
\* owner's code for that mailbox; so does its deletion.
THEOREM OwnersAlone == Spec => []OnlyTheOwner
  <1>1. Service!Promise => OnlyTheOwner
    <2> SUFFICES ASSUME Service!OwnersDecide
                 PROVE  OnlyTheOwner
      BY DEF Service!Promise
    <2>1. \A m \in Mailbox : table[m].exists /\ table[m].deleted => accountMap[m] = "closed"
      BY DEF accountMap, AccountOf
    <2>2. QED
      BY <2>1 DEF Service!OwnersDecide, OnlyTheOwner, Service!Wants, Service!For,
             Service!ItemOf, Is, Mbox
  <1>2. QED
    BY <1>1, PromiseCarriesOver, PTL

\* Of several requests to delete an item one at most is told that it did.
THEOREM DeletedOnce == Spec => []OneDeletionSucceeds
  <1>1. Service!Promise => OneDeletionSucceeds
    BY DEF Service!Promise, Service!WithdrawnOnce, OneDeletionSucceeds, Service!Wants, Is
  <1>2. QED
    BY <1>1, PromiseCarriesOver, PTL

\* The answer to a post agrees with what the container holds.
THEOREM PostsAreAnsweredTruly == Spec => []PostAnswerIsTruthful
  <1>1. Service!Promise => PostAnswerIsTruthful
    BY DEF Service!Promise, Service!PostsAnsweredTruly, PostAnswerIsTruthful,
           Service!Wants, Is
  <1>2. QED
    BY <1>1, PromiseCarriesOver, PTL

\* Nothing reaches a mailbox whose deletion was confirmed before it was sent, or
\* comes out of it.
THEOREM DeletionIsFinal == Spec => []DeletedMailboxRefusesAll
  <1>1. Service!Promise => DeletedMailboxRefusesAll
    BY DEF Service!Promise, Service!ClosedForGood, DeletedMailboxRefusesAll
  <1>2. QED
    BY <1>1, PromiseCarriesOver, PTL
=============================================================================
