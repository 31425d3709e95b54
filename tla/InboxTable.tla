----------------------------- MODULE InboxTable -----------------------------
(***************************************************************************)
(* The Azure table "Inboxes" and the Mailbox entities in it, as            *)
(* InboxController uses them.  Every handler looks an entity up into a     *)
(* local variable and may later merge that local copy back; the table      *)
(* accepts the merge only when the copy still carries the ETag of the      *)
(* stored entity, and then gives both a new ETag.                          *)
(***************************************************************************)
EXTENDS Naturals, RelayRequests

VARIABLES
    tableExists,   \* whether the table has been created
    table,         \* the entity stored for each name
    snap           \* each handler's local copy of an entity

tableVars == <<tableExists, table, snap>>

\* `exists' is false for the null a lookup returns when it finds no entity.
Entity == [exists: BOOLEAN, deleted: BOOLEAN, inactive: BOOLEAN, etag: Nat]

NoEntity == [exists |-> FALSE, deleted |-> FALSE, inactive |-> FALSE, etag |-> 0]

NewEntity(etag) ==
    [exists |-> TRUE, deleted |-> FALSE, inactive |-> FALSE, etag |-> etag]

-----------------------------------------------------------------------------
(***************************************************************************)
(* The table operations: the effect of each on the table and on the        *)
(* caller's copy.  A handler combines one with its own control flow.       *)
(***************************************************************************)

\* CloudTable.ExecuteAsync(TableOperation.Insert(mailbox)) on an existing table.
InsertMailbox(m) ==
    /\ tableExists
    /\ table' = [table EXCEPT ![m] = NewEntity(@.etag + 1)]
    /\ UNCHANGED <<tableExists, snap>>

\* LookupMailboxAsync: a copy of the stored entity, whatever its flags.
LookupMailbox(r, m) ==
    /\ tableExists
    /\ snap' = [snap EXCEPT ![r] = table[m]]
    /\ UNCHANGED <<tableExists, table>>

\* A merge that sends no If-Match condition.
MergeAcceptedWithoutETag(r, m) == tableExists /\ table[m].exists

\* The table refuses (412) a copy that is older than the stored entity.
MergeAccepted(r, m) ==
    /\ tableExists
    /\ table[m].exists
    /\ snap[r].etag = table[m].etag

\* CloudTable.ExecuteAsync(TableOperation.Merge(entity)), accepted: every
\* property of the entity is written, and the entity receives the new ETag.
MergeMailbox(r, m, entity) ==
    /\ MergeAccepted(r, m)
    /\ LET merged == [entity EXCEPT !.etag = table[m].etag + 1]
       IN  /\ table' = [table EXCEPT ![m] = merged]
           /\ snap' = [snap EXCEPT ![r] = merged]
    /\ UNCHANGED tableExists

\* InboxTable.CreateIfNotExistsAsync.
CreateTableIfNotExists ==
    /\ tableExists' = TRUE
    /\ UNCHANGED <<table, snap>>

-----------------------------------------------------------------------------
(***************************************************************************)
(* What others do to the table.  No code in the repository sets or clears  *)
(* Inactive or removes the table: the first is maintenance the Mailbox     *)
(* comments speak of, the second is why the insert of a mailbox has a      *)
(* retry.  The reactivation they also speak of is nowhere.                 *)
(***************************************************************************)

Deactivate(m) ==
    /\ tableExists
    /\ table[m].exists
    /\ ~table[m].inactive
    /\ table' = [table EXCEPT ![m].inactive = TRUE, ![m].etag = @ + 1]
    /\ UNCHANGED <<tableExists, snap>>

\* The names stay in use for ever (they are GUIDs), so the ETag is kept.
DropTable ==
    /\ tableExists
    /\ tableExists' = FALSE
    /\ table' = [m \in Mailbox |-> [table[m] EXCEPT !.exists = FALSE]]
    /\ UNCHANGED snap

-----------------------------------------------------------------------------

TableTypeOK ==
    /\ tableExists \in BOOLEAN
    /\ table \in [Mailbox -> Entity]
    /\ snap \in [Request -> Entity]

\* The handlers write whole copies that they read earlier, and only the ETag
\* keeps an older copy from undoing DeleteInboxAsync or the maintenance: a
\* deletion is final, and a mailbox is put back into service only by a request
\* that has seen it inactive.
StaleCopiesUndoNothing ==
    [][\A m \in Mailbox : table[m].exists /\ table'[m].exists =>
          /\ table[m].deleted => table'[m].deleted
          /\ table[m].inactive /\ ~table'[m].inactive =>
                \E r \in Request : /\ snap'[r] # snap[r] /\ snap'[r] = table'[m]
                                   /\ snap[r].inactive]_tableVars
=============================================================================
