-------------------------- MODULE InboxRefinement --------------------------
(***************************************************************************)
(* The refinement mapping from InboxController to RelayService: what the   *)
(* steps of the handlers mean to a client of the relay.  The handlers'     *)
(* looking up, merging, registering, waiting, listing and alerting are     *)
(* invisible; a mailbox that no handler finds was never created, or was    *)
(* lost with its table.                                                    *)
(***************************************************************************)
EXTENDS InboxInvariants

PhaseOf(l) ==
    CASE l = "idle"                   -> "unsent"
      [] l = "done"                   -> "over"
      [] l \in OwnerPC \cup PostPC    -> "admitted"
      [] OTHER                        -> "sent"

AccountOf(e) ==
    CASE ~e.exists /\ e.etag = 0                -> "none"
      [] ~e.exists /\ e.etag # 0                -> "lost"
      [] e.exists /\ e.deleted                  -> "closed"
      [] e.exists /\ ~e.deleted /\ e.inactive   -> "suspended"
      [] OTHER                                  -> "open"

phaseMap == [r \in Request |-> PhaseOf(pc[r])]
accountMap == [m \in Mailbox |-> AccountOf(table[m])]

\* RelayServiceProofs is RelayService with the theorem that its promises hold.
Service == INSTANCE RelayServiceProofs WITH
    asked <- req, phase <- phaseMap, answer <- status, account <- accountMap,
    mail <- blob, got <- sent, tooLate <- afterDeletion

\* InboxController does for its clients what RelayService says: whatever the
\* interleaving of handlers, aborts, storage failures, restarts and losses of
\* the table, each handler's effects on mailboxes and items are those of its
\* one operation, made while it is admitted, and its answer agrees with them.
ImplementsRelayService == Service!ServiceSpec
=============================================================================
