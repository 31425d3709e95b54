---------------------------- MODULE RelayRequests ----------------------------
(***************************************************************************)
(* What clients ask of the inbox half of the relay server.                 *)
(***************************************************************************)

CONSTANTS
    Request,    \* the HTTP requests, each one activation of a handler
    Mailbox,    \* the names a mailbox can have
    NoItem      \* stands for the item of a request that names none

ASSUME NoItemAssumption == NoItem \notin Request

Op == {"create", "deleteInbox", "post", "deleteItem", "getItem", "poll"}

\* How the content length and lifetime of a post relate to the limits, and
\* whether a poll is a long poll.
PostForm == {"noLength", "zero", "negative", "tooLarge", "tooLong", "fits"}
PollForm == {"short", "long"}

\* `code' is the bearer token of the Authorization header: the owner's code,
\* another one, or none (no header, two headers, or another scheme).  An inbox
\* item is named by the request that posted it.
Input == [op: Op, mbox: Mailbox, code: {"owner", "other", "none"},
          item: Request \cup {NoItem}, form: PostForm \cup PollForm \cup {"plain"}]
=============================================================================
