-------------------------- MODULE MCInboxController --------------------------
(***************************************************************************)
(* Constants for model checking InboxController.                           *)
(***************************************************************************)
EXTENDS InboxRefinement, TLC

CONSTANTS m1, m2

\* A request that names no item, and one that does.
Ask(o, m, c, f) == [op |-> o, mbox |-> m, code |-> c, item |-> NoItem, form |-> f]
Name(o, m, c, i) == [op |-> o, mbox |-> m, code |-> c, item |-> i, form |-> "plain"]

\* Polls and posts of one mailbox that go through.
PollsAndPosts ==
    {Ask("poll", m1, "owner", "long"), Ask("poll", m1, "owner", "short"),
     Ask("post", m1, "none", "fits")}

LongPollsAndPosts == {Ask("poll", m1, "owner", "long"), Ask("post", m1, "none", "fits")}

ItemDeletions == {Name("deleteItem", m1, "owner", i) : i \in Request}

\* Long polls and posts, and other sessions of the owner deleting items.
DeletionInputs == LongPollsAndPosts \cup ItemDeletions

\* Long polls, posts and deletions on one mailbox; items are also
\* deleted by way of another mailbox and with a wrong code.
OwnerInputs ==
    LongPollsAndPosts \cup ItemDeletions
    \cup {Ask("deleteInbox", m1, "owner", "plain")}
    \cup {Name("deleteItem", m2, "owner", i) : i \in Request}
    \cup {Name("deleteItem", m1, "other", i) : i \in Request}

\* Two inboxes that are created while they are used and deleted, with posts of
\* every form to one of them.
FaultInputs ==
    {Ask("create", m, "none", "plain") : m \in {m1, m2}}
    \cup {Ask("post", m1, "none", f) : f \in PostForm}
    \cup {Ask("poll", m1, "owner", "long"), Ask("poll", m1, "other", "long"),
          Ask("deleteInbox", m1, "owner", "plain")}
    \cup {Name("getItem", m1, "owner", i) : i \in Request}
    \cup ItemDeletions

Symmetry == Permutations(Request)
=============================================================================
