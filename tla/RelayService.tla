---------------------------- MODULE RelayService ----------------------------
(***************************************************************************)
(* What the inbox half of the relay promises its clients, without table,   *)
(* merges, long-poll dictionary, container or loops: accounts and mail,    *)
(* each change of which is one step of a request that was admitted to the  *)
(* mailbox.  A request may fail at any time with its effect done or not,   *)
(* and then its client does not learn which.  InboxRefinement shows that   *)
(* InboxController implements this.                                        *)
(***************************************************************************)
EXTENDS Naturals, RelayRequests

VARIABLES
    asked,     \* what each request asks for
    phase,     \* how far it has come
    answer,    \* the status code of its response, 0 for none
    account,   \* what has become of each mailbox
    mail,      \* what has become of the item of each post
    got,       \* the items that the response to a request carries
    tooLate    \* history: had its mailbox been deleted when it was sent?

callVars == <<asked, phase, answer, tooLate>>
stateVars == <<account, mail, got>>
serviceVars == <<callVars, stateVars>>

Phase == {"unsent", "sent", "admitted", "over"}
Account == {"none", "open", "suspended", "closed", "lost"}

\* The answers of a request whose client learns nothing: it gave up, or the
\* service failed.
Lost == {499, 500}

For(r) == asked[r].mbox
Wants(r, o) == asked[r].op = o
ItemOf(i, m) == asked[i].op = "post" /\ asked[i].mbox = m
DeletionAnswered(m) ==
    \E d \in Request : Wants(d, "deleteInbox") /\ For(d) = m /\ answer[d] = 200

MoveTo(r, p) ==
    /\ phase' = [phase EXCEPT ![r] = p]
    /\ UNCHANGED <<asked, answer, tooLate>>

Finish(r, s) ==
    /\ phase' = [phase EXCEPT ![r] = "over"]
    /\ answer' = [answer EXCEPT ![r] = s]
    /\ UNCHANGED <<asked, tooLate>>

-----------------------------------------------------------------------------
(***************************************************************************)
(* A request is sent, and admitted or refused for a reason.                *)
(***************************************************************************)
\* Reasons that need no look at the mailbox.
RefusedUnseen(r) ==
    \/ answer'[r] = 401 /\ asked[r].code = "none" /\ ~Wants(r, "post")
    \/ answer'[r] = 400 /\ Wants(r, "post") /\ asked[r].form = "zero"
    \/ answer'[r] = 411 /\ Wants(r, "post") /\ asked[r].form = "noLength"

Send(r) ==
    /\ phase[r] = "unsent"
    /\ tooLate' = [tooLate EXCEPT ![r] = DeletionAnswered(For(r))]
    /\ \/ /\ phase' = [phase EXCEPT ![r] = "sent"]
          /\ UNCHANGED answer
       \/ /\ phase' = [phase EXCEPT ![r] = "over"]
          /\ \E s \in {400, 401, 411} : answer' = [answer EXCEPT ![r] = s]
          /\ RefusedUnseen(r)
    /\ UNCHANGED <<asked, stateVars>>

\* The mailbox takes posts from anyone, everything else from its owner, and
\* when it is suspended nothing but its deletion.
Admit(r) ==
    /\ phase[r] = "sent" /\ ~Wants(r, "create")
    /\ ~Wants(r, "post") => asked[r].code = "owner"
    /\ \/ account[For(r)] = "open"
       \/ account[For(r)] = "suspended" /\ Wants(r, "deleteInbox")
    /\ MoveTo(r, "admitted")
    /\ UNCHANGED stateVars

Refuse(r) ==
    /\ phase[r] = "sent" /\ ~Wants(r, "create")
    /\ \/ Finish(r, 404) /\ account[For(r)] \in {"none", "closed", "lost"}
       \/ Finish(r, 410) /\ account[For(r)] \in {"suspended", "closed"}
       \/ Finish(r, 401) /\ ~Wants(r, "post") /\ asked[r].code # "owner"
       \/ Finish(r, 400) /\ Wants(r, "post") /\ asked[r].form \in {"tooLarge", "tooLong"}
    /\ UNCHANGED stateVars

\* A request fails, or is put off, without effect.
GiveUp(r) ==
    /\ phase[r] \in {"sent", "admitted"}
    /\ \/ \E s \in Lost : Finish(r, s)
       \/ Finish(r, 503) /\ Wants(r, "create")
       \/ Finish(r, 503) /\ Wants(r, "post") /\ mail[r] = "none"
    /\ UNCHANGED stateVars

-----------------------------------------------------------------------------
(***************************************************************************)
(* What the operations do, each at one instant.                            *)
(***************************************************************************)
Create(r) ==
    /\ phase[r] = "sent" /\ Wants(r, "create")
    /\ account[For(r)] = "none"
    /\ account' = [account EXCEPT ![For(r)] = "open"]
    /\ \E s \in {201} \cup Lost : Finish(r, s)
    /\ UNCHANGED <<mail, got>>

Close(r) ==
    /\ phase[r] = "admitted" /\ Wants(r, "deleteInbox")
    /\ account[For(r)] \in {"open", "suspended"}
    /\ account' = [account EXCEPT ![For(r)] = "closed"]
    /\ \E s \in {200} \cup Lost : Finish(r, s)
    /\ UNCHANGED <<mail, got>>

Deposit(r) ==
    /\ phase[r] = "admitted" /\ Wants(r, "post") /\ mail[r] = "none"
    /\ mail' = [mail EXCEPT ![r] = "stored"]
    /\ UNCHANGED callVars \/ \E s \in Lost : Finish(r, s)
    /\ UNCHANGED <<account, got>>

Accept(r) ==
    /\ phase[r] = "admitted" /\ Wants(r, "post") /\ mail[r] # "none"
    /\ Finish(r, 200)
    /\ UNCHANGED stateVars

\* The item of a deletion or download is in the mailbox that it names.
Here(r) ==
    /\ asked[r].item \in Request
    /\ ItemOf(asked[r].item, For(r)) /\ mail[asked[r].item] = "stored"

Withdraw(r) ==
    /\ phase[r] = "admitted" /\ Wants(r, "deleteItem") /\ Here(r)
    /\ mail' = [mail EXCEPT ![asked[r].item] = "deleted"]
    /\ \E s \in {200} \cup Lost : Finish(r, s)
    /\ UNCHANGED <<account, got>>

NothingToWithdraw(r) ==
    /\ phase[r] = "admitted" /\ Wants(r, "deleteItem") /\ ~Here(r)
    /\ Finish(r, 404)
    /\ UNCHANGED stateVars

HandOut(r) ==
    /\ phase[r] = "admitted" /\ Wants(r, "getItem") /\ Here(r)
    /\ got' = [got EXCEPT ![r] = {asked[r].item}]
    /\ Finish(r, 200)
    /\ UNCHANGED <<account, mail>>

Read(r) ==
    /\ phase[r] = "admitted" /\ Wants(r, "poll")
    /\ \E i \in Request :
          /\ ItemOf(i, For(r)) /\ mail[i] = "stored"
          /\ got' = [got EXCEPT ![r] = @ \cup {i}]
    /\ UNCHANGED <<callVars, account, mail>>

EndOfPoll(r) ==
    /\ phase[r] = "admitted" /\ Wants(r, "poll")
    /\ Finish(r, 200)
    /\ UNCHANGED stateVars

-----------------------------------------------------------------------------
(***************************************************************************)
(* What happens to the service.                                            *)
(***************************************************************************)
Suspend(m) ==
    /\ account[m] = "open"
    /\ account' = [account EXCEPT ![m] = "suspended"]
    /\ UNCHANGED <<callVars, mail, got>>

LoseAccounts ==
    /\ account' = [m \in Mailbox |-> IF account[m] = "none" THEN "none" ELSE "lost"]
    /\ UNCHANGED <<callVars, mail, got>>

\* All connections break; what is stored stays.
Crash ==
    /\ phase' = [r \in Request |-> IF phase[r] = "unsent" THEN "unsent" ELSE "over"]
    /\ UNCHANGED <<asked, answer, tooLate, stateVars>>

ServiceInit ==
    /\ asked \in [Request -> Input]
    /\ phase = [r \in Request |-> "unsent"]
    /\ answer = [r \in Request |-> 0]
    /\ account \in [Mailbox -> {"none", "open"}]
    /\ mail = [r \in Request |-> "none"]
    /\ got = [r \in Request |-> {}]
    /\ tooLate = [r \in Request |-> FALSE]

Entry(r) == Send(r) \/ Admit(r) \/ Refuse(r) \/ GiveUp(r)

Effect(r) ==
    \/ Create(r) \/ Close(r) \/ Deposit(r) \/ Accept(r)
    \/ Withdraw(r) \/ NothingToWithdraw(r) \/ HandOut(r) \/ Read(r) \/ EndOfPoll(r)

ServiceNext ==
    \/ \E r \in Request : Entry(r) \/ Effect(r)
    \/ \E m \in Mailbox : Suspend(m)
    \/ LoseAccounts
    \/ Crash

ServiceSpec == ServiceInit /\ [][ServiceNext]_serviceVars

-----------------------------------------------------------------------------
(***************************************************************************)
(* What follows for the clients.  RelayServiceProofs proves it of this     *)
(* specification, and InboxRefinementProofs carries it over to the code.   *)
(***************************************************************************)

ServiceTypeOK ==
    /\ asked \in [Request -> Input]
    /\ phase \in [Request -> Phase]
    /\ answer \in [Request -> Nat]
    /\ account \in [Mailbox -> Account]
    /\ mail \in [Request -> {"none", "stored", "deleted"}]
    /\ got \in [Request -> SUBSET Request]
    /\ tooLate \in [Request -> BOOLEAN]

\* A request is admitted to its mailbox, and answered once; before it is
\* admitted it receives nothing.
Admission ==
    \A r \in Request :
        /\ phase[r] = "admitted" /\ ~Wants(r, "post") => asked[r].code = "owner"
        /\ phase[r] # "over" => answer[r] = 0
        /\ phase[r] \in {"unsent", "sent"} => got[r] = {}

\* Items leave a mailbox, and reach a client, only through the owner of that
\* very mailbox; and only the owner closes it.
OwnersDecide ==
    /\ \A i \in Request : mail[i] = "deleted" =>
          \E d \in Request :
             /\ Wants(d, "deleteItem") /\ asked[d].code = "owner"
             /\ asked[d].item = i /\ For(d) = For(i)
    /\ \A r \in Request : \A i \in got[r] : asked[r].code = "owner" /\ ItemOf(i, For(r))
    /\ \A m \in Mailbox : account[m] = "closed" =>
          \E d \in Request :
             Wants(d, "deleteInbox") /\ asked[d].code = "owner" /\ For(d) = m

\* An item whose deletion was confirmed is gone, so no second deletion of it is
\* confirmed.
WithdrawnOnce ==
    \A r \in Request : Wants(r, "deleteItem") /\ answer[r] = 200 =>
        /\ asked[r].item \in Request /\ mail[asked[r].item] = "deleted"
        /\ \A q \in Request \ {r} :
              Wants(q, "deleteItem") /\ answer[q] = 200 => asked[q].item # asked[r].item

\* A post accepted is stored; one refused or put off is not.
PostsAnsweredTruly ==
    \A r \in Request :
        /\ phase[r] \in {"unsent", "sent"} => mail[r] = "none"
        /\ Wants(r, "post") /\ answer[r] = 200 => mail[r] # "none"
        /\ Wants(r, "post") /\ answer[r] \in {400, 401, 404, 410, 411, 503} => mail[r] = "none"

\* Once its deletion is confirmed a mailbox is closed or lost for good, and no
\* later request is admitted to it.
ClosedForGood ==
    /\ \A m \in Mailbox : DeletionAnswered(m) => account[m] \in {"closed", "lost"}
    /\ \A r \in Request : tooLate[r] =>
          /\ account[For(r)] \in {"closed", "lost"}
          /\ phase[r] \in {"sent", "over"}
          /\ answer[r] # 200 /\ mail[r] = "none" /\ got[r] = {}

Promise ==
    /\ ServiceTypeOK /\ Admission /\ OwnersDecide
    /\ WithdrawnOnce /\ PostsAnsweredTruly /\ ClosedForGood
=============================================================================
