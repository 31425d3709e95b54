---------------------------- MODULE ChannelPosts ----------------------------
(***************************************************************************)
(* The sending half of the client: Channel.PostAsync uploads a payload and *)
(* then posts an inbox item that refers to it to every recipient, all at   *)
(* once.  The relay's inboxes appear as sets of items; an item is named by *)
(* the call that posted it.  Calls are numbers, in the order in which the  *)
(* relay lists their items, which is not the order in which they are made. *)
(***************************************************************************)
EXTENDS Integers

CONSTANTS
    Post,        \* the calls of PostAsync
    Endpoint,    \* those who send and receive
    Messages,    \* what the calls may send
    Fault,       \* what may go wrong, or come to an end
    MaxFaults    \* bound: how often it does

\* An item is bad when its recipient cannot open its envelope, and otherwise
\* refers to a dart, to a dart whose payload fails the check of its hash, or to
\* another type of content.
Message == [kind: {"dart", "corrupt", "other", "bad"}, to: SUBSET Endpoint \ {{}}]

ASSUME PostAssumption ==
    /\ Post \subseteq Nat
    /\ Messages \subseteq [Post -> Message]
    /\ Fault \subseteq {"network", "timeout", "expire", "close"}
    /\ MaxFaults \in Nat

VARIABLES
    message,    \* what each call sends, fixed from the start
    stage,      \* where each call is
    outcome,    \* what came of its post to each recipient
    payload,    \* the blob of each payload
    inbox,      \* the items in each inbox at the relay
    arrived,    \* history: the items that have ever been in it
    alerted,    \* the items whose post has alerted the inbox's waiting polls
    faults      \* how often that has happened

sendVars == <<message, stage, outcome>>
relayVars == <<payload, inbox, arrived, alerted>>

Stage == {"idle", "posting", "returned", "threw"}

GoesWrong(f) ==
    /\ f \in Fault /\ faults < MaxFaults
    /\ faults' = faults + 1

\* DELETE of an item; the 404 of one that is gone is good enough.
Remove(p, e) ==
    /\ inbox' = [inbox EXCEPT ![e] = @ \ {p}]
    /\ UNCHANGED <<payload, arrived, alerted>>

-----------------------------------------------------------------------------

\* UploadPayloadAsync.
Upload(p) ==
    /\ stage[p] = "idle"
    /\ payload' = [payload EXCEPT ![p] = "stored"]
    /\ stage' = [stage EXCEPT ![p] = "posting"]
    /\ UNCHANGED <<message, outcome, inbox, arrived, alerted, faults>>

\* The upload may have been done when its answer fails to come.
UploadFails(p) ==
    /\ stage[p] = "idle"
    /\ GoesWrong("network")
    /\ stage' = [stage EXCEPT ![p] = "threw"]
    /\ \E b \in {"none", "stored"} : payload' = [payload EXCEPT ![p] = b]
    /\ UNCHANGED <<message, outcome, inbox, arrived, alerted>>

Sending(p, e) ==
    stage[p] = "posting" /\ e \in message[p].to /\ outcome[p][e] = "none"

\* A post that may be carried out twice.
StoreTwice(p, e) ==
    /\ Sending(p, e) \/ outcome[p][e] = "error"
    /\ inbox' = [inbox EXCEPT ![e] = @ \cup {p}]
    /\ arrived' = [arrived EXCEPT ![e] = @ \cup {p}]
    /\ UNCHANGED <<payload, alerted, sendVars, faults>>

\* The relay carries out PostInboxItemAsync; it may still do so after the sender
\* has been told of a failure or has run out of time.
Store(p, e) ==
    /\ Sending(p, e) \/ outcome[p][e] = "error"
    /\ p \notin arrived[e]
    /\ inbox' = [inbox EXCEPT ![e] = @ \cup {p}]
    /\ arrived' = [arrived EXCEPT ![e] = @ \cup {p}]
    /\ UNCHANGED <<payload, alerted, sendVars, faults>>

\* An alert that does not wait for the item.
AnnounceFirst(p, e) ==
    /\ Sending(p, e) /\ p \notin alerted[e]
    /\ alerted' = [alerted EXCEPT ![e] = @ \cup {p}]
    /\ UNCHANGED <<sendVars, payload, inbox, arrived, faults>>

\* Behind the upload the relay's handler calls AlertLongPollWaiter; it need not
\* come so far when the sender is told of a failure.
Announce(p, e) ==
    /\ p \in arrived[e] \ alerted[e]
    /\ alerted' = [alerted EXCEPT ![e] = @ \cup {p}]
    /\ UNCHANGED <<sendVars, payload, inbox, arrived, faults>>

\* Its answer makes PostPayloadReferenceAsync return a receipt.
GetReceipt(p, e) ==
    /\ Sending(p, e) /\ p \in alerted[e]
    /\ outcome' = [outcome EXCEPT ![p][e] = "receipt"]
    /\ UNCHANGED <<message, stage, relayVars, faults>>

\* It answers with an error, or not in time.
GetError(p, e) ==
    /\ Sending(p, e)
    /\ GoesWrong("network")
    /\ outcome' = [outcome EXCEPT ![p][e] = "error"]
    /\ UNCHANGED <<message, stage, relayVars>>

\* A call that returns as soon as one post has got its receipt.
ReturnAtFirst(p) ==
    /\ stage[p] = "posting"
    /\ \E e \in message[p].to : outcome[p][e] = "receipt"
    /\ stage' = [stage EXCEPT ![p] = "returned"]
    /\ UNCHANGED <<message, outcome, relayVars, faults>>

\* Task.WhenAll waits for the posts to all recipients, also when some of them
\* fail; it returns their receipts, or throws.
Return(p) ==
    /\ stage[p] = "posting"
    /\ \A e \in message[p].to : outcome[p][e] # "none"
    /\ stage' = [stage EXCEPT ![p] =
                    IF \A e \in message[p].to : outcome[p][e] = "receipt"
                    THEN "returned" ELSE "threw"]
    /\ UNCHANGED <<message, outcome, relayVars, faults>>

\* The blob of a payload is purged; its inbox items stay.
Expire(p) ==
    /\ payload[p] = "stored"
    /\ GoesWrong("expire")
    /\ payload' = [payload EXCEPT ![p] = "gone"]
    /\ UNCHANGED <<sendVars, inbox, arrived, alerted>>

-----------------------------------------------------------------------------

SendInit ==
    /\ message \in Messages
    /\ stage = [p \in Post |-> "idle"]
    /\ outcome = [p \in Post |-> [e \in Endpoint |-> "none"]]
    /\ payload = [p \in Post |-> "none"]
    /\ inbox = [e \in Endpoint |-> {}]
    /\ arrived = [e \in Endpoint |-> {}]
    /\ alerted = [e \in Endpoint |-> {}]
    /\ faults = 0

SendStep(p) ==
    Upload(p) \/ Return(p) \/ \E e \in Endpoint : Store(p, e) \/ GetReceipt(p, e)

SendTypeOK ==
    /\ message \in Messages
    /\ stage \in [Post -> Stage]
    /\ outcome \in [Post -> [Endpoint -> {"none", "receipt", "error"}]]
    /\ payload \in [Post -> {"none", "stored", "gone"}]
    /\ inbox \in [Endpoint -> SUBSET Post]
    /\ arrived \in [Endpoint -> SUBSET Post]
    /\ alerted \in [Endpoint -> SUBSET Post]
    /\ faults \in 0..MaxFaults

\* When PostAsync returns receipts, every recipient has had the item in its
\* inbox; when it is over at all, the fate of every post it began is known.
ReceiptsAreTruthful ==
    \A p \in Post :
        /\ stage[p] = "returned" => \A e \in message[p].to : p \in arrived[e]
        /\ stage[p] \in {"returned", "threw"} =>
              \A e \in Endpoint : p \in arrived[e] => outcome[p][e] # "none"

\* A receipt comes after its item; an item comes only to those it is meant
\* for, and the call that sent it is not over before it has learnt of its post.
\* Only a failure makes one fail.
SendInv ==
    /\ SendTypeOK
    /\ \A p \in Post, e \in Endpoint :
          /\ outcome[p][e] # "none" => e \in message[p].to
          /\ outcome[p][e] = "receipt" => p \in arrived[e]
          /\ outcome[p][e] = "error" => faults # 0
          /\ p \in arrived[e] =>
                e \in message[p].to /\ (stage[p] = "posting" \/ outcome[p][e] # "none")
    /\ \A p \in Post : stage[p] = "returned" =>
          \A e \in message[p].to : outcome[p][e] = "receipt"
    /\ \A e \in Endpoint : inbox[e] \subseteq arrived[e] /\ alerted[e] \subseteq arrived[e]
=============================================================================
