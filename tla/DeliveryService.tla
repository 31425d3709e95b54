--------------------------- MODULE DeliveryService ---------------------------
(***************************************************************************)
(* What Channel, PostalService and the relay together promise the          *)
(* applications that send and receive messages, without payloads, requests *)
(* and polls: a message comes at most once to each of its recipients, and  *)
(* leaves again only for a reason.                                         *)
(***************************************************************************)
CONSTANTS
    Post,             \* messages, named by the calls of PostAsync
    Endpoint,
    Messages,         \* what the calls may send, see ChannelPosts
    Window,           \* the loops that receive messages
    Owner,            \* the endpoint of each
    PurgeUnsupported  \* the windows that purge what is no dart

VARIABLES
    message,    \* what each call sends
    told,       \* what its caller knows of it
    box,        \* each message in each inbox
    shown,      \* the messages each window has shown
    trouble     \* something has gone wrong

deliveryVars == <<message, told, box, shown, trouble>>

\* PostAsync is over: normally only when every recipient has had the message,
Confirm(p) ==
    /\ told[p] = "pending"
    /\ \A e \in message[p].to : box[e][p] # "none"
    /\ told' = [told EXCEPT ![p] = "returned"]
    /\ UNCHANGED <<message, box, shown>>

\* with an exception only when something has gone wrong.
Fail(p) ==
    /\ told[p] = "pending" /\ trouble'
    /\ told' = [told EXCEPT ![p] = "threw"]
    /\ UNCHANGED <<message, box, shown>>

\* A message comes to a recipient once, if at all; it may come after its sender
\* was told that it could not be sent.
Deliver(p, e) ==
    /\ e \in message[p].to /\ told[p] # "returned"
    /\ box[e][p] = "none"
    /\ box' = [box EXCEPT ![e][p] = "waiting"]
    /\ UNCHANGED <<message, told, shown>>

\* A window shows an intact dart that came to its endpoint; another window may
\* have done so before.
Show(w, p) ==
    /\ message[p].kind = "dart" /\ box[Owner[w]][p] # "none"
    /\ shown' = [shown EXCEPT ![w] = @ \cup {p}]
    /\ UNCHANGED <<message, told, box>>

\* Why a message may leave an inbox.  A corrupt dart never does.
Dispensable(p, e) ==
    \/ message[p].kind = "bad"
    \/ message[p].kind = "other" /\ \E w \in PurgeUnsupported : Owner[w] = e
    \/ message[p].kind = "dart" /\ \E w \in Window : Owner[w] = e /\ p \in shown[w]

Take(p, e) ==
    /\ box[e][p] = "waiting" /\ Dispensable(p, e)
    /\ box' = [box EXCEPT ![e][p] = "gone"]
    /\ UNCHANGED <<message, told, shown>>

DeliveryInit ==
    /\ message \in Messages
    /\ told = [p \in Post |-> "pending"]
    /\ box = [e \in Endpoint |-> [p \in Post |-> "none"]]
    /\ shown = [w \in Window |-> {}]
    /\ trouble = FALSE

\* Trouble may come with any step, and does not go away.
DeliveryNext ==
    /\ trouble' \in {trouble, TRUE}
    /\ \/ \E p \in Post : Confirm(p) \/ Fail(p)
       \/ \E p \in Post, e \in Endpoint : Deliver(p, e) \/ Take(p, e)
       \/ \E w \in Window, p \in Post : Show(w, p)
       \/ UNCHANGED <<message, told, box, shown>>

DeliverySpec == DeliveryInit /\ [][DeliveryNext]_deliveryVars
=============================================================================
