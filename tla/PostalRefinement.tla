-------------------------- MODULE PostalRefinement --------------------------
(***************************************************************************)
(* The refinement mapping from PostalService, on top of ChannelPosts, to   *)
(* DeliveryService: uploads, requests, polls and downloads are invisible,  *)
(* and a message that has arrived but is no longer listed is gone.         *)
(***************************************************************************)
EXTENDS PostalService

BoxOf(e, p) ==
    CASE p \in inbox[e]                -> "waiting"
      [] p \in arrived[e] \ inbox[e]   -> "gone"
      [] OTHER                         -> "none"

boxMap == [e \in Endpoint |-> [p \in Post |-> BoxOf(e, p)]]

toldMap ==
    [p \in Post |-> IF stage[p] \in {"returned", "threw"} THEN stage[p] ELSE "pending"]

Delivery == INSTANCE DeliveryService WITH
    box <- boxMap, told <- toldMap, trouble <- faults # 0

\* The code delivers as DeliveryService says: whatever windows share an
\* endpoint and whatever requests fail, time out or are answered late, each
\* message comes once to each inbox, is shown only where it has come, leaves
\* only for a reason, and PostAsync tells its caller the truth.
ImplementsDelivery == Delivery!DeliverySpec
=============================================================================
