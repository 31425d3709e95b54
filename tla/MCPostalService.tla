-------------------------- MODULE MCPostalService --------------------------
(***************************************************************************)
(* Constants for model checking PostalService: two windows of endpoint e1, *)
(* one of which purges what it does not support, and none of e2.           *)
(***************************************************************************)
EXTENDS PostalRefinement, TLC

CONSTANTS e1, e2, w1, w2

Send(k, es) == [kind |-> k, to |-> es]

\* A dart behind an item of another type, a corrupt dart behind an item that
\* cannot be opened, and something for two recipients.
TwoMessages ==
    {<<Send("other", {e1}), Send("dart", {e1})>>,
     <<Send("bad", {e1}), Send("corrupt", {e1})>>,
     <<Send("bad", {e1, e2}), Send("dart", {e2})>>}

DartsOnly == [Post -> {Send("dart", {e1})}]

Owners == w1 :> e1 @@ w2 :> e1

OneOwner == w1 :> e1
=============================================================================
