---------------------------- MODULE AddressBooks ----------------------------
(***************************************************************************)
(* AggregatingAddressBook: concurrent checks whether an identifier yields  *)
(* the endpoint that claims it.  A check that finds nothing in the shared  *)
(* cache asks every address book at once and races their answers           *)
(* (Utilities.FastestQualifyingResultAsync); lookups go over the network   *)
(* and may fail, hang or be overtaken by a new entry.                      *)
(***************************************************************************)
EXTENDS Naturals

CONSTANTS
    Check,          \* calls of IsVerifiableIdentifierAsync
    Book,           \* the AddressBooks
    Kind,           \* the class of each book
    Name,           \* identifiers
    Serves,         \* <<book, name>>: the book looks names of this form up
    Fold,           \* the cache's key of a name (StringComparer.OrdinalIgnoreCase)
    Endpoint,
    Nothing,        \* null
    Initially,      \* what the books may hold at first
    MaxChanges,     \* bound: how often an entry is replaced
    Fault           \* "http", "timeout", "cancel"

ASSUME BooksAssumption ==
    /\ Kind \in [Book -> {"direct", "relay", "twitter"}]
    /\ Serves \subseteq Book \X Name
    /\ Fold \in [Name -> Name]
    /\ Nothing \notin Endpoint
    /\ {"bad", "none", "running", "thrown"} \cap (Endpoint \cup {Nothing}) = {}
    /\ MaxChanges \in Nat

Entry == Endpoint \cup {"bad", Nothing}

ASSUME InitiallyAssumption == Initially \subseteq [Serves -> Entry]

VARIABLES
    held,       \* what each book has for each name: an entry, a bad one or none
    changes,    \* how often an entry was replaced
    ever,       \* history: the endpoints each name has yielded
    cache,      \* resolvedIdentifiersCache
    claim,      \* claimingEndpoint of each check
    name,       \* claimedIdentifier
    pc,
    answer,
    lookup,     \* each check's task of each book
    tasks,      \* the tasks it still waits for
    cts         \* its linked CancellationTokenSource is cancelled

bookVars == <<held, changes, ever>>
checkVars == <<claim, name>>
vars == <<bookVars, cache, checkVars, pc, answer, lookup, tasks, cts>>

Entries(h) == {<<s[2], h[s]>> : s \in {t \in Serves : h[t] \in Endpoint}}

-----------------------------------------------------------------------------
(***************************************************************************)
(* A lookup: OnlineAddressBook.DownloadEndpointAsync, with the exceptions  *)
(* that the class of the book catches.                                     *)
(***************************************************************************)

Running(c, b) == lookup[c][b] = "running"

Complete(c, b, result) ==
    /\ Running(c, b)
    /\ lookup' = [lookup EXCEPT ![c][b] = result]
    /\ UNCHANGED <<bookVars, cache, checkVars, pc, answer, tasks, cts>>

\* The response: an error status is null.  An entry whose signature or
\* thumbprint does not match is an exception that only one class catches, and
\* not if the thumbprint in the URL is malformed.
Respond(c, b) ==
    /\ Running(c, b)
    /\ LET entry == held[<<b, name[c]>>] IN
       \E result \in IF entry # "bad" THEN {entry}
                     ELSE IF Kind[b] = "direct" THEN {Nothing, "thrown"} ELSE {"thrown"} :
          Complete(c, b, result)

\* HttpRequestException.
FailLookup(c, b) ==
    /\ "http" \in Fault
    /\ Complete(c, b, IF Kind[b] = "relay" THEN "thrown" ELSE Nothing)

\* OperationCanceledException, which no class catches: of the check's token,
AbortLookup(c, b) == cts[c] /\ Complete(c, b, "thrown")

\* or of HttpClient's own time limit.
TimeOut(c, b) == "timeout" \in Fault /\ Complete(c, b, "thrown")

-----------------------------------------------------------------------------
(***************************************************************************)
(* The race.                                                               *)
(***************************************************************************)

End(c, how) ==
    /\ pc' = [pc EXCEPT ![c] = "over"]
    /\ answer' = [answer EXCEPT ![c] = how]

\* Any hit in the cache will do.
HitIsEnough(c) ==
    /\ pc[c] = "idle"
    /\ cache[Fold[name[c]]] # Nothing
    /\ End(c, "yes")
    /\ UNCHANGED <<bookVars, cache, checkVars, lookup, tasks, cts>>

\* A hit in the cache decides.
Hit(c) ==
    /\ pc[c] = "idle"
    /\ LET hit == cache[Fold[name[c]]] IN
       /\ hit # Nothing
       /\ End(c, IF hit = claim[c] THEN "yes" ELSE "no")
    /\ UNCHANGED <<bookVars, cache, checkVars, lookup, tasks, cts>>

\* Every book is asked.  One that does not know names of this form has answered
\* null at once, and the race goes on without it.
AskAll(c) ==
    [b \in Book |-> IF <<b, name[c]>> \in Serves THEN "running" ELSE Nothing]

\* The claim goes into the cache before it is verified.
AskAndRemember(c) ==
    /\ pc[c] = "idle"
    /\ cache[Fold[name[c]]] = Nothing
    /\ pc' = [pc EXCEPT ![c] = "racing"]
    /\ lookup' = [lookup EXCEPT ![c] = AskAll(c)]
    /\ tasks' = [tasks EXCEPT ![c] = {b \in Book : <<b, name[c]>> \in Serves}]
    /\ cache' = [cache EXCEPT ![Fold[name[c]]] = claim[c]]
    /\ UNCHANGED <<bookVars, checkVars, answer, cts>>

Ask(c) ==
    /\ pc[c] = "idle"
    /\ cache[Fold[name[c]]] = Nothing
    /\ pc' = [pc EXCEPT ![c] = "racing"]
    /\ lookup' = [lookup EXCEPT ![c] = AskAll(c)]
    /\ tasks' = [tasks EXCEPT ![c] = {b \in Book : <<b, name[c]>> \in Serves}]
    /\ UNCHANGED <<bookVars, cache, checkVars, answer, cts>>

\* Any result qualifies.
AnyResult(c, result) == result \in Endpoint

Qualifies(c, result) == result = claim[c]

\* Awaiting a task that failed or was cancelled.
Throw(c, b) ==
    /\ lookup[c][b] = "thrown"
    /\ End(c, "failed")
    /\ UNCHANGED <<tasks, cts>>

\* The winner does not cancel the others.
WinAlone(c, b) ==
    /\ Qualifies(c, lookup[c][b])
    /\ pc' = [pc EXCEPT ![c] = "won"]
    /\ UNCHANGED <<answer, tasks, cts>>

\* A qualifying result cancels the others.
Win(c, b) ==
    /\ Qualifies(c, lookup[c][b])
    /\ pc' = [pc EXCEPT ![c] = "won"]
    /\ cts' = [cts EXCEPT ![c] = TRUE]
    /\ UNCHANGED <<answer, tasks>>

\* The first endpoint that does not qualify decides.
DropOrDeny(c, b) ==
    /\ lookup[c][b] # "thrown" /\ ~Qualifies(c, lookup[c][b])
    /\ IF lookup[c][b] = Nothing
          THEN tasks' = [tasks EXCEPT ![c] = @ \ {b}] /\ UNCHANGED <<pc, answer>>
          ELSE End(c, "no") /\ UNCHANGED tasks
    /\ UNCHANGED cts

\* Any other result drops its task.
Drop(c, b) ==
    /\ lookup[c][b] # "thrown" /\ ~Qualifies(c, lookup[c][b])
    /\ tasks' = [tasks EXCEPT ![c] = @ \ {b}]
    /\ UNCHANGED <<pc, answer, cts>>

\* The results are looked at when all are there.
TakeWhenAll(c) ==
    /\ pc[c] = "racing"
    /\ \A b \in tasks[c] : ~Running(c, b)
    /\ \E b \in tasks[c] : Throw(c, b) \/ Win(c, b) \/ Drop(c, b)
    /\ UNCHANGED <<bookVars, cache, checkVars, lookup>>

\* Task.WhenAny yields some completed task, and awaiting it its result.
Take(c) ==
    /\ pc[c] = "racing"
    /\ \E b \in tasks[c] :
          ~Running(c, b) /\ (Throw(c, b) \/ Win(c, b) \/ Drop(c, b))
    /\ UNCHANGED <<bookVars, cache, checkVars, lookup>>

NoneQualified(c) ==
    /\ pc[c] = "racing" /\ tasks[c] = {}
    /\ End(c, "no")
    /\ UNCHANGED <<bookVars, cache, checkVars, lookup, tasks, cts>>

\* The first to resolve a name is remembered.
TryAdd(c) ==
    cache' = [cache EXCEPT ![Fold[name[c]]] = IF @ = Nothing THEN claim[c] ELSE @]

Remember(c) ==
    /\ pc[c] = "won"
    /\ TryAdd(c)
    /\ End(c, "yes")
    /\ UNCHANGED <<bookVars, checkVars, lookup, tasks, cts>>

\* The caller's cancellation reaches the linked source while that exists.
Cancel(c) ==
    /\ "cancel" \in Fault
    /\ pc[c] = "racing" /\ ~cts[c]
    /\ cts' = [cts EXCEPT ![c] = TRUE]
    /\ UNCHANGED <<bookVars, cache, checkVars, pc, answer, lookup, tasks>>

-----------------------------------------------------------------------------

\* Whoever has a name's URL serve something publishes another entry there, or the
\* entry goes away.
Publish(s) ==
    /\ changes < MaxChanges
    /\ \E entry \in Entry : held' = [held EXCEPT ![s] = entry]
    /\ changes' = changes + 1
    /\ ever' = ever \cup Entries(held')
    /\ UNCHANGED <<cache, checkVars, pc, answer, lookup, tasks, cts>>

Init ==
    /\ held \in Initially
    /\ changes = 0
    /\ ever = Entries(held)
    /\ cache = [n \in Name |-> Nothing]
    /\ claim \in [Check -> Endpoint]
    /\ name \in [Check -> Name]
    /\ pc = [c \in Check |-> "idle"]
    /\ answer = [c \in Check |-> "none"]
    /\ lookup = [c \in Check |-> [b \in Book |-> "none"]]
    /\ tasks = [c \in Check |-> {}]
    /\ cts = [c \in Check |-> FALSE]

CheckStep(c) == Take(c) \/ NoneQualified(c) \/ Remember(c)

LookupStep(c, b) == Respond(c, b) \/ FailLookup(c, b) \/ TimeOut(c, b)

Next ==
    \/ \E c \in Check : Hit(c) \/ Ask(c) \/ CheckStep(c) \/ Cancel(c)
    \/ \E c \in Check, b \in Book : LookupStep(c, b) \/ AbortLookup(c, b)
    \/ \E s \in Serves : Publish(s)

Spec == Init /\ [][Next]_vars

\* The thread pool runs what a completed task continues with, and a cancelled
\* request ends.  Nothing makes a book respond.
FairSpec ==
    /\ Spec
    /\ \A c \in Check : WF_vars(CheckStep(c))
    /\ \A c \in Check, b \in Book : WF_vars(AbortLookup(c, b))

-----------------------------------------------------------------------------
(***************************************************************************)
(* Properties.                                                             *)
(***************************************************************************)

TypeOK ==
    /\ held \in [Serves -> Entry]
    /\ changes \in 0..MaxChanges
    /\ ever \subseteq Name \X Endpoint
    /\ cache \in [Name -> Endpoint \cup {Nothing}]
    /\ claim \in [Check -> Endpoint] /\ name \in [Check -> Name]
    /\ pc \in [Check -> {"idle", "racing", "won", "over"}]
    /\ answer \in [Check -> {"none", "yes", "no", "failed"}]
    /\ lookup \in [Check -> [Book ->
          Endpoint \cup {Nothing, "none", "running", "thrown"}]]
    /\ tasks \in [Check -> SUBSET Book]
    /\ cts \in [Check -> BOOLEAN]

\* An entry has been published for a name, or for a spelling of it.
Yielded(n, endpoint) == <<n, endpoint>> \in ever

YieldedAs(key, endpoint) == \E n \in Name : Fold[n] = key /\ Yielded(n, endpoint)

\* Whatever a book holds, a lookup brings back or the cache remembers has been
\* published for the name it is kept under.
EndpointsAreYielded ==
    /\ \A s \in Serves : held[s] \in Endpoint => Yielded(s[2], held[s])
    /\ \A c \in Check, b \in Book :
          lookup[c][b] \in Endpoint => Yielded(name[c], lookup[c][b])
    /\ \A n \in Name : cache[n] # Nothing => YieldedAs(n, cache[n])

\* A result that tells that a book has no entry to support the claim.
Denies(c, b) == lookup[c][b] \in (Endpoint \cup {Nothing}) \ {claim[c]}

\* The stages of a check: it asks each book that knows such names once, gives up
\* a task only for a result that denies the claim, and has won only with an
\* endpoint that was published.  Its answer is owed to the cache or to the books.
InOrder(c) ==
    /\ pc[c] = "idle" => \A b \in Book : lookup[c][b] = "none"
    /\ pc[c] # "over" => answer[c] = "none"
    /\ \A b \in Book : Running(c, b) => <<b, name[c]>> \in Serves
    /\ \A b \in tasks[c] : lookup[c][b] # "none"
    /\ pc[c] = "racing" => \A b \in Book \ tasks[c] : Denies(c, b)
    /\ pc[c] = "won" => Yielded(name[c], claim[c])
    /\ answer[c] = "yes" => YieldedAs(Fold[name[c]], claim[c])
    /\ answer[c] = "no" => \/ \A b \in Book : lookup[c][b] = "none"
                           \/ \A b \in Book : Denies(c, b)

ChecksAreInOrder == \A c \in Check : InOrder(c)

\* The cache did not decide.
Asked(c) == \E b \in Book : lookup[c][b] # "none"

\* A check that has found the claiming endpoint with a book.
Verified(c) == answer[c] = "yes" /\ Asked(c)

\* The cache has nothing but what some check has verified.
CacheIsGrounded ==
    /\ \A c \in Check : pc[c] = "won" => Asked(c)
    /\ \A n \in Name : cache[n] # Nothing =>
          \E d \in Check : Verified(d) /\ Fold[name[d]] = n /\ claim[d] = cache[n]

\* A check that is over without having asked a book owes its answer to another
\* check of the same identifier, which did ask and verified what that one
\* claimed - not to one that has only begun, was denied or failed.
ShortcutsAreGrounded ==
    \A c \in Check : answer[c] \in {"yes", "no"} /\ ~Asked(c) /\ Book # {} =>
        \E d \in Check : /\ Verified(d) /\ Fold[name[d]] = Fold[name[c]]
                         /\ answer[c] = "yes" <=> claim[c] = claim[d]

\* The inductive invariant of the checks.
BooksInv ==
    /\ TypeOK /\ EndpointsAreYielded /\ ChecksAreInOrder
    /\ CacheIsGrounded /\ ShortcutsAreGrounded

\* A verified identifier has at some time yielded the endpoint that claims it,
\* by a valid entry of some book - in some spelling, since the cache takes
\* spellings that differ in case for one identifier.
VerifiedIsPublished ==
    \A c \in Check : answer[c] = "yes" => YieldedAs(Fold[name[c]], claim[c])

\* A check that asked the books denies a claim only after every one of them
\* has answered, and none with the endpoint that claims the identifier.
NoIsDeserved ==
    \A c \in Check : answer[c] = "no" /\ Asked(c) => \A b \in Book : Denies(c, b)

\* A qualifying result ends the check even if the other books never respond.
FirstMatchEndsCheck ==
    \A c \in Check :
        (\E b \in Book : Qualifies(c, lookup[c][b])) ~> pc[c] = "over"

\* The slower responses are cancelled: none is waited for in the background.
SlowerAreCancelled ==
    \A c \in Check : answer[c] = "yes" ~> \A b \in Book : ~Running(c, b)
=============================================================================
