-------------------------- MODULE AddressBooksProofs --------------------------
(***************************************************************************)
(* Theorems about AddressBooks, for any checks, books, names, foldings and *)
(* faults: what is verified has been published, and what is denied has     *)
(* been denied by every book.                                              *)
(***************************************************************************)
EXTENDS AddressBooks, TLAPS

-----------------------------------------------------------------------------
(***************************************************************************)
(* Types.                                                                  *)
(***************************************************************************)

\* The marks of a task are no results.
LEMMA MarksAreNoResults ==
    /\ Nothing \notin Endpoint
    /\ \A mark \in {"bad", "none", "running", "thrown"} :
          mark \notin Endpoint /\ mark # Nothing
  BY BooksAssumption DEF BooksAssumption

Result == Endpoint \cup {Nothing, "thrown"}

LEMMA BooksAreAsked ==
    ASSUME NEW c \in Check
    PROVE  /\ AskAll(c) \in [Book -> {"running", Nothing}]
           /\ \A b \in Book : AskAll(c)[b] = "running" => <<b, name[c]>> \in Serves
           /\ \A b \in Book : <<b, name[c]>> \in Serves \/ AskAll(c)[b] = Nothing
  BY MarksAreNoResults DEF AskAll

\* A lookup ends its task with a result: what the book holds, nothing, or an
\* exception.
LEMMA LookupEndsItsTask ==
    ASSUME BooksInv, NEW c \in Check, NEW b \in Book,
           LookupStep(c, b) \/ AbortLookup(c, b)
    PROVE  /\ Running(c, b)
           /\ UNCHANGED <<bookVars, cache, checkVars, pc, answer, tasks, cts>>
           /\ \E result \in Result :
                 /\ lookup' = [lookup EXCEPT ![c][b] = result]
                 /\ result \in Endpoint => Yielded(name[c], result)
  <1> DEFINE Ends(result) ==
                 /\ result \in Result
                 /\ Complete(c, b, result)
                 /\ result \in Endpoint => Yielded(name[c], result)
  <1>1. CASE Respond(c, b)
    <2> DEFINE s == <<b, name[c]>>
    <2>1. s \in Serves
      BY <1>1 DEF Respond, BooksInv, ChecksAreInOrder, InOrder
    <2>2. held[s] \in Endpoint \cup {"bad", Nothing}
      BY <2>1 DEF BooksInv, TypeOK, Entry
    <2>3. held[s] \in Endpoint => Yielded(name[c], held[s])
      BY <2>1 DEF BooksInv, EndpointsAreYielded
    <2>4. PICK result : /\ Complete(c, b, result)
                        /\ \/ result = held[s] /\ held[s] # "bad"
                           \/ result \in {Nothing, "thrown"}
      BY <1>1 DEF Respond
    <2>5. result \in Result /\ (result \in Endpoint => Yielded(name[c], result))
      BY <2>2, <2>3, <2>4, MarksAreNoResults DEF Result
    <2>6. Ends(result)
      BY <2>4, <2>5
    <2>7. QED
      BY <2>6 DEF Complete
  <1>2. CASE FailLookup(c, b)
    <2>1. Ends("thrown") \/ Ends(Nothing)
      BY <1>2, MarksAreNoResults DEF FailLookup, Result
    <2>2. QED
      BY <2>1 DEF Complete
  <1>3. CASE TimeOut(c, b) \/ AbortLookup(c, b)
    <2>1. Ends("thrown")
      BY <1>3, MarksAreNoResults DEF TimeOut, AbortLookup, Result
    <2>2. QED
      BY <2>1 DEF Complete
  <1>4. QED
    BY <1>1, <1>2, <1>3 DEF LookupStep

-----------------------------------------------------------------------------
(***************************************************************************)
(* The inductive invariant.                                                *)
(***************************************************************************)

LEMMA BooksInvInitially ==
    ASSUME Init
    PROVE  BooksInv
  <1>1. held \in [Serves -> Entry] /\ Serves \subseteq Book \X Name
    BY InitiallyAssumption, BooksAssumption DEF Init, InitiallyAssumption, BooksAssumption
  <1>2. ever \subseteq Name \X Endpoint
    BY <1>1 DEF Init, Entries
  <1>3. cts \in [Check -> BOOLEAN]
    BY Zenon DEF Init
  <1>4. TypeOK
    BY <1>1, <1>2, <1>3, BooksAssumption DEF Init, TypeOK, BooksAssumption
  <1>5. EndpointsAreYielded
    BY <1>1, MarksAreNoResults DEF Init, EndpointsAreYielded, Entries, Yielded
  <1>6. ChecksAreInOrder
    BY DEF Init, ChecksAreInOrder, InOrder, Running
  <1>7. CacheIsGrounded /\ ShortcutsAreGrounded
    BY DEF Init, CacheIsGrounded, ShortcutsAreGrounded
  <1>8. QED
    BY <1>4, <1>5, <1>6, <1>7 DEF BooksInv

LEMMA TypeOKStep ==
    ASSUME BooksInv, [Next]_vars
    PROVE  TypeOK'
  <1> USE DEF BooksInv, TypeOK, bookVars, checkVars
  <1>1. ASSUME NEW c \in Check, NEW b \in Book, LookupStep(c, b) \/ AbortLookup(c, b)
        PROVE  TypeOK'
    <2>1. PICK result \in Result : lookup' = [lookup EXCEPT ![c][b] = result]
      BY <1>1, LookupEndsItsTask
    <2>2. UNCHANGED <<bookVars, cache, checkVars, pc, answer, tasks, cts>>
      BY <1>1, LookupEndsItsTask
    <2>3. QED
      BY <2>1, <2>2 DEF Result
  <1>2. ASSUME NEW c \in Check, Hit(c) \/ Ask(c) PROVE TypeOK'
    <2>1. CASE Hit(c)
      BY <1>2, <2>1 DEF Hit, End
    <2>2. CASE Ask(c)
      <3>1. lookup' = [lookup EXCEPT ![c] = AskAll(c)]
            /\ AskAll(c) \in [Book -> {"running", Nothing}]
        BY <2>2, BooksAreAsked DEF Ask
      <3>2. lookup' \in [Check -> [Book ->
                Endpoint \cup {Nothing, "none", "running", "thrown"}]]
        BY <3>1
      <3>3. QED
        BY <2>2, <3>2 DEF Ask
    <2>3. QED
      BY <1>2, <2>1, <2>2
  <1>3. ASSUME NEW c \in Check, Take(c) PROVE TypeOK'
    <2>1. PICK b \in tasks[c] : Throw(c, b) \/ Win(c, b) \/ Drop(c, b)
      BY <1>3 DEF Take
    <2>2. CASE Throw(c, b)
      BY <1>3, <2>2 DEF Take, Throw, End
    <2>3. CASE Win(c, b)
      <3>1. cts' \in [Check -> BOOLEAN]
        BY <2>3, Zenon DEF Win
      <3>2. QED
        BY <1>3, <2>3, <3>1 DEF Take, Win
    <2>4. CASE Drop(c, b)
      BY <1>3, <2>4 DEF Take, Drop
    <2>5. QED
      BY <2>1, <2>2, <2>3, <2>4
  <1>4. ASSUME NEW c \in Check, NoneQualified(c) PROVE TypeOK'
    BY <1>4 DEF NoneQualified, End
  <1>5. ASSUME NEW c \in Check, Remember(c) PROVE TypeOK'
    <2>1. Fold[name[c]] \in Name
      BY BooksAssumption DEF BooksAssumption
    <2>2. cache' \in [Name -> Endpoint \cup {Nothing}]
      BY <1>5, <2>1 DEF Remember, TryAdd
    <2>3. QED
      BY <1>5, <2>2 DEF Remember, End
  <1>6. ASSUME NEW c \in Check, Cancel(c) PROVE TypeOK'
    <2>1. cts' \in [Check -> BOOLEAN]
      BY <1>6, Zenon DEF Cancel
    <2>2. QED
      BY <1>6, <2>1 DEF Cancel
  <1>7. ASSUME NEW s \in Serves, Publish(s) PROVE TypeOK'
    <2>1. held' \in [Serves -> Entry]
      BY <1>7 DEF Publish
    <2>2. Entries(held') \subseteq Name \X Endpoint
      BY <2>1, BooksAssumption DEF Entries, BooksAssumption
    <2>3. changes' \in 0..MaxChanges
      BY <1>7, BooksAssumption DEF Publish, BooksAssumption
    <2>4. QED
      BY <1>7, <2>1, <2>2, <2>3 DEF Publish
  <1>8. CASE UNCHANGED vars
    BY <1>8 DEF vars
  <1>9. QED
    BY <1>1, <1>2, <1>3, <1>4, <1>5, <1>6, <1>7, <1>8 DEF Next, CheckStep

\* The cache takes an endpoint only from a check that has won, and what was
\* published stays so in history.
LEMMA EndpointsAreYieldedStep ==
    ASSUME BooksInv, [Next]_vars
    PROVE  EndpointsAreYielded'
  <1> USE DEF Yielded, YieldedAs, bookVars, checkVars
  <1>1. ASSUME NEW c \in Check, NEW b \in Book, LookupStep(c, b) \/ AbortLookup(c, b)
        PROVE  EndpointsAreYielded'
    <2>1. PICK result \in Result :
                /\ lookup' = [lookup EXCEPT ![c][b] = result]
                /\ result \in Endpoint => <<name[c], result>> \in ever
      BY <1>1, LookupEndsItsTask
    <2>2. UNCHANGED <<bookVars, cache, checkVars>>
      BY <1>1, LookupEndsItsTask
    <2>3. QED
      BY <2>1, <2>2 DEF BooksInv, TypeOK, EndpointsAreYielded
  <1> USE DEF BooksInv, TypeOK, EndpointsAreYielded
  <1>2. ASSUME NEW c \in Check, Ask(c) PROVE EndpointsAreYielded'
    <2>1. UNCHANGED <<held, ever, cache, name>>
      BY <1>2 DEF Ask
    <2>2. \A b \in Book : lookup'[c][b] \notin Endpoint
      <3>1. lookup'[c] = AskAll(c)
        BY <1>2 DEF Ask
      <3>2. \A b \in Book : AskAll(c)[b] = "running" \/ AskAll(c)[b] = Nothing
        BY BooksAreAsked
      <3>3. QED
        BY <3>1, <3>2, MarksAreNoResults
    <2>3. \A q \in Check \ {c} : lookup'[q] = lookup[q]
      BY <1>2 DEF Ask
    <2>4. QED
      BY <2>1, <2>2, <2>3
  <1>3. ASSUME NEW c \in Check, Hit(c) \/ Take(c) \/ NoneQualified(c) \/ Cancel(c)
        PROVE  EndpointsAreYielded'
    BY <1>3 DEF Hit, Take, NoneQualified, Cancel
  <1>4. ASSUME NEW c \in Check, Remember(c) PROVE EndpointsAreYielded'
    <2>1. Yielded(name[c], claim[c])
      BY <1>4 DEF Remember, ChecksAreInOrder, InOrder
    <2>2. YieldedAs(Fold[name[c]], claim[c])
      BY <2>1
    <2>3. QED
      BY <1>4, <2>2 DEF Remember, TryAdd
  <1>5. ASSUME NEW s \in Serves, Publish(s) PROVE EndpointsAreYielded'
    <2>1. \A t \in Serves : held'[t] \in Endpoint => <<t[2], held'[t]>> \in ever'
      BY <1>5 DEF Publish, Entries
    <2>2. ever \subseteq ever'
      BY <1>5 DEF Publish
    <2>3. QED
      BY <1>5, <2>1, <2>2 DEF Publish
  <1>6. CASE UNCHANGED vars
    BY <1>6 DEF vars
  <1>7. QED
    BY <1>1, <1>2, <1>3, <1>4, <1>5, <1>6 DEF Next, CheckStep

\* What concerns one check only leaves the others as they are.
LEMMA OthersStayInOrder ==
    ASSUME NEW q \in Check, InOrder(q), ever \subseteq ever',
           UNCHANGED <<claim, name>>, pc'[q] = pc[q], answer'[q] = answer[q],
           lookup'[q] = lookup[q], tasks'[q] = tasks[q]
    PROVE  InOrder(q)'
  BY DEF InOrder, Running, Denies, Yielded, YieldedAs

LEMMA OneCheckAtATime ==
    ASSUME BooksInv, NEW c \in Check,
           Hit(c) \/ Ask(c) \/ CheckStep(c) \/ Cancel(c)
           \/ \E b \in Book : LookupStep(c, b) \/ AbortLookup(c, b),
           NEW q \in Check, q # c
    PROVE  InOrder(q)'
  <1>1. UNCHANGED <<ever, claim, name>> /\ pc'[q] = pc[q] /\ answer'[q] = answer[q]
        /\ lookup'[q] = lookup[q] /\ tasks'[q] = tasks[q]
    <2>1. CASE Hit(c) \/ Ask(c) \/ CheckStep(c) \/ Cancel(c)
      BY <2>1
         DEF BooksInv, TypeOK, Hit, Ask, End, CheckStep, Take, Throw, Win, Drop, NoneQualified,
             Remember, Cancel, bookVars, checkVars
    <2>2. CASE \E b \in Book : LookupStep(c, b) \/ AbortLookup(c, b)
      <3>1. PICK b \in Book : LookupStep(c, b) \/ AbortLookup(c, b)
        BY <2>2
      <3>2. PICK result \in Result : lookup' = [lookup EXCEPT ![c][b] = result]
        BY <3>1, LookupEndsItsTask
      <3>3. UNCHANGED <<bookVars, cache, checkVars, pc, answer, tasks, cts>>
        BY <3>1, LookupEndsItsTask
      <3>4. QED
        BY <3>2, <3>3 DEF BooksInv, TypeOK, bookVars, checkVars
    <2>3. QED
      BY <2>1, <2>2
  <1>2. QED
    BY <1>1, OthersStayInOrder DEF BooksInv, ChecksAreInOrder

LEMMA LookupStaysInOrder ==
    ASSUME BooksInv, NEW c \in Check, NEW b \in Book, LookupStep(c, b) \/ AbortLookup(c, b)
    PROVE  InOrder(c)'
  <1>1. PICK result \in Result : lookup' = [lookup EXCEPT ![c][b] = result]
    BY LookupEndsItsTask
  <1>2. lookup[c][b] = "running"
        /\ UNCHANGED <<held, changes, ever, cache, claim, name, pc, answer, tasks, cts>>
    BY LookupEndsItsTask DEF Running, bookVars, checkVars
  <1>3. lookup'[c][b] = result /\ \A a \in Book \ {b} : lookup'[c][a] = lookup[c][a]
    BY <1>1 DEF BooksInv, TypeOK
  <1>4. result # "none" /\ result # "running"
    BY MarksAreNoResults DEF Result
  <1>5. InOrder(c) /\ ~Denies(c, b)
    BY <1>2, MarksAreNoResults DEF BooksInv, ChecksAreInOrder, Denies
  <1>6. pc[c] # "idle" /\ answer[c] # "no" /\ (pc[c] = "racing" => b \in tasks[c])
    BY <1>2, <1>5 DEF InOrder
  <1>7. \A a \in Book : Denies(c, a) => Denies(c, a)'
    BY <1>2, <1>3, <1>5 DEF Denies
  <1>8. \A a \in tasks'[c] : lookup'[c][a] # "none"
    <2>1. \A a \in tasks[c] : lookup[c][a] # "none" /\ a \in Book
      BY <1>5 DEF BooksInv, TypeOK, InOrder
    <2>2. QED
      BY <1>2, <1>3, <1>4, <2>1
  <1>9. \A a \in Book : Running(c, a)' => <<a, name'[c]>> \in Serves
    BY <1>2, <1>3, <1>4, <1>5 DEF InOrder, Running
  <1>10. pc'[c] = "racing" => \A a \in Book \ tasks'[c] : Denies(c, a)'
    BY <1>2, <1>5, <1>6, <1>7 DEF InOrder
  <1>11. QED
    BY <1>2, <1>5, <1>6, <1>8, <1>9, <1>10 DEF InOrder, Yielded, YieldedAs

\* A check takes a result once it is there, drops its task only if the result
\* denies the claim, and wins only with what a book has yielded.
LEMMA TakeStaysInOrder ==
    ASSUME BooksInv, NEW c \in Check, Take(c)
    PROVE  InOrder(c)'
  <1> USE DEF BooksInv, TypeOK, Running, Denies, Yielded, YieldedAs, bookVars, checkVars
  <1>1. InOrder(c)
    BY DEF ChecksAreInOrder
  <1>2. PICK b \in tasks[c] : ~Running(c, b) /\ (Throw(c, b) \/ Win(c, b) \/ Drop(c, b))
    BY DEF Take
  <1>3. pc[c] = "racing" /\ answer[c] = "none" /\ b \in Book
        /\ UNCHANGED <<held, changes, ever, cache, claim, name, lookup>>
    BY <1>1 DEF Take, InOrder
  <1>4. CASE Throw(c, b)
    BY <1>1, <1>3, <1>4 DEF Throw, End, InOrder
  <1>5. CASE Win(c, b)
    <2>1. lookup[c][b] = claim[c] /\ claim[c] \in Endpoint
      BY <1>5 DEF Win, Qualifies
    <2>2. Yielded(name[c], claim[c])
      BY <1>3, <2>1 DEF EndpointsAreYielded
    <2>3. QED
      BY <1>1, <1>3, <1>5, <2>2 DEF Win, InOrder
  <1>6. CASE Drop(c, b)
    <2>1. lookup[c][b] # "none" /\ lookup[c][b] # "running"
      BY <1>1, <1>2 DEF InOrder
    <2>2. Denies(c, b)
      BY <1>3, <1>6, <2>1 DEF Drop, Qualifies
    <2>3. QED
      BY <1>1, <1>3, <1>6, <2>2 DEF Drop, InOrder
  <1>7. QED
    BY <1>2, <1>4, <1>5, <1>6

LEMMA ChecksAreInOrderStep ==
    ASSUME BooksInv, [Next]_vars
    PROVE  ChecksAreInOrder'
  <1>1. ASSUME NEW c \in Check, Hit(c) PROVE InOrder(c)'
    <2> DEFINE hit == cache[Fold[name[c]]]
    <2>1. hit # Nothing /\ hit \in Endpoint /\ Fold[name[c]] \in Name
      BY <1>1, BooksAssumption DEF Hit, BooksInv, TypeOK, BooksAssumption
    <2>2. YieldedAs(Fold[name[c]], hit)
      BY <2>1 DEF BooksInv, EndpointsAreYielded
    <2>3. pc'[c] = "over" /\ answer'[c] = (IF hit = claim[c] THEN "yes" ELSE "no")
          /\ UNCHANGED <<held, changes, ever, cache, claim, name, lookup, tasks, cts>>
      BY <1>1 DEF Hit, End, BooksInv, TypeOK, bookVars, checkVars
    <2>4. InOrder(c) /\ pc[c] = "idle"
      BY <1>1 DEF Hit, BooksInv, ChecksAreInOrder
    <2>5. QED
      BY <2>2, <2>3, <2>4 DEF InOrder, Running, Yielded, YieldedAs
  <1>2. ASSUME NEW c \in Check, Ask(c) PROVE InOrder(c)'
    <2>1. InOrder(c) /\ pc[c] = "idle"
      BY <1>2 DEF Ask, BooksInv, ChecksAreInOrder
    <2>2. answer[c] = "none"
      BY <2>1 DEF InOrder
    <2>3. pc'[c] = "racing" /\ lookup'[c] = AskAll(c)
          /\ tasks'[c] = {b \in Book : <<b, name[c]>> \in Serves}
          /\ UNCHANGED <<held, changes, ever, cache, claim, name, answer, cts>>
      BY <1>2 DEF Ask, BooksInv, TypeOK, bookVars, checkVars
    <2>4. \A b \in Book : /\ lookup'[c][b] \in {"running", Nothing}
                          /\ lookup'[c][b] = "running" => <<b, name[c]>> \in Serves
                          /\ b \notin tasks'[c] => lookup'[c][b] = Nothing
      BY <2>3, BooksAreAsked
    <2>5. claim[c] # Nothing /\ tasks'[c] \subseteq Book
      BY <2>3, MarksAreNoResults DEF BooksInv, TypeOK
    <2>6. QED
      BY <2>2, <2>3, <2>4, <2>5, MarksAreNoResults DEF InOrder, Running, Denies
  <1>3. ASSUME NEW c \in Check, NoneQualified(c) PROVE InOrder(c)'
    <2>1. InOrder(c)
      BY DEF BooksInv, ChecksAreInOrder
    <2>2. pc[c] = "racing" /\ tasks[c] = {} /\ pc'[c] = "over" /\ answer'[c] = "no"
          /\ UNCHANGED <<held, changes, ever, cache, claim, name, lookup, tasks, cts>>
      BY <1>3 DEF NoneQualified, End, BooksInv, TypeOK, bookVars, checkVars
    <2>3. \A b \in Book : Denies(c, b)'
      BY <2>1, <2>2 DEF InOrder, Denies
    <2>4. QED
      BY <2>1, <2>2, <2>3 DEF InOrder, Running
  <1>4. ASSUME NEW c \in Check, Remember(c) PROVE InOrder(c)'
    <2>1. InOrder(c)
      BY DEF BooksInv, ChecksAreInOrder
    <2>2. pc[c] = "won" /\ pc'[c] = "over" /\ answer'[c] = "yes"
          /\ UNCHANGED <<held, changes, ever, claim, name, lookup, tasks, cts>>
      BY <1>4 DEF Remember, End, BooksInv, TypeOK, bookVars, checkVars
    <2>3. YieldedAs(Fold[name[c]], claim[c])'
      BY <2>1, <2>2 DEF InOrder, Yielded, YieldedAs, BooksInv, TypeOK
    <2>4. QED
      BY <2>1, <2>2, <2>3 DEF InOrder, Running
  <1>5. ASSUME NEW c \in Check, Cancel(c) PROVE InOrder(c)'
    BY <1>5 DEF Cancel, BooksInv, ChecksAreInOrder, InOrder, Running, Denies, Yielded,
                YieldedAs, bookVars, checkVars
  <1>6. ASSUME NEW c \in Check,
               Hit(c) \/ Ask(c) \/ CheckStep(c) \/ Cancel(c)
               \/ \E b \in Book : LookupStep(c, b) \/ AbortLookup(c, b)
        PROVE  ChecksAreInOrder'
    <2>1. InOrder(c)'
      BY <1>1, <1>2, <1>3, <1>4, <1>5, <1>6, LookupStaysInOrder, TakeStaysInOrder
         DEF CheckStep
    <2>2. \A q \in Check : q # c => InOrder(q)'
      BY <1>6, OneCheckAtATime
    <2>3. QED
      BY <2>1, <2>2 DEF ChecksAreInOrder
  <1>7. ASSUME NEW s \in Serves, Publish(s) PROVE ChecksAreInOrder'
    <2>1. ever \subseteq ever' /\ UNCHANGED <<claim, name, pc, answer, lookup, tasks>>
      BY <1>7 DEF Publish, checkVars
    <2>2. QED
      BY <2>1, OthersStayInOrder DEF BooksInv, ChecksAreInOrder
  <1>8. CASE UNCHANGED vars
    BY <1>8, OthersStayInOrder DEF vars, bookVars, checkVars, BooksInv, ChecksAreInOrder
  <1>9. QED
    BY <1>6, <1>7, <1>8 DEF Next

\* What has asked a book, or verified its claim, has done so for good.
LEMMA VerifiedForGood ==
    ASSUME BooksInv, [Next]_vars
    PROVE  /\ UNCHANGED <<claim, name>>
           /\ \A d \in Check : Asked(d) => Asked(d)'
           /\ \A d \in Check : Verified(d) => Verified(d)'
  <1>1. ASSUME NEW c \in Check, NEW b \in Book, LookupStep(c, b) \/ AbortLookup(c, b)
        PROVE  /\ UNCHANGED <<claim, name, answer>>
               /\ \A d \in Check : Asked(d) => Asked(d)'
    <2>1. PICK result \in Result : lookup' = [lookup EXCEPT ![c][b] = result]
      BY <1>1, LookupEndsItsTask
    <2>2. UNCHANGED <<checkVars, answer>>
      BY <1>1, LookupEndsItsTask
    <2>3. result # "none"
      BY <2>1, MarksAreNoResults DEF Result
    <2>4. \A d \in Check, a \in Book : lookup[d][a] # "none" => lookup'[d][a] # "none"
      BY <2>1, <2>3 DEF BooksInv, TypeOK
    <2>5. QED
      BY <2>2, <2>4 DEF Asked, checkVars
  <1>2. ASSUME NEW c \in Check, Ask(c)
        PROVE  /\ UNCHANGED <<claim, name, answer>>
               /\ \A d \in Check : Asked(d) => Asked(d)'
    <2>1. ~Asked(c)
      BY <1>2 DEF Ask, Asked, BooksInv, ChecksAreInOrder, InOrder
    <2>2. \A d \in Check \ {c} : lookup'[d] = lookup[d]
      BY <1>2 DEF Ask, BooksInv, TypeOK
    <2>3. QED
      BY <1>2, <2>1, <2>2 DEF Ask, Asked, checkVars
  <1>3. ASSUME NEW c \in Check, Hit(c) \/ CheckStep(c) \/ Cancel(c)
        PROVE  /\ UNCHANGED <<claim, name, lookup>>
               /\ \A d \in Check : answer[d] = "yes" => answer'[d] = "yes"
    <2>1. UNCHANGED <<claim, name, lookup>>
      BY <1>3 DEF Hit, CheckStep, Take, NoneQualified, Remember, Cancel, checkVars
    <2>2. \/ UNCHANGED answer
          \/ pc[c] # "over" /\ \E how \in {"yes", "no", "failed"} : End(c, how)
      BY <1>3 DEF Hit, CheckStep, Take, Throw, Win, Drop, NoneQualified, Remember, Cancel
    <2>3. pc[c] # "over" => answer[c] = "none"
      BY DEF BooksInv, ChecksAreInOrder, InOrder
    <2>4. QED
      BY <2>1, <2>2, <2>3 DEF End, BooksInv, TypeOK
  <1>4. CASE (\E s \in Serves : Publish(s)) \/ UNCHANGED vars
    BY <1>4 DEF Publish, vars, checkVars, Asked, Verified
  <1>5. ASSUME NEW c \in Check, Hit(c) \/ Ask(c) \/ CheckStep(c) \/ Cancel(c)
        PROVE  /\ UNCHANGED <<claim, name>>
               /\ \A d \in Check : Asked(d) => Asked(d)'
               /\ \A d \in Check : Verified(d) => Verified(d)'
    BY <1>2, <1>3, <1>5 DEF Asked, Verified
  <1>6. ASSUME NEW c \in Check, NEW b \in Book, LookupStep(c, b) \/ AbortLookup(c, b)
        PROVE  /\ UNCHANGED <<claim, name>>
               /\ \A d \in Check : Asked(d) => Asked(d)'
               /\ \A d \in Check : Verified(d) => Verified(d)'
    BY <1>1, <1>6 DEF Verified
  <1>7. QED
    BY <1>4, <1>5, <1>6 DEF Next

\* The cache takes an endpoint only from a check that has asked the books, in the
\* step in which it says yes.
LEMMA CacheIsGroundedStep ==
    ASSUME BooksInv, [Next]_vars
    PROVE  CacheIsGrounded'
  <1>1. UNCHANGED <<claim, name>> /\ \A d \in Check : Verified(d) => Verified(d)'
    BY VerifiedForGood
  <1>2. ASSUME NEW c \in Check, pc'[c] = "won" PROVE Asked(c)'
    <2>1. CASE pc[c] = "won"
      BY <2>1, VerifiedForGood DEF BooksInv, CacheIsGrounded
    <2>2. CASE pc[c] # "won"
      <3>1. Take(c)
        <4>1. ASSUME NEW q \in Check, Hit(q) \/ Ask(q) \/ NoneQualified(q) \/ Remember(q)
              PROVE  pc'[c] # "won"
          BY <2>2, <4>1 DEF Hit, Ask, NoneQualified, Remember, End, BooksInv, TypeOK
        <4>2. ASSUME NEW q \in Check, q # c, Take(q) PROVE pc'[c] = pc[c]
          BY <4>2 DEF Take, Throw, Win, Drop, End, BooksInv, TypeOK
        <4>3. ASSUME NEW q \in Check, NEW b \in Book, LookupStep(q, b) \/ AbortLookup(q, b)
              PROVE  pc' = pc
          BY <4>3, LookupEndsItsTask
        <4>4. QED
          BY <1>2, <2>2, <4>1, <4>2, <4>3 DEF Next, CheckStep, Cancel, Publish, vars
      <3>2. PICK b \in tasks[c] : Throw(c, b) \/ Win(c, b) \/ Drop(c, b)
        BY <3>1 DEF Take
      <3>3. Win(c, b)
        BY <1>2, <2>2, <3>2 DEF Throw, Drop, End, BooksInv, TypeOK
      <3>4. lookup[c][b] # "none" /\ b \in Book
        BY <3>3, MarksAreNoResults DEF Win, Qualifies, BooksInv, TypeOK
      <3>5. QED
        BY <3>4, VerifiedForGood DEF Asked
    <2>3. QED
      BY <2>1, <2>2
  <1>3. ASSUME NEW n \in Name, cache'[n] # Nothing
        PROVE  \E d \in Check : /\ Verified(d)' /\ Fold[name'[d]] = n
                                /\ claim'[d] = cache'[n]
    <2>1. CASE cache'[n] = cache[n]
      BY <1>1, <1>3, <2>1 DEF BooksInv, CacheIsGrounded
    <2>2. CASE cache'[n] # cache[n]
      <3>1. PICK c \in Check : Remember(c)
        BY <2>2, LookupEndsItsTask
           DEF Next, Hit, Ask, CheckStep, Take, NoneQualified, Cancel, Publish, vars
      <3>2. n = Fold[name[c]] /\ cache'[n] = claim[c]
        BY <2>2, <3>1 DEF Remember, TryAdd, BooksInv, TypeOK
      <3>3. answer'[c] = "yes" /\ Asked(c)
        BY <3>1 DEF Remember, End, BooksInv, TypeOK, CacheIsGrounded
      <3>4. Verified(c)'
        BY <3>3, VerifiedForGood DEF Verified
      <3>5. QED
        BY <1>1, <3>2, <3>4
    <2>3. QED
      BY <2>1, <2>2
  <1>4. QED
    BY <1>2, <1>3 DEF CacheIsGrounded

LEMMA ShortcutsAreGroundedStep ==
    ASSUME BooksInv, [Next]_vars
    PROVE  ShortcutsAreGrounded'
  <1>1. /\ UNCHANGED <<claim, name>>
        /\ \A d \in Check : (Asked(d) => Asked(d)') /\ (Verified(d) => Verified(d)')
    BY VerifiedForGood
  <1>2. SUFFICES ASSUME NEW c \in Check, answer'[c] \in {"yes", "no"}, ~Asked(c)', Book # {}
                 PROVE  \E d \in Check : /\ Verified(d)' /\ Fold[name[d]] = Fold[name[c]]
                                         /\ answer'[c] = "yes" <=> claim[c] = claim[d]
    BY <1>1 DEF ShortcutsAreGrounded
  <1>3. CASE answer'[c] = answer[c]
    <2>1. PICK d \in Check : /\ Verified(d) /\ Fold[name[d]] = Fold[name[c]]
                             /\ answer[c] = "yes" <=> claim[c] = claim[d]
      BY <1>1, <1>2, <1>3 DEF BooksInv, ShortcutsAreGrounded
    <2>2. QED
      BY <1>1, <1>3, <2>1
  <1>4. CASE answer'[c] # answer[c]
    <2>1. Hit(c) \/ Take(c) \/ NoneQualified(c) \/ Remember(c)
      <3>1. ASSUME NEW q \in Check, q # c,
                   Hit(q) \/ Take(q) \/ NoneQualified(q) \/ Remember(q)
            PROVE  answer'[c] = answer[c]
        BY <3>1 DEF Hit, Take, Throw, Win, Drop, NoneQualified, Remember, End, BooksInv, TypeOK
      <3>2. ASSUME NEW q \in Check, NEW b \in Book, LookupStep(q, b) \/ AbortLookup(q, b)
            PROVE  answer' = answer
        BY <3>2, LookupEndsItsTask
      <3>3. QED
        BY <1>4, <3>1, <3>2 DEF Next, CheckStep, Ask, Cancel, Publish, vars
    <2>2. CASE Hit(c)
      <3>1. /\ cache[Fold[name[c]]] # Nothing /\ Fold[name[c]] \in Name
            /\ answer'[c] = IF cache[Fold[name[c]]] = claim[c] THEN "yes" ELSE "no"
        BY <2>2, BooksAssumption DEF Hit, End, BooksInv, TypeOK, BooksAssumption
      <3>2. PICK d \in Check : /\ Verified(d) /\ Fold[name[d]] = Fold[name[c]]
                               /\ claim[d] = cache[Fold[name[c]]]
        BY <3>1 DEF BooksInv, CacheIsGrounded
      <3>3. QED
        BY <1>1, <3>1, <3>2
    <2>3. CASE Take(c)
      BY <1>2, <1>4, <2>3 DEF Take, Throw, Win, Drop, End, BooksInv, TypeOK
    <2>4. CASE NoneQualified(c)
      <3>1. \A b \in Book : Denies(c, b)
        BY <2>4 DEF NoneQualified, BooksInv, ChecksAreInOrder, InOrder
      <3>2. Asked(c)
        BY <1>2, <3>1, MarksAreNoResults DEF Denies, Asked
      <3>3. QED
        BY <1>1, <1>2, <3>2
    <2>5. CASE Remember(c)
      BY <1>1, <1>2, <2>5 DEF Remember, BooksInv, CacheIsGrounded
    <2>6. QED
      BY <2>1, <2>2, <2>3, <2>4, <2>5
  <1>5. QED
    BY <1>3, <1>4

\* What books hold, lookups bring back and the cache remembers, and the stages of
\* each check, whatever fails, hangs, is cancelled or is published meanwhile.
THEOREM BooksInvariant == Spec => []BooksInv
  <1>1. BooksInv /\ [Next]_vars => BooksInv'
    BY TypeOKStep, EndpointsAreYieldedStep, ChecksAreInOrderStep, CacheIsGroundedStep,
       ShortcutsAreGroundedStep
       DEF BooksInv
  <1>2. QED
    BY <1>1, BooksInvInitially, PTL DEF Spec

-----------------------------------------------------------------------------
(***************************************************************************)
(* What the checks promise.                                                *)
(***************************************************************************)

\* An identifier is verified only for an endpoint that a book has yielded for it,
\* in some spelling.
THEOREM VerificationIsGrounded == Spec => []VerifiedIsPublished
  <1>1. BooksInv => VerifiedIsPublished
    BY DEF BooksInv, ChecksAreInOrder, InOrder, VerifiedIsPublished
  <1>2. QED
    BY <1>1, BooksInvariant, PTL

\* A check that asked the books denies a claim only when every one of them has
\* answered, and none with the endpoint that claims the identifier.
THEOREM DenialIsDeserved == Spec => []NoIsDeserved
  <1>1. BooksInv => NoIsDeserved
    BY DEF BooksInv, ChecksAreInOrder, InOrder, NoIsDeserved, Asked
  <1>2. QED
    BY <1>1, BooksInvariant, PTL

\* A check that the cache decides answers as another check has verified it with
\* the books, whatever checks overlap, fail or are denied.
THEOREM ShortcutsFollowVerification == Spec => []ShortcutsAreGrounded
  <1>1. BooksInv => ShortcutsAreGrounded
    BY DEF BooksInv
  <1>2. QED
    BY <1>1, BooksInvariant, PTL
=============================================================================
