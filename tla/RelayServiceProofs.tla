------------------------- MODULE RelayServiceProofs -------------------------
(***************************************************************************)
(* What RelayService promises holds of its specification, one lemma for    *)
(* each promise and one step for each kind of action.                      *)
(***************************************************************************)
EXTENDS RelayService, TLAPS

\* The steps of a request, each with what it does to the request's own phase and
\* answer; nothing else about requests changes.
LEMMA PromiseStep ==
    ASSUME Promise, [ServiceNext]_serviceVars
    PROVE  Promise'
  <1> USE DEF Promise, ServiceTypeOK, Admission, OwnersDecide, WithdrawnOnce,
              PostsAnsweredTruly, ClosedForGood, MoveTo, Finish, Wants, For, ItemOf,
              DeletionAnswered, callVars, stateVars, Lost, Phase, Account, Input, Here
  <1>1. ASSUME NEW r \in Request, Send(r)
        PROVE  Promise'
    <2>0. /\ phase[r] = "unsent" /\ UNCHANGED <<asked, account, mail, got>>
          /\ tooLate' = [tooLate EXCEPT ![r] = DeletionAnswered(For(r))]
          /\ DeletionAnswered(For(r)) \in BOOLEAN
      BY <1>1 DEF Send
    <2>1. ASSUME NEW p \in {"sent", "over"}, NEW s \in {0, 400, 401, 411},
                 phase' = [phase EXCEPT ![r] = p],
                 answer' = [answer EXCEPT ![r] = s],
                 p = "sent" => s = 0
          PROVE  Promise'
      <3>1. ServiceTypeOK' /\ Admission'
        BY <2>0, <2>1
      <3>2. OwnersDecide'
        BY <2>0, <2>1
      <3>3. WithdrawnOnce'
        BY <2>0, <2>1
      <3>4. PostsAnsweredTruly'
        BY <2>0, <2>1
      <3>5. ClosedForGood'
        BY <2>0, <2>1
      <3>6. QED
        BY <3>1, <3>2, <3>3, <3>4, <3>5
    <2> HIDE DEF Promise
    <2>2. CASE phase' = [phase EXCEPT ![r] = "sent"] /\ UNCHANGED answer
      <3>1. answer' = [answer EXCEPT ![r] = 0]
        BY <2>0, <2>2 DEF Promise
      <3>2. QED
        BY <2>1, <2>2, <3>1
    <2>3. CASE /\ phase' = [phase EXCEPT ![r] = "over"]
               /\ \E s \in {400, 401, 411} : answer' = [answer EXCEPT ![r] = s]
      <3>1. CASE answer' = [answer EXCEPT ![r] = 400]
        BY <2>1, <2>3, <3>1
      <3>2. CASE answer' = [answer EXCEPT ![r] = 401]
        BY <2>1, <2>3, <3>2
      <3>3. CASE answer' = [answer EXCEPT ![r] = 411]
        BY <2>1, <2>3, <3>3
      <3>4. QED
        BY <2>3, <3>1, <3>2, <3>3, Zenon
    <2>4. QED
      BY <1>1, <2>2, <2>3 DEF Send
  <1>2. ASSUME NEW r \in Request, Admit(r)
        PROVE  Promise'
    BY <1>2 DEF Admit
  <1>3. ASSUME NEW r \in Request, Refuse(r)
        PROVE  Promise'
    <2>0. PICK s \in {400, 401, 404, 410} :
             /\ phase[r] = "sent" /\ Finish(r, s)
             /\ UNCHANGED <<account, mail, got>>
      BY <1>3 DEF Refuse
    <2>1. ServiceTypeOK' /\ Admission'
      BY <2>0
    <2>2. OwnersDecide'
      BY <2>0
    <2>3. WithdrawnOnce'
      BY <2>0
    <2>4. PostsAnsweredTruly'
      BY <2>0
    <2>5. ClosedForGood'
      BY <2>0
    <2>6. QED
      BY <2>1, <2>2, <2>3, <2>4, <2>5
  <1>4. ASSUME NEW r \in Request, GiveUp(r)
        PROVE  Promise'
    <2>0. PICK s \in {499, 500, 503} :
             /\ phase[r] # "unsent" /\ Finish(r, s)
             /\ s = 503 /\ Wants(r, "post") => mail[r] = "none"
             /\ UNCHANGED <<account, mail, got>>
      BY <1>4 DEF GiveUp
    <2>1. ServiceTypeOK' /\ Admission'
      BY <2>0
    <2>2. OwnersDecide'
      BY <2>0
    <2>3. WithdrawnOnce'
      BY <2>0
    <2>4. PostsAnsweredTruly'
      BY <2>0
    <2>5. ClosedForGood'
      BY <2>0
    <2>6. QED
      BY <2>1, <2>2, <2>3, <2>4, <2>5
  <1>5. ASSUME NEW r \in Request, Create(r)
        PROVE  Promise'
    BY <1>5 DEF Create
  <1>6. ASSUME NEW r \in Request, Close(r)
        PROVE  Promise'
    BY <1>6 DEF Close
  <1>7. ASSUME NEW r \in Request, Deposit(r)
        PROVE  Promise'
    <2>1. ServiceTypeOK' /\ Admission'
      <3>1. CASE UNCHANGED callVars
        BY <1>7, <3>1 DEF Deposit
      <3>2. CASE \E s \in Lost : Finish(r, s)
        BY <1>7, <3>2 DEF Deposit
      <3>3. QED
        BY <1>7, <3>1, <3>2 DEF Deposit
    <2>2. OwnersDecide'
      BY <1>7 DEF Deposit
    <2>3. WithdrawnOnce'
      BY <1>7 DEF Deposit
    <2>4. PostsAnsweredTruly'
      BY <1>7 DEF Deposit
    <2>5. ClosedForGood'
      BY <1>7 DEF Deposit
    <2>6. QED
      BY <2>1, <2>2, <2>3, <2>4, <2>5
  <1>8. ASSUME NEW r \in Request, Accept(r)
        PROVE  Promise'
    BY <1>8 DEF Accept
  <1>9. ASSUME NEW r \in Request, Withdraw(r)
        PROVE  Promise'
    BY <1>9 DEF Withdraw
  <1>10. ASSUME NEW r \in Request, NothingToWithdraw(r)
         PROVE  Promise'
    BY <1>10 DEF NothingToWithdraw
  <1>11. ASSUME NEW r \in Request, HandOut(r)
         PROVE  Promise'
    <2>1. ServiceTypeOK' /\ Admission'
      BY <1>11 DEF HandOut
    <2>2. OwnersDecide'
      BY <1>11 DEF HandOut
    <2>3. WithdrawnOnce'
      BY <1>11 DEF HandOut
    <2>4. PostsAnsweredTruly'
      BY <1>11 DEF HandOut
    <2>5. ClosedForGood'
      BY <1>11 DEF HandOut
    <2>6. QED
      BY <2>1, <2>2, <2>3, <2>4, <2>5
  <1>12. ASSUME NEW r \in Request, Read(r)
         PROVE  Promise'
    BY <1>12 DEF Read
  <1>13. ASSUME NEW m \in Mailbox, Suspend(m)
         PROVE  Promise'
    BY <1>13 DEF Suspend
  <1>14. CASE LoseAccounts
    BY <1>14 DEF LoseAccounts
  <1>15. CASE Crash
    BY <1>15 DEF Crash
  <1>16. CASE UNCHANGED serviceVars
    BY <1>16 DEF serviceVars
  <1>17. ASSUME NEW r \in Request, EndOfPoll(r)
         PROVE  Promise'
    BY <1>17 DEF EndOfPoll
  <1> HIDE DEF Promise, ServiceTypeOK, Admission, OwnersDecide, WithdrawnOnce,
               PostsAnsweredTruly, ClosedForGood, MoveTo, Finish, Wants, For, ItemOf,
               DeletionAnswered, callVars, stateVars, Lost, Phase, Account, Input, Here
  <1>18. ASSUME NEW r \in Request, Entry(r)
         PROVE  Promise'
    BY <1>18, <1>1, <1>2, <1>3, <1>4 DEF Entry
  <1>19. ASSUME NEW r \in Request, Effect(r)
         PROVE  Promise'
    BY <1>19, <1>5, <1>6, <1>7, <1>8, <1>9, <1>10, <1>11, <1>12, <1>17 DEF Effect
  <1>20. QED
    BY <1>13, <1>14, <1>15, <1>16, <1>18, <1>19 DEF ServiceNext

\* RelayService keeps its promises: owners decide, a deletion is confirmed once,
\* posts are answered truly, and a closed mailbox stays closed.
THEOREM PromisesAreKept == ServiceSpec => []Promise
  <1>1. ServiceInit => Promise
    BY DEF ServiceInit, Promise, ServiceTypeOK, Admission, OwnersDecide, WithdrawnOnce,
           PostsAnsweredTruly, ClosedForGood, DeletionAnswered, Phase, Account, Wants, For
  <1>2. Promise /\ [ServiceNext]_serviceVars => Promise'
    BY PromiseStep
  <1>3. QED
    BY <1>1, <1>2, PTL DEF ServiceSpec
=============================================================================
