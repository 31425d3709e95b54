------------------------ MODULE PostalServiceProofs ------------------------
(***************************************************************************)
(* What holds of sending and receiving for any number of endpoints, calls  *)
(* and windows, and however much goes wrong.                               *)
(***************************************************************************)
EXTENDS PostalRefinement, TLAPS

LEMMA InitInv == Init => PostalInv
  <1> SUFFICES ASSUME Init PROVE PostalInv
    OBVIOUS
  <1> USE PostAssumption, WindowAssumption DEF Init, SendInit
  <1>1. SendInv
    BY DEF SendInv, SendTypeOK, Stage
  <1>2. ReceiveTypeOK
    BY DEF ReceiveTypeOK, Busy, Alarm
  <1>3. PlacesAreRight /\ ItemsHaveArrived /\ NothingComesAgain
    BY DEF PlacesAreRight, ItemsHaveArrived, NothingComesAgain, Busy
  <1>4. NothingIsLost /\ SleepersHaveLooked
    BY DEF NothingIsLost, SleepersHaveLooked
  <1> QED
    BY <1>1, <1>2, <1>3, <1>4 DEF PostalInv

-----------------------------------------------------------------------------
(***************************************************************************)
(* Sending.                                                                *)
(***************************************************************************)

\* A step that changes neither loops nor inboxes keeps what is known of them.
LEMMA QuietStep ==
    ASSUME PostalInv, SendInv',
           UNCHANGED <<receiveVars, message, inbox, arrived, alerted>>,
           faults' = 0 => faults = 0
    PROVE  PostalInv'
  <1> USE DEF PostalInv, receiveVars
  <1>1. ReceiveTypeOK' /\ PlacesAreRight' /\ ItemsHaveArrived'
    BY DEF ReceiveTypeOK, PlacesAreRight, ItemsHaveArrived
  <1>2. NothingComesAgain'
    BY DEF NothingComesAgain
  <1>3. NothingIsLost'
    BY DEF NothingIsLost, ShownTo
  <1>4. SleepersHaveLooked'
    BY DEF SleepersHaveLooked
  <1> QED
    BY <1>1, <1>2, <1>3, <1>4

LEMMA FaultCount ==
    ASSUME SendTypeOK, NEW f, GoesWrong(f)
    PROVE  faults' \in 0..MaxFaults /\ faults' # 0
  BY PostAssumption DEF SendTypeOK, GoesWrong

LEMMA MessageShape ==
    ASSUME SendTypeOK, NEW p \in Post
    PROVE  message[p] \in Message /\ message[p].to \subseteq Endpoint
  BY PostAssumption DEF SendTypeOK, Message

\* The steps of a call of PostAsync other than the relay's.
LEMMA CallStep ==
    ASSUME PostalInv, UNCHANGED receiveVars, NEW p \in Post,
           \/ Upload(p) \/ UploadFails(p) \/ Return(p) \/ Expire(p)
           \/ \E e \in Endpoint : GetReceipt(p, e) \/ GetError(p, e)
    PROVE  PostalInv'
  <1> USE PostAssumption, MessageShape DEF PostalInv, SendInv, SendTypeOK, Stage
  <1>1. CASE Upload(p)
    BY <1>1, QuietStep DEF Upload
  <1>2. CASE UploadFails(p)
    BY <1>2, QuietStep, FaultCount DEF UploadFails
  <1>3. CASE Return(p)
    BY <1>3, QuietStep DEF Return, relayVars
  <1>4. CASE Expire(p)
    BY <1>4, QuietStep, FaultCount DEF Expire, sendVars
  <1>5. ASSUME NEW e \in Endpoint, GetReceipt(p, e) PROVE PostalInv'
    BY <1>5, QuietStep DEF GetReceipt, Sending, relayVars
  <1>6. ASSUME NEW e \in Endpoint, GetError(p, e) PROVE PostalInv'
    BY <1>6, QuietStep, FaultCount DEF GetError, Sending, relayVars
  <1> QED
    BY <1>1, <1>2, <1>3, <1>4, <1>5, <1>6

LEMMA StoreStep ==
    ASSUME PostalInv, UNCHANGED receiveVars,
           NEW p \in Post, NEW e \in Endpoint, Store(p, e)
    PROVE  PostalInv'
  <1> USE PostAssumption, WindowAssumption DEF PostalInv, Store, sendVars, receiveVars
  <1>1. SendInv'
    <2> USE DEF SendInv, SendTypeOK
    <2>1. e \in message[p].to /\ (stage[p] = "posting" \/ outcome[p][e] # "none")
      BY DEF Sending
    <2>2. \A c \in Endpoint : /\ arrived[c] \subseteq arrived'[c]
                              /\ \A q \in Post : q \in arrived'[c] =>
                                    q \in arrived[c] \/ (q = p /\ c = e)
                              /\ inbox'[c] \subseteq arrived'[c]
                              /\ alerted[c] \subseteq arrived'[c]
      OBVIOUS
    <2>3. /\ inbox' \in [Endpoint -> SUBSET Post]
          /\ arrived' \in [Endpoint -> SUBSET Post]
      OBVIOUS
    <2>4. UNCHANGED <<message, stage, outcome, payload, alerted, faults>>
      BY DEF relayVars
    <2>5. SendTypeOK'
      BY <2>3, <2>4
    <2>6. \A q \in Post, c \in Endpoint :
             /\ outcome[q][c] # "none" => c \in message[q].to
             /\ outcome[q][c] = "receipt" => q \in arrived'[c]
             /\ outcome[q][c] = "error" => faults # 0
             /\ q \in arrived'[c] =>
                   c \in message[q].to /\ (stage[q] = "posting" \/ outcome[q][c] # "none")
      BY <2>1, <2>2
    <2> HIDE DEF Store, PostalInv
    <2>7. \A q \in Post : stage[q] = "returned" =>
             \A c \in message[q].to : outcome[q][c] = "receipt"
      BY DEF PostalInv
    <2> QED
      BY <2>2, <2>4, <2>5, <2>6, <2>7
  <1>2. ReceiveTypeOK' /\ PlacesAreRight' /\ ItemsHaveArrived'
    BY DEF SendInv, SendTypeOK, ReceiveTypeOK, PlacesAreRight, ItemsHaveArrived
  <1>3. NothingComesAgain'
    BY DEF SendInv, SendTypeOK, ReceiveTypeOK, NothingComesAgain, ItemsHaveArrived
  <1>4. NothingIsLost'
    BY DEF SendInv, SendTypeOK, NothingIsLost, ShownTo
  <1>5. SleepersHaveLooked'
    <2>1. \A c \in Endpoint : alerted[c] \cap inbox'[c] = alerted[c] \cap inbox[c]
      BY DEF SendInv, SendTypeOK
    <2>2. UNCHANGED <<alerted, alarm, pc>>
      OBVIOUS
    <2> HIDE DEF Store
    <2> QED
      BY <2>1, <2>2 DEF SleepersHaveLooked
  <1> QED
    BY <1>1, <1>2, <1>3, <1>4, <1>5

-----------------------------------------------------------------------------
(***************************************************************************)
(* Receiving.                                                              *)
(***************************************************************************)

\* Calls do not notice what a loop does.
LEMMA CallsUnaffected ==
    ASSUME PostalInv, UNCHANGED <<sendVars, payload, arrived, alerted>>,
           inbox' \in [Endpoint -> SUBSET Post], faults' \in 0..MaxFaults,
           faults' = 0 => faults = 0, \A e \in Endpoint : inbox'[e] \subseteq inbox[e]
    PROVE  SendInv'
  BY DEF PostalInv, SendInv, SendTypeOK, sendVars

\* A step of a loop that leaves the relay alone.
LEMMA RelayUnaffected ==
    ASSUME PostalInv, UNCHANGED <<sendVars, relayVars>>, faults' \in 0..MaxFaults,
           faults' = 0 => faults = 0, \A w \in Window : shown[w] \subseteq shown'[w]
    PROVE  SendInv' /\ NothingIsLost'
  <1>1. SendInv'
    BY CallsUnaffected DEF PostalInv, SendInv, SendTypeOK, relayVars
  <1>2. NothingIsLost'
    BY DEF PostalInv, NothingIsLost, ShownTo, sendVars, relayVars
  <1> QED
    BY <1>1, <1>2

\* A loop that does not go to sleep disturbs no sleeper.
LEMMA SleepersStay ==
    ASSUME PostalInv, NEW w \in Window, UNCHANGED alerted,
           \A e \in Endpoint : inbox'[e] \subseteq inbox[e],
           \A v \in Window \ {w} : pc'[v] = pc[v] /\ alarm'[v] = alarm[v],
           pc'[w] # "waiting", alarm'[w] # "lost" \/ alarm'[w] = alarm[w]
    PROVE  SleepersHaveLooked'
  BY WindowAssumption DEF PostalInv, SleepersHaveLooked

\* The end of an enumeration keeps everything, whether the loop goes on or not.
LEMMA LeaveStep ==
    ASSUME PostalInv, NEW w \in Window, NEW l \in {"idle", "ended"}, Leave(w, l),
           UNCHANGED shown, failed' \in [Window -> BOOLEAN],
           UNCHANGED <<sendVars, payload, arrived, alerted>>,
           faults' \in 0..MaxFaults, faults' = 0 => faults = 0, SendInv', NothingIsLost',
           faults' = 0 => pc[w] # "delete",
           \A e \in Endpoint : inbox'[e] \subseteq inbox[e]
    PROVE  PostalInv'
  <1> USE WindowAssumption DEF Leave, PostalInv, Busy, sendVars
  <1>1. ReceiveTypeOK'
    BY DEF ReceiveTypeOK, Alarm
  <1>2. PlacesAreRight'
    BY DEF PlacesAreRight, ReceiveTypeOK
  <1>3. ItemsHaveArrived'
    BY DEF ItemsHaveArrived, ReceiveTypeOK
  <1>4. NothingComesAgain'
    <2> SUFFICES ASSUME faults' = 0, NEW v \in Window, NEW p \in shown[v]
                 PROVE  /\ p \notin todo'[v]
                        /\ pc'[v] = "download" => item'[v] # p
                        /\ p \in inbox'[Owner[v]] => pc'[v] = "delete" /\ item'[v] = p
      BY DEF NothingComesAgain
    <2>1. /\ p \notin todo[v]
          /\ pc[v] = "download" => item[v] # p
          /\ p \in inbox[Owner[v]] => pc[v] = "delete" /\ item[v] = p
      BY DEF NothingComesAgain
    <2>2. p \in inbox'[Owner[v]] => p \in inbox[Owner[v]]
      OBVIOUS
    <2>3. CASE v = w
      BY <2>1, <2>2, <2>3 DEF ReceiveTypeOK
    <2>4. CASE v # w
      BY <2>1, <2>2, <2>4 DEF ReceiveTypeOK
    <2> QED
      BY <2>3, <2>4
  <1>5. SleepersHaveLooked'
    BY SleepersStay DEF ReceiveTypeOK
  <1> QED
    BY <1>1, <1>2, <1>3, <1>4, <1>5

\* The steps of a poll at the relay.
LEMMA PollStep ==
    ASSUME PostalInv, NEW w \in Window, Ask(w) \/ List(w) \/ Sleep(w) \/ Awaken(w)
    PROVE  PostalInv'
  <1> USE WindowAssumption DEF PostalInv, ReceiveTypeOK, Busy
  <1>1. /\ UNCHANGED <<sendVars, relayVars, faults, failed, item, shown>>
        /\ UNCHANGED <<message, inbox, arrived, alerted>>
        /\ item[w] = NoPost
    BY DEF Ask, List, Sleep, Awaken, sendVars, relayVars
  <1>2. /\ pc' \in [Window -> {"idle", "listing", "waiting", "asking", "reading", "ended"}
                               \cup Busy]
        /\ \A v \in Window \ {w} : pc'[v] = pc[v] /\ alarm'[v] = alarm[v]
        /\ pc'[w] \in {"listing", "waiting", "asking"}
        /\ pc[w] \in {"idle", "listing", "waiting"}
        /\ alarm' \in [Window -> Alarm]
        /\ alarm'[w] # "none" <=> pc'[w] \in {"listing", "waiting"}
    BY DEF Ask, List, Sleep, Awaken, Alarm
  <1>3. /\ todo' \in [Window -> SUBSET Post]
        /\ \A v \in Window : todo'[v] \subseteq todo[v] \cup inbox[Owner[v]]
        /\ todo'[w] \subseteq todo[w] \/ todo'[w] = inbox[Owner[w]]
        /\ \A v \in Window \ {w} : todo'[v] = todo[v]
    <2>1. inbox[Owner[w]] \in SUBSET Post
      BY DEF SendInv, SendTypeOK
    <2>2. UNCHANGED todo \/ todo' = [todo EXCEPT ![w] = inbox[Owner[w]]]
      BY DEF Ask, List, Sleep, Awaken, Listing
    <2> QED
      BY <2>1, <2>2
  <1>4. SendInv' /\ NothingIsLost'
    BY <1>1, RelayUnaffected DEF SendInv, SendTypeOK
  <1>5. ReceiveTypeOK'
    BY <1>1, <1>2, <1>3
  <1>6. PlacesAreRight'
    BY <1>1, <1>2 DEF PlacesAreRight
  <1>7. ItemsHaveArrived'
    <2>1. \A e \in Endpoint : inbox[e] \subseteq arrived[e]
      BY DEF SendInv
    <2> QED
      BY <1>1, <1>2, <1>3, <2>1 DEF ItemsHaveArrived
  <1>8. NothingComesAgain'
    BY <1>1, <1>2, <1>3 DEF NothingComesAgain
  <1>9. SleepersHaveLooked'
    <2>1. CASE Sleep(w)
      BY <1>1, <1>2, <2>1 DEF Sleep, Listing, SleepersHaveLooked
    <2>2. CASE ~Sleep(w)
      <3>1. pc'[w] # "waiting" /\ alarm'[w] # "lost"
        BY <2>2 DEF Ask, List, Awaken
      <3> QED
        BY <1>1, <1>2, <3>1, SleepersStay
    <2> QED
      BY <2>1, <2>2
  <1> QED
    BY <1>4, <1>5, <1>6, <1>7, <1>8, <1>9

\* The relay's alert wakes the polls it finds waiting.
LEMMA AlertStep ==
    ASSUME PostalInv, NEW p \in Post, NEW e \in Endpoint, Alert(p, e)
    PROVE  PostalInv'
  <1> USE WindowAssumption DEF PostalInv
  <1>1. /\ UNCHANGED <<pc, failed, todo, item, shown, message, stage, outcome>>
        /\ UNCHANGED <<payload, inbox, arrived, faults, sendVars>>
        /\ p \in arrived[e]
    BY DEF Alert, Announce, sendVars
  <1>2. /\ alerted' \in [Endpoint -> SUBSET Post]
        /\ alerted'[e] = alerted[e] \cup {p}
        /\ \A c \in Endpoint \ {e} : alerted'[c] = alerted[c]
    BY DEF Alert, Announce, SendInv, SendTypeOK
  <1>3. PICK late \in SUBSET {w \in Registered(e) : pc[w] = "listing"} :
           alarm' = [w \in Window |-> IF w \notin Registered(e) THEN alarm[w]
                                      ELSE IF w \in late THEN "lost" ELSE "rung"]
    BY DEF Alert
  <1>4. \A w \in Window :
           \/ alarm'[w] = alarm[w] /\ ~(Owner[w] = e /\ alarm[w] = "set")
           \/ alarm'[w] = "lost" /\ Owner[w] = e /\ pc[w] = "listing" /\ alarm[w] = "set"
           \/ alarm'[w] = "rung" /\ Owner[w] = e /\ alarm[w] = "set"
    BY <1>3 DEF Registered
  <1>5. SendInv'
    BY <1>1, <1>2 DEF SendInv, SendTypeOK
  <1>6. ReceiveTypeOK'
    <2>1. alarm' \in [Window -> Alarm]
      BY <1>3 DEF ReceiveTypeOK, Alarm
    <2> QED
      BY <1>1, <1>4, <2>1 DEF ReceiveTypeOK
  <1>7. PlacesAreRight' /\ ItemsHaveArrived' /\ NothingComesAgain'
    BY <1>1 DEF PlacesAreRight, ItemsHaveArrived, NothingComesAgain
  <1>8. NothingIsLost'
    BY <1>1 DEF NothingIsLost, ShownTo
  <1>9. SleepersHaveLooked'
    <2> SUFFICES ASSUME NEW w \in Window
                 PROVE  /\ alarm'[w] = "lost" => alerted'[Owner[w]] # {}
                        /\ pc[w] = "waiting" /\ alarm'[w] = "lost" =>
                              \E q \in alerted'[Owner[w]] : q \notin inbox[Owner[w]]
                        /\ pc[w] = "waiting" /\ alarm'[w] = "set" =>
                              alerted'[Owner[w]] \cap inbox[Owner[w]] = {}
      BY <1>1 DEF SleepersHaveLooked
    <2>1. alerted[Owner[w]] \subseteq alerted'[Owner[w]]
      BY <1>2
    <2>2. CASE alarm'[w] = alarm[w] /\ ~(Owner[w] = e /\ alarm[w] = "set")
      BY <1>2, <2>1, <2>2 DEF SleepersHaveLooked
    <2>3. CASE alarm'[w] = "lost" /\ Owner[w] = e /\ pc[w] = "listing"
      BY <1>2, <2>3
    <2>4. CASE alarm'[w] = "rung"
      BY <2>4
    <2> QED
      BY <1>4, <2>2, <2>3, <2>4
  <1> QED
    BY <1>5, <1>6, <1>7, <1>8, <1>9

LEMMA AnswerStep ==
    ASSUME PostalInv, NEW w \in Window, Answer(w)
    PROVE  PostalInv'
  <1> USE WindowAssumption DEF Answer, PostalInv, sendVars, relayVars
  <1>1. SendInv' /\ NothingIsLost'
    BY RelayUnaffected DEF SendInv, SendTypeOK
  <1>2. todo' \in [Window -> SUBSET Post] /\ \A v \in Window : todo'[v] \subseteq todo[v]
    BY DEF ReceiveTypeOK
  <1>3. ReceiveTypeOK' /\ PlacesAreRight' /\ ItemsHaveArrived' /\ NothingComesAgain'
    <2> USE <1>2 DEF ReceiveTypeOK, Busy
    <2>1. ReceiveTypeOK'
      OBVIOUS
    <2>2. PlacesAreRight'
      BY DEF PlacesAreRight
    <2>3. ItemsHaveArrived'
      BY DEF ItemsHaveArrived
    <2>4. NothingComesAgain'
      BY DEF NothingComesAgain
    <2> QED
      BY <2>1, <2>2, <2>3, <2>4
  <1>4. SleepersHaveLooked'
    BY SleepersStay DEF ReceiveTypeOK
  <1> QED
    BY <1>1, <1>3, <1>4

LEMMA OpenStep ==
    ASSUME PostalInv, NEW w \in Window, NEW p \in Post, Open(w, p)
    PROVE  PostalInv'
  <1> USE WindowAssumption DEF Open, PostalInv, sendVars, relayVars
  <1>1. SendInv' /\ NothingIsLost'
    BY RelayUnaffected DEF SendInv, SendTypeOK
  <1>2. message[p].kind \in {"dart", "corrupt", "other", "bad"}
    BY MessageShape DEF SendInv, Message
  <1>3. ReceiveTypeOK'
    BY DEF ReceiveTypeOK, Busy, PlaceFor
  <1>4. PlacesAreRight'
    BY <1>2 DEF PlacesAreRight, PlaceFor, ReceiveTypeOK, Busy
  <1>5. ItemsHaveArrived'
    BY DEF ItemsHaveArrived, ReceiveTypeOK, Busy, PlaceFor
  <1>6. NothingComesAgain'
    BY DEF NothingComesAgain, ReceiveTypeOK, PlaceFor
  <1>7. SleepersHaveLooked'
    BY SleepersStay DEF PlaceFor, ReceiveTypeOK
  <1> QED
    BY <1>1, <1>3, <1>4, <1>5, <1>6, <1>7

LEMMA DownloadStep ==
    ASSUME PostalInv, NEW w \in Window, Download(w)
    PROVE  PostalInv'
  <1> USE WindowAssumption DEF PostalInv, sendVars, relayVars
  <1>1. CASE pc'[w] = "delete"
    <2> USE <1>1 DEF Download, Leave, Again, ReceiveTypeOK
    <2>1. /\ shown' = [shown EXCEPT ![w] = @ \cup {item[w]}]
          /\ pc' = [pc EXCEPT ![w] = "delete"]
          /\ message[item[w]].kind = "dart"
          /\ pc[w] = "download"
          /\ item[w] \in Post
          /\ UNCHANGED <<item, alarm, todo, failed, message, inbox, arrived, alerted>>
          /\ UNCHANGED faults
      BY DEF Busy
    <2>2. SendInv' /\ NothingIsLost'
      BY <2>1, RelayUnaffected DEF SendInv, SendTypeOK
    <2>3. ReceiveTypeOK'
      BY <2>1 DEF Busy
    <2>4. PlacesAreRight'
      BY <2>1 DEF PlacesAreRight
    <2>5. ItemsHaveArrived'
      BY <2>1 DEF ItemsHaveArrived, Busy
    <2>6. NothingComesAgain'
      BY <2>1 DEF NothingComesAgain, ItemsHaveArrived, Busy
    <2>7. SleepersHaveLooked'
      BY <2>1, SleepersStay
    <2> QED
      BY <2>2, <2>3, <2>4, <2>5, <2>6, <2>7
  <1>2. CASE pc'[w] # "delete"
    <2>1. /\ pc[w] = "download"
          /\ failed' \in [Window -> BOOLEAN]
          /\ \E l \in {"idle", "ended"} : Leave(w, l)
          /\ UNCHANGED <<shown, sendVars, relayVars, faults>>
      BY <1>2 DEF Download, Again, ReceiveTypeOK
    <2>2. SendInv' /\ NothingIsLost'
      BY <2>1, RelayUnaffected DEF SendInv, SendTypeOK
    <2> QED
      BY <2>1, <2>2, LeaveStep DEF SendInv, SendTypeOK
  <1> QED
    BY <1>1, <1>2

\* What a loop deletes is no loss.
LEMMA RemovalIsRight ==
    ASSUME PostalInv, NEW w \in Window, pc[w] \in {"discard", "delete"},
           Remove(item[w], Owner[w]), UNCHANGED <<sendVars, shown>>,
           faults' \in 0..MaxFaults, faults' = 0 => faults = 0
    PROVE  /\ SendInv' /\ NothingIsLost'
           /\ \A e \in Endpoint : inbox'[e] \subseteq inbox[e]
           /\ item[w] \notin inbox'[Owner[w]]
  <1> USE WindowAssumption DEF Remove, PostalInv, sendVars
  <1>1. /\ inbox' \in [Endpoint -> SUBSET Post]
        /\ \A e \in Endpoint : inbox'[e] \subseteq inbox[e]
        /\ item[w] \notin inbox'[Owner[w]]
    BY DEF SendInv, SendTypeOK
  <1>2. SendInv'
    BY <1>1, CallsUnaffected
  <1>3. NothingIsLost'
    <2> SUFFICES ASSUME NEW e \in Endpoint, NEW p \in arrived[e], p \notin inbox'[e]
                 PROVE  /\ message[p].kind \in {"dart", "corrupt"} => ShownTo(p, e)
                        /\ message[p].kind = "other" =>
                              \E v \in PurgeUnsupported : Owner[v] = e
      BY DEF NothingIsLost, ShownTo
    <2>1. CASE p \notin inbox[e]
      BY <2>1 DEF NothingIsLost
    <2>2. CASE p \in inbox[e]
      <3>1. p = item[w] /\ e = Owner[w]
        BY <2>2 DEF SendInv, SendTypeOK
      <3>2. CASE pc[w] = "delete"
        BY <3>1, <3>2 DEF PlacesAreRight, ShownTo
      <3>3. CASE pc[w] = "discard"
        BY <3>1, <3>3 DEF PlacesAreRight
      <3> QED
        BY <3>2, <3>3
    <2> QED
      BY <2>1, <2>2
  <1> QED
    BY <1>1, <1>2, <1>3

LEMMA DeletionStep ==
    ASSUME PostalInv, NEW w \in Window, Discard(w) \/ Delete(w)
    PROVE  PostalInv'
  <1>1. /\ pc[w] \in {"discard", "delete"}
        /\ Remove(item[w], Owner[w])
        /\ GoOn(w)
        /\ UNCHANGED <<alarm, todo, failed, shown, sendVars, faults>>
    BY DEF Discard, Delete
  <1>2. faults' \in 0..MaxFaults
    BY <1>1 DEF PostalInv, SendInv, SendTypeOK
  <1>3. /\ SendInv' /\ NothingIsLost'
        /\ \A e \in Endpoint : inbox'[e] \subseteq inbox[e]
        /\ item[w] \notin inbox'[Owner[w]]
    BY <1>1, <1>2, RemovalIsRight
  <1> USE <1>1, WindowAssumption DEF PostalInv, GoOn, Busy, ReceiveTypeOK, sendVars
  <1>4. ReceiveTypeOK'
    OBVIOUS
  <1>5. PlacesAreRight'
    BY DEF PlacesAreRight
  <1>6. ItemsHaveArrived'
    BY DEF ItemsHaveArrived, Remove
  <1>7. NothingComesAgain'
    <2> SUFFICES ASSUME faults' = 0, NEW v \in Window, NEW p \in shown[v]
                 PROVE  /\ p \notin todo[v]
                        /\ pc'[v] = "download" => item'[v] # p
                        /\ p \in inbox'[Owner[v]] => pc'[v] = "delete" /\ item'[v] = p
      BY DEF NothingComesAgain
    <2>1. /\ p \notin todo[v]
          /\ pc[v] = "download" => item[v] # p
          /\ p \in inbox[Owner[v]] => pc[v] = "delete" /\ item[v] = p
      BY DEF NothingComesAgain
    <2>2. p \in inbox'[Owner[v]] => p \in inbox[Owner[v]]
      BY <1>3
    <2>3. CASE v = w
      BY <1>3, <2>1, <2>2, <2>3
    <2>4. CASE v # w
      BY <2>1, <2>2, <2>4
    <2> QED
      BY <2>3, <2>4
  <1>8. SleepersHaveLooked'
    BY <1>3, SleepersStay DEF Remove
  <1> QED
    BY <1>3, <1>4, <1>5, <1>6, <1>7, <1>8

\* The ways in which an enumeration ends.
LEMMA EndStep ==
    ASSUME PostalInv, NEW w \in Window,
           Finish(w) \/ Disconnect(w) \/ TimeOut(w) \/ Close(w)
    PROVE  PostalInv'
  <1> USE DEF PostalInv
  <1>1. SendTypeOK /\ failed \in [Window -> BOOLEAN]
    BY DEF SendInv, ReceiveTypeOK
  <1>2. CASE Finish(w)
    <2>1. /\ pc[w] = "reading" /\ Leave(w, "idle") /\ failed' \in [Window -> BOOLEAN]
          /\ UNCHANGED <<shown, sendVars, relayVars, faults>>
      BY <1>1, <1>2 DEF Finish, Again
    <2>2. faults' \in 0..MaxFaults
      BY <1>1, <2>1 DEF SendTypeOK
    <2>3. SendInv' /\ NothingIsLost'
      BY <2>1, <2>2, RelayUnaffected
    <2> QED
      BY <2>1, <2>2, <2>3, LeaveStep DEF relayVars
  <1>3. CASE Disconnect(w)
    <2>1. /\ Leave(w, "idle") /\ failed' \in [Window -> BOOLEAN]
          /\ UNCHANGED <<shown, sendVars>>
          /\ \/ UNCHANGED relayVars
             \/ pc[w] \in {"discard", "delete"} /\ Remove(item[w], Owner[w])
      BY <1>1, <1>3 DEF Disconnect, Again
    <2>2. faults' \in 0..MaxFaults /\ faults' # 0
      BY <1>1, <1>3, FaultCount DEF Disconnect
    <2>3. /\ SendInv' /\ NothingIsLost'
          /\ \A e \in Endpoint : inbox'[e] \subseteq inbox[e]
          /\ UNCHANGED <<payload, arrived, alerted>>
      <3>1. CASE UNCHANGED relayVars
        BY <2>1, <2>2, <3>1, RelayUnaffected DEF relayVars
      <3>2. CASE pc[w] \in {"discard", "delete"} /\ Remove(item[w], Owner[w])
        BY <2>1, <2>2, <3>2, RemovalIsRight DEF Remove
      <3> QED
        BY <2>1, <3>1, <3>2
    <2> QED
      BY <2>1, <2>2, <2>3, LeaveStep
  <1>4. CASE TimeOut(w) \/ Close(w)
    <2>1. /\ Leave(w, "ended")
          /\ UNCHANGED <<failed, shown, sendVars, relayVars>>
      BY <1>4 DEF TimeOut, Close
    <2>2. faults' \in 0..MaxFaults /\ faults' # 0
      BY <1>1, <1>4, FaultCount DEF TimeOut, Close
    <2>3. SendInv' /\ NothingIsLost'
      BY <2>1, <2>2, RelayUnaffected
    <2> QED
      BY <1>1, <2>1, <2>2, <2>3, LeaveStep DEF relayVars
  <1> QED
    BY <1>2, <1>3, <1>4

-----------------------------------------------------------------------------

LEMMA NextInv == PostalInv /\ [Next]_vars => PostalInv'
  <1> SUFFICES ASSUME PostalInv, [Next]_vars PROVE PostalInv'
    OBVIOUS
  <1>1. CASE Sender /\ UNCHANGED receiveVars
    BY <1>1, CallStep, StoreStep DEF Sender, SendStep
  <1>2. ASSUME NEW w \in Window, ReceiveStep(w) PROVE PostalInv'
    BY <1>2, PollStep, AnswerStep, OpenStep, DownloadStep, DeletionStep, EndStep
       DEF ReceiveStep
  <1>3. ASSUME NEW w \in Window, Disconnect(w) \/ TimeOut(w) \/ Close(w)
        PROVE  PostalInv'
    BY <1>3, EndStep
  <1>4. CASE UNCHANGED vars
    BY <1>4, QuietStep
       DEF vars, sendVars, relayVars, receiveVars, PostalInv, SendInv, SendTypeOK
  <1>5. ASSUME NEW p \in Post, NEW e \in Endpoint, Alert(p, e) PROVE PostalInv'
    BY <1>5, AlertStep
  <1> QED
    BY <1>1, <1>2, <1>3, <1>4, <1>5 DEF Next, Receiver

\* The invariant from which the rest follows.
THEOREM PostalInvariant == Spec => []PostalInv
  BY InitInv, NextInv, PTL DEF Spec

\* Every variable has its type, and a loop an item exactly while it is busy with
\* one, however many windows, calls and failures there are.
THEOREM PostalTypes == Spec => []TypeOK
  <1>1. PostalInv => TypeOK
    BY DEF PostalInv, SendInv, TypeOK
  <1> QED
    BY <1>1, PostalInvariant, PTL

\* When PostAsync returns, every recipient has had the item; when it is over at
\* all, it knows something of every item that has arrived.
THEOREM ReceiptsHold == Spec => []ReceiptsAreTruthful
  <1>1. PostalInv => ReceiptsAreTruthful
    BY MessageShape DEF PostalInv, SendInv, ReceiptsAreTruthful
  <1> QED
    BY <1>1, PostalInvariant, PTL

\* No item leaves its inbox unseen, whatever windows and failures there are.
THEOREM NoLoss == Spec => []NothingIsLost
  <1>1. PostalInv => NothingIsLost
    BY DEF PostalInv
  <1> QED
    BY <1>1, PostalInvariant, PTL

\* No window shows a message again unless something has failed.
THEOREM NoRepetition == Spec => []ShownOnce
  <1>1. PostalInv => ShownOnce
    BY DEF PostalInv, NothingComesAgain, ShownOnce, SendInv, SendTypeOK
  <1> QED
    BY <1>1, PostalInvariant, PTL

\* No poll sleeps while an announced item is there, unless an announced item has
\* been deleted, whatever order alerts, listings and deletions come in.
THEOREM SleepersAreExcused == Spec => []SleepIsExcused
  <1>1. PostalInv => SleepIsExcused
    BY DEF PostalInv, SleepersHaveLooked, SleepIsExcused, ReceiveTypeOK, Alarm
  <1> QED
    BY <1>1, PostalInvariant, PTL

-----------------------------------------------------------------------------
(***************************************************************************)
(* The refinement of DeliveryService.                                      *)
(***************************************************************************)

\* Once something has gone wrong, that stays known.
LEMMA TroubleStays ==
    ASSUME faults' = 0 => faults = 0
    PROVE  (faults' # 0) \in {faults # 0, TRUE}
  <1>1. CASE faults' # 0
    BY <1>1, Zenon
  <1>2. CASE faults' = 0
    BY <1>2, Zenon
  <1> QED
    BY <1>1, <1>2

\* A message is in one of three places at an inbox.
LEMMA Places ==
    ASSUME PostalInv, NEW e \in Endpoint, NEW p \in Post
    PROVE  /\ boxMap[e][p] = "waiting" <=> p \in inbox[e]
           /\ boxMap[e][p] = "none" <=> p \notin arrived[e]
           /\ boxMap[e][p] = "gone" <=> p \in arrived[e] \ inbox[e]
  BY DEF PostalInv, SendInv, boxMap, BoxOf

\* Steps that no application sees.
LEMMA Invisible ==
    ASSUME UNCHANGED <<message, toldMap, boxMap, shown>>, faults' = 0 => faults = 0
    PROVE  Delivery!DeliveryNext
  BY TroubleStays DEF Delivery!DeliveryNext

LEMMA InitRefines == Init => Delivery!DeliveryInit
  BY DEF Init, SendInit, Delivery!DeliveryInit, boxMap, BoxOf, toldMap

\* What a call tells its caller.
LEMMA AnswerRefines ==
    ASSUME PostalInv, UNCHANGED receiveVars, NEW p \in Post, UploadFails(p) \/ Return(p)
    PROVE  Delivery!DeliveryNext
  <1> USE DEF PostalInv, SendInv
  <1>1. /\ UNCHANGED <<message, boxMap, shown>> /\ toldMap[p] = "pending"
        /\ \A s \in {"returned", "threw"} :
              stage' = [stage EXCEPT ![p] = s] => toldMap' = [toldMap EXCEPT ![p] = s]
    <2>1. /\ UNCHANGED <<message, inbox, arrived, shown>>
          /\ stage[p] \in {"idle", "posting"}
      BY DEF UploadFails, Return, receiveVars, relayVars
    <2>2. toldMap[p] = "pending"
      BY <2>1 DEF toldMap
    <2>3. ASSUME NEW s \in {"returned", "threw"}, stage' = [stage EXCEPT ![p] = s]
          PROVE  toldMap' = [toldMap EXCEPT ![p] = s]
      BY <2>3 DEF toldMap, SendTypeOK
    <2> QED
      BY <2>1, <2>2, <2>3 DEF boxMap, BoxOf
  <1>2. /\ UploadFails(p) => faults' # 0
        /\ Return(p) => UNCHANGED faults
    BY FaultCount DEF UploadFails, Return
  <1>3. CASE stage' = [stage EXCEPT ![p] = "returned"] /\ Return(p)
    <2>1. \A e \in message[p].to : outcome[p][e] = "receipt"
      BY <1>3 DEF Return, SendTypeOK
    <2>2. \A e \in message[p].to : boxMap[e][p] # "none"
      BY <2>1, Places, MessageShape
    <2> QED
      BY <1>1, <1>2, <1>3, <2>2, TroubleStays DEF Delivery!DeliveryNext, Delivery!Confirm
  <1>4. CASE stage' = [stage EXCEPT ![p] = "threw"] /\ faults' # 0
    BY <1>1, <1>2, <1>4, TroubleStays DEF Delivery!DeliveryNext, Delivery!Fail
  <1>5. CASE UploadFails(p)
    BY <1>2, <1>4, <1>5 DEF UploadFails
  <1>6. CASE Return(p)
    <2>1. CASE \A e \in message[p].to : outcome[p][e] = "receipt"
      BY <1>3, <1>6, <2>1 DEF Return
    <2>2. CASE ~\A e \in message[p].to : outcome[p][e] = "receipt"
      <3>1. PICK e \in message[p].to : outcome[p][e] # "receipt"
        BY <2>2
      <3>2. outcome[p][e] = "error"
        BY <1>6, <3>1, MessageShape DEF Return, SendTypeOK
      <3>3. faults # 0 /\ UNCHANGED faults
        BY <1>6, <3>2, MessageShape DEF Return
      <3> QED
        BY <1>4, <1>6, <2>2, <3>3 DEF Return
    <2> QED
      BY <2>1, <2>2
  <1> QED
    BY <1>5, <1>6

LEMMA StoreRefines ==
    ASSUME PostalInv, UNCHANGED receiveVars,
           NEW p \in Post, NEW e \in Endpoint, Store(p, e)
    PROVE  Delivery!DeliveryNext
  <1> USE DEF PostalInv, SendInv, SendTypeOK
  <1>1. /\ e \in message[p].to /\ toldMap[p] # "returned"
        /\ p \notin arrived[e]
    <2>1. \A c \in message[p].to : stage[p] = "returned" => outcome[p][c] = "receipt"
      OBVIOUS
    <2> QED
      BY <2>1 DEF Store, Sending, toldMap
  <1>2. UNCHANGED <<message, toldMap, shown, faults>>
    BY DEF Store, sendVars, receiveVars, toldMap
  <1>3. boxMap' = [boxMap EXCEPT ![e][p] = "waiting"]
    <2>1. \A c \in Endpoint, q \in Post :
             BoxOf(c, q)' = IF c = e /\ q = p THEN "waiting" ELSE BoxOf(c, q)
      BY DEF Store, BoxOf
    <2> HIDE DEF PostalInv, SendInv, SendTypeOK
    <2> QED
      BY <2>1 DEF boxMap
  <1>4. Delivery!Deliver(p, e)
    BY <1>1, <1>2, <1>3, Places DEF Delivery!Deliver
  <1> QED
    BY <1>2, <1>4, TroubleStays DEF Delivery!DeliveryNext

\* What a loop deletes may go.
LEMMA RemovalRefines ==
    ASSUME PostalInv, NEW w \in Window, pc[w] \in {"discard", "delete"},
           Remove(item[w], Owner[w]), UNCHANGED <<sendVars, shown>>,
           faults' = 0 => faults = 0
    PROVE  Delivery!DeliveryNext
  <1> USE WindowAssumption DEF PostalInv
  <1>1. /\ item[w] \in Post /\ Owner[w] \in Endpoint
        /\ Delivery!Dispensable(item[w], Owner[w])
    BY DEF ReceiveTypeOK, Busy, PlacesAreRight, Delivery!Dispensable
  <1>2. UNCHANGED <<message, toldMap, shown, arrived>>
    BY DEF sendVars, toldMap, Remove
  <1>3. CASE item[w] \in inbox[Owner[w]]
    <2>1. \A e \in Endpoint, p \in Post :
             BoxOf(e, p)' = IF e = Owner[w] /\ p = item[w] THEN "gone" ELSE BoxOf(e, p)
      BY <1>1, <1>2, <1>3 DEF Remove, BoxOf, SendInv, SendTypeOK
    <2>2. boxMap' = [boxMap EXCEPT ![Owner[w]][item[w]] = "gone"]
      BY <1>1, <2>1 DEF boxMap
    <2>3. Delivery!Take(item[w], Owner[w])
      BY <1>1, <1>2, <1>3, <2>2, Places DEF Delivery!Take
    <2> QED
      BY <1>1, <2>3, TroubleStays DEF Delivery!DeliveryNext
  <1>4. CASE item[w] \notin inbox[Owner[w]]
    <2>1. inbox' = inbox
      BY <1>1, <1>4 DEF Remove, SendInv, SendTypeOK
    <2> QED
      BY <1>2, <2>1, Invisible DEF boxMap, BoxOf
  <1> QED
    BY <1>3, <1>4

\* The other steps of sending are nobody's business.
LEMMA SendingRefines ==
    ASSUME PostalInv, Sender, UNCHANGED receiveVars
    PROVE  Delivery!DeliveryNext
  <1>1. ASSUME NEW p \in Post, Upload(p) \/ Expire(p) PROVE Delivery!DeliveryNext
    <2>1. UNCHANGED <<message, inbox, arrived, shown>> /\ (faults' = 0 => faults = 0)
      BY <1>1, FaultCount DEF Upload, Expire, sendVars, receiveVars, PostalInv, SendInv
    <2>2. UNCHANGED toldMap
      BY <1>1 DEF Upload, Expire, sendVars, toldMap, PostalInv, SendInv, SendTypeOK
    <2> QED
      BY <2>1, <2>2, Invisible DEF boxMap, BoxOf
  <1>2. ASSUME NEW p \in Post, NEW e \in Endpoint, GetReceipt(p, e) \/ GetError(p, e)
        PROVE  Delivery!DeliveryNext
    <2>1. /\ UNCHANGED <<message, stage, inbox, arrived, shown>>
          /\ faults' = 0 => faults = 0
      BY <1>2, FaultCount
         DEF GetReceipt, GetError, relayVars, receiveVars, PostalInv, SendInv
    <2> QED
      BY <2>1, Invisible DEF boxMap, BoxOf, toldMap
  <1> QED
    BY <1>1, <1>2, AnswerRefines, StoreRefines DEF Sender, SendStep

LEMMA ReceivingRefines ==
    ASSUME PostalInv, NEW w \in Window,
           ReceiveStep(w) \/ Disconnect(w) \/ TimeOut(w) \/ Close(w)
    PROVE  Delivery!DeliveryNext
  <1> USE WindowAssumption DEF PostalInv
  <1>1. faults' = 0 => faults = 0
    BY FaultCount
       DEF ReceiveStep, Ask, List, Sleep, Awaken, Answer, Finish, Open, Discard, Download, Delete,
           Disconnect, TimeOut, Close, SendInv
  <1>2. CASE UNCHANGED <<sendVars, relayVars, shown>>
    BY <1>1, <1>2, Invisible DEF sendVars, relayVars, boxMap, BoxOf, toldMap
  <1>3. CASE Discard(w) \/ Delete(w)
    BY <1>1, <1>3, RemovalRefines DEF Discard, Delete
  <1>4. CASE Disconnect(w)
    BY <1>1, <1>2, <1>4, RemovalRefines DEF Disconnect
  <1>5. CASE Download(w) /\ ~UNCHANGED shown
    <2>1. /\ message[item[w]].kind = "dart" /\ item[w] \in Post
          /\ item[w] \in arrived[Owner[w]] /\ Owner[w] \in Endpoint
          /\ shown' = [shown EXCEPT ![w] = @ \cup {item[w]}]
          /\ UNCHANGED <<sendVars, relayVars>>
      BY <1>5 DEF Download, ReceiveTypeOK, ItemsHaveArrived, Busy
    <2>2. UNCHANGED <<message, toldMap, boxMap>>
      BY <2>1 DEF sendVars, relayVars, boxMap, BoxOf, toldMap
    <2>3. Delivery!Show(w, item[w])
      BY <2>1, <2>2, Places DEF Delivery!Show
    <2> QED
      BY <1>1, <2>1, <2>3, TroubleStays DEF Delivery!DeliveryNext
  <1>6. CASE Download(w) /\ UNCHANGED shown
    BY <1>2, <1>6 DEF Download
  <1>7. CASE \/ Ask(w) \/ List(w) \/ Sleep(w) \/ Awaken(w) \/ Answer(w) 
             \/ Finish(w) \/ TimeOut(w) \/ Close(w)
             \/ \E p \in Post : Open(w, p)
    BY <1>2, <1>7
       DEF Ask, List, Sleep, Awaken, Answer, Finish, TimeOut, Close, Open
  <1> QED
    BY <1>3, <1>4, <1>5, <1>6, <1>7 DEF ReceiveStep

\* Whatever windows, failures and late answers there are, every behaviour of
\* the client code is one of DeliveryService.
THEOREM DeliveryIsImplemented == Spec => ImplementsDelivery
  <1>1. PostalInv /\ [Next]_vars => [Delivery!DeliveryNext]_Delivery!deliveryVars
    <2> SUFFICES ASSUME PostalInv, [Next]_vars
                 PROVE  Delivery!DeliveryNext \/ UNCHANGED Delivery!deliveryVars
      OBVIOUS
    <2>1. CASE Sender /\ UNCHANGED receiveVars
      BY <2>1, SendingRefines
    <2>2. CASE Receiver
      BY <2>2, ReceivingRefines DEF Receiver
    <2>3. CASE UNCHANGED vars
      BY <2>3 DEF vars, sendVars, relayVars, receiveVars, Delivery!deliveryVars,
                  boxMap, BoxOf, toldMap
    <2>4. ASSUME NEW p \in Post, NEW e \in Endpoint, Alert(p, e)
          PROVE  Delivery!DeliveryNext
      BY <2>4, Invisible DEF Alert, Announce, sendVars, boxMap, BoxOf, toldMap
    <2> QED
      BY <2>1, <2>2, <2>3, <2>4 DEF Next
  <1> QED
    BY <1>1, InitRefines, PostalInvariant, PTL
       DEF Spec, ImplementsDelivery, Delivery!DeliverySpec
=============================================================================
