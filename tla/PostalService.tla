---------------------------- MODULE PostalService ----------------------------
(***************************************************************************)
(* The receiving half of the client: PostalService.ReceiveAsync on top of  *)
(* Channel.ReceiveInboxItemsAsync and RelayServer.DownloadIncomingItemsAsync *)
(* as ChatroomWindow.ReceiveMessageLoopAsync uses them, in several windows *)
(* that may belong to one endpoint.  A step is the code between two awaits. *)
(***************************************************************************)
EXTENDS ChannelPosts

CONSTANTS
    Window,           \* the loops that receive messages
    Owner,            \* the endpoint of each
    PurgeUnsupported, \* the windows that ask to purge unsupported messages
    NoPost            \* no item

ASSUME WindowAssumption ==
    /\ Owner \in [Window -> Endpoint]
    /\ PurgeUnsupported \subseteq Window
    /\ NoPost \notin Post

VARIABLES
    pc,        \* where each loop is
    failed,    \* whether its last attempt failed, so that this poll is short
    alarm,     \* what the relay has of its poll: see Alarm
    todo,      \* the items still to come in the response to its poll
    item,      \* the item it is at
    shown      \* the messages in its History

receiveVars == <<pc, failed, alarm, todo, item, shown>>
vars == <<sendVars, relayVars, faults, receiveVars>>

\* The places at which a loop is busy with an item.
Busy == {"discard", "download", "delete"}

\* A poll is registered for the next alert, has heard one, or has missed the
\* only one it could have heard.
Alarm == {"none", "set", "rung", "lost"}

Listing(w) == inbox[Owner[w]]

\* On with the enumeration after an item.
GoOn(w) ==
    /\ pc' = [pc EXCEPT ![w] = "reading"]
    /\ item' = [item EXCEPT ![w] = NoPost]

\* The enumeration is over.
Leave(w, l) ==
    /\ pc' = [pc EXCEPT ![w] = l]
    /\ item' = [item EXCEPT ![w] = NoPost]
    /\ todo' = [todo EXCEPT ![w] = {}]
    /\ alarm' = [alarm EXCEPT ![w] = "none"]

\* The loop starts again; it fails in catch (HttpRequestException) of
\* ReceiveMessageLoopAsync.
Again(w, failure) ==
    /\ Leave(w, "idle")
    /\ failed' = [failed EXCEPT ![w] = failure]

-----------------------------------------------------------------------------

\* A poll reaches the relay, which registers it before it looks for items.
Ask(w) ==
    /\ pc[w] = "idle"
    /\ pc' = [pc EXCEPT ![w] = "listing"]
    /\ alarm' = [alarm EXCEPT ![w] = "set"]
    /\ UNCHANGED <<failed, todo, item, shown, sendVars, relayVars, faults>>

\* The relay lists the items; a short poll is answered also without any.
List(w) ==
    /\ pc[w] = "listing"
    /\ failed[w] \/ Listing(w) # {}
    /\ todo' = [todo EXCEPT ![w] = Listing(w)]
    /\ pc' = [pc EXCEPT ![w] = "asking"]
    /\ alarm' = [alarm EXCEPT ![w] = "none"]
    /\ UNCHANGED <<failed, item, shown, sendVars, relayVars, faults>>

\* A long poll without items waits,
Sleep(w) ==
    /\ pc[w] = "listing"
    /\ ~failed[w] /\ Listing(w) = {}
    /\ pc' = [pc EXCEPT ![w] = "waiting"]
    /\ UNCHANGED <<alarm, failed, todo, item, shown, sendVars, relayVars, faults>>

\* and starts over when its task completes.
Awaken(w) ==
    /\ pc[w] = "waiting" /\ alarm[w] = "rung"
    /\ pc' = [pc EXCEPT ![w] = "listing"]
    /\ alarm' = [alarm EXCEPT ![w] = "set"]
    /\ UNCHANGED <<failed, todo, item, shown, sendVars, relayVars, faults>>

\* The polls that an alert of an inbox finds registered.
Registered(e) == {w \in Window : Owner[w] = e /\ alarm[w] = "set"}

\* AlertLongPollWaiter pulses their event and makes the next poll take another
\* one.  A poll that has not called WaitAsync by then misses the pulse.
Alert(p, e) ==
    /\ Announce(p, e)
    /\ \E late \in SUBSET {w \in Registered(e) : pc[w] = "listing"} :
          alarm' = [w \in Window |-> IF w \notin Registered(e) THEN alarm[w]
                                     ELSE IF w \in late THEN "lost" ELSE "rung"]
    /\ UNCHANGED <<pc, failed, todo, item, shown>>

\* GetAsync returns the whole response: all items, or those before one that was
\* deleted after the relay listed it.
Answer(w) ==
    /\ pc[w] = "asking"
    /\ pc' = [pc EXCEPT ![w] = "reading"]
    /\ \/ UNCHANGED todo
       \/ \E q \in todo[w] \ Listing(w) :
             todo' = [todo EXCEPT ![w] = {p \in @ : p < q}]
    /\ UNCHANGED <<alarm, failed, item, shown, sendVars, relayVars, faults>>

Finish(w) ==
    /\ pc[w] = "reading" /\ todo[w] = {}
    /\ Again(w, FALSE)
    /\ UNCHANGED <<shown, sendVars, relayVars, faults>>

\* Every window purges what it does not support.
PurgeUnasked(w, p) ==
    CASE message[p].kind \in {"bad", "other"} -> "discard"
      [] OTHER -> "download"

\* Where an item leads: OpenEnvelope throws, or tells the content type.
PlaceFor(w, p) ==
    CASE message[p].kind = "bad" -> "discard"
      [] message[p].kind \in {"dart", "corrupt"} -> "download"
      [] OTHER -> IF w \in PurgeUnsupported THEN "discard" ELSE "reading"

\* The next item of the response.
Open(w, p) ==
    /\ pc[w] = "reading"
    /\ p \in todo[w] /\ \A q \in todo[w] : p <= q
    /\ todo' = [todo EXCEPT ![w] = @ \ {p}]
    /\ pc' = [pc EXCEPT ![w] = PlaceFor(w, p)]
    /\ item' = [item EXCEPT ![w] = IF PlaceFor(w, p) = "reading" THEN NoPost ELSE p]
    /\ UNCHANGED <<alarm, failed, shown, sendVars, relayVars, faults>>

\* A bad message that ends the enumeration.
DiscardByFailing(w) ==
    /\ pc[w] = "discard"
    /\ Again(w, TRUE)
    /\ UNCHANGED <<shown, sendVars, relayVars, faults>>

\* "Bad message. Throw it out.", or an unsupported one.
Discard(w) ==
    /\ pc[w] = "discard"
    /\ Remove(item[w], Owner[w])
    /\ GoOn(w)
    /\ UNCHANGED <<alarm, todo, failed, shown, sendVars, faults>>

\* A payload that is gone taken for a message that has been dealt with.
DownloadOrDelete(w) ==
    /\ pc[w] = "download"
    /\ pc' = [pc EXCEPT ![w] = "delete"]
    /\ shown' = IF payload[item[w]] = "stored"
                THEN [shown EXCEPT ![w] = @ \cup {item[w]}] ELSE shown
    /\ UNCHANGED <<item, alarm, todo, failed, sendVars, relayVars, faults>>

\* DownloadPayloadAsync, and the message into the History.  The 404 of a payload
\* that is gone is an HttpRequestException; nothing catches the
\* InvalidMessageException of one that is corrupt.
Download(w) ==
    /\ pc[w] = "download"
    /\ \/ /\ payload[item[w]] = "stored" /\ message[item[w]].kind = "dart"
          /\ shown' = [shown EXCEPT ![w] = @ \cup {item[w]}]
          /\ pc' = [pc EXCEPT ![w] = "delete"]
          /\ UNCHANGED <<item, alarm, todo, failed>>
       \/ /\ payload[item[w]] = "stored" /\ message[item[w]].kind = "corrupt"
          /\ Leave(w, "ended")
          /\ UNCHANGED <<shown, failed>>
       \/ /\ payload[item[w]] # "stored"
          /\ Again(w, TRUE)
          /\ UNCHANGED shown
    /\ UNCHANGED <<sendVars, relayVars, faults>>

\* A message that stays at the relay after it has been shown.
DeleteNothing(w) ==
    /\ pc[w] = "delete"
    /\ GoOn(w)
    /\ UNCHANGED <<alarm, todo, failed, shown, sendVars, relayVars, faults>>

\* PostalService.DeleteAsync.
Delete(w) ==
    /\ pc[w] = "delete"
    /\ Remove(item[w], Owner[w])
    /\ GoOn(w)
    /\ UNCHANGED <<alarm, todo, failed, shown, sendVars, faults>>

\* A request fails; a deletion may have been done all the same.
Disconnect(w) ==
    /\ pc[w] \notin {"reading", "ended"}
    /\ GoesWrong("network")
    /\ \/ UNCHANGED relayVars
       \/ pc[w] \in {"discard", "delete"} /\ Remove(item[w], Owner[w])
    /\ Again(w, TRUE)
    /\ UNCHANGED <<shown, sendVars>>

\* HttpTimeout passes, which limits a download, and a short poll until its
\* last item has been read.  Nothing catches the TaskCanceledException.
TimeOut(w) ==
    /\ \/ pc[w] = "download"
       \/ pc[w] \in {"idle", "listing", "asking", "reading"} /\ failed[w]
    /\ GoesWrong("timeout")
    /\ Leave(w, "ended")
    /\ UNCHANGED <<failed, shown, sendVars, relayVars>>

\* The loop ends when IsLoaded turns false, at the start of its next turn.
Close(w) ==
    /\ pc[w] = "idle"
    /\ GoesWrong("close")
    /\ Leave(w, "ended")
    /\ UNCHANGED <<failed, shown, sendVars, relayVars>>

-----------------------------------------------------------------------------

Init ==
    /\ SendInit
    /\ pc = [w \in Window |-> "idle"]
    /\ alarm = [w \in Window |-> "none"]
    /\ todo = [w \in Window |-> {}]
    /\ item = [w \in Window |-> NoPost]
    /\ failed = [w \in Window |-> FALSE]
    /\ shown = [w \in Window |-> {}]

ReceiveStep(w) ==
    \/ Ask(w) \/ List(w) \/ Sleep(w) \/ Awaken(w) \/ Answer(w) \/ Finish(w)
    \/ \E p \in Post : Open(w, p)
    \/ Discard(w) \/ Download(w) \/ Delete(w)

Sender ==
    \E p \in Post :
       \/ SendStep(p) \/ UploadFails(p) \/ Expire(p)
       \/ \E e \in Endpoint : GetError(p, e)

Receiver == \E w \in Window : ReceiveStep(w) \/ Disconnect(w) \/ TimeOut(w) \/ Close(w)

Next ==
    \/ Sender /\ UNCHANGED receiveVars
    \/ \E p \in Post, e \in Endpoint : Alert(p, e)
    \/ Receiver

Spec == Init /\ [][Next]_vars

\* Every loop goes on, and a request that waits for nobody else ends sometime.
\* The relay alerts the polls as long as it is carrying out the post.
FairSpec ==
    /\ Spec
    /\ \A w \in Window : WF_vars(ReceiveStep(w))
    /\ \A p \in Post, e \in Endpoint : WF_vars(Sending(p, e) /\ Alert(p, e))

-----------------------------------------------------------------------------

\* A loop has an item exactly while it is busy with it, and a poll at the relay
\* exactly until that is answered.
ReceiveTypeOK ==
    /\ pc \in [Window -> {"idle", "listing", "waiting", "asking", "reading", "ended"}
                    \cup Busy]
    /\ alarm \in [Window -> Alarm]
    /\ \A w \in Window : alarm[w] # "none" <=> pc[w] \in {"listing", "waiting"}
    /\ todo \in [Window -> SUBSET Post]
    /\ item \in [Window -> Post \cup {NoPost}]
    /\ \A w \in Window : item[w] = NoPost <=> pc[w] \notin Busy
    /\ failed \in [Window -> BOOLEAN]
    /\ shown \in [Window -> SUBSET Post]

TypeOK == SendTypeOK /\ ReceiveTypeOK

ShownTo(p, e) == \E w \in Window : Owner[w] = e /\ p \in shown[w]

\* However many windows an endpoint has, and whatever fails, an item leaves its
\* inbox only when its recipient cannot open it, when its message has been
\* shown, or when a window purges what it does not support.
NothingIsLost ==
    \A e \in Endpoint : \A p \in arrived[e] \ inbox[e] :
        /\ message[p].kind \in {"dart", "corrupt"} => ShownTo(p, e)
        /\ message[p].kind = "other" => \E w \in PurgeUnsupported : Owner[w] = e

\* What the place of a loop tells of its item.
PlacesAreRight ==
    \A w \in Window :
        /\ pc[w] = "discard" =>
              \/ message[item[w]].kind = "bad"
              \/ message[item[w]].kind = "other" /\ w \in PurgeUnsupported
        /\ pc[w] = "download" => message[item[w]].kind \in {"dart", "corrupt"}
        /\ pc[w] = "delete" => message[item[w]].kind = "dart" /\ item[w] \in shown[w]

\* A loop is concerned with items that have arrived, and with each once.
ItemsHaveArrived ==
    \A w \in Window :
        /\ shown[w] \cup todo[w] \subseteq arrived[Owner[w]]
        /\ pc[w] \in Busy => item[w] \in arrived[Owner[w]] /\ item[w] \notin todo[w]

\* While nothing has failed, what a window has shown is not to come again, and
\* is out of the inbox unless the window is about to delete it.
NothingComesAgain ==
    faults = 0 =>
        \A w \in Window : \A p \in shown[w] :
            /\ p \notin todo[w]
            /\ pc[w] = "download" => item[w] # p
            /\ p \in inbox[Owner[w]] => pc[w] = "delete" /\ item[w] = p

\* A poll that waits, registered for the next alert, has found everything that
\* was announced before gone, and one that missed an alert some of it.
SleepersHaveLooked ==
    \A w \in Window :
        /\ alarm[w] = "lost" => alerted[Owner[w]] # {}
        /\ pc[w] = "waiting" /\ alarm[w] = "lost" =>
              \E p \in alerted[Owner[w]] : p \notin inbox[Owner[w]]
        /\ pc[w] = "waiting" /\ alarm[w] = "set" =>
              alerted[Owner[w]] \cap inbox[Owner[w]] = {}

\* The inductive invariant of sending and receiving.
PostalInv ==
    /\ SendInv /\ ReceiveTypeOK /\ PlacesAreRight /\ ItemsHaveArrived
    /\ NothingComesAgain /\ NothingIsLost /\ SleepersHaveLooked

\* A window shows a message for the second time only if something failed.
ShownOnce ==
    \A w \in Window :
        pc[w] = "download" /\ item[w] \in shown[w] => faults > 0

\* No poll is left waiting while a message that has been announced is there,
\* but where an announced message has been deleted, which may be the one that
\* the poll missed the alert of.
SleepIsExcused ==
    \A w \in Window : pc[w] = "waiting" /\ alarm[w] # "rung" =>
        \/ alerted[Owner[w]] \cap inbox[Owner[w]] = {}
        \/ \E p \in alerted[Owner[w]] : p \notin inbox[Owner[w]]

\* A poll that nothing wakes for an item: it missed the alert, or the post of
\* the item was given up and may never come to it.
DeafTo(w, p) ==
    /\ pc[w] = "waiting"
    /\ \/ alarm[w] = "lost"
       \/ alarm[w] = "set" /\ outcome[p][Owner[w]] = "error"

\* An endpoint has no window left that could come to show an item.
NobodyIsUp(e, p) == \A w \in Window : Owner[w] = e => pc[w] = "ended" \/ DeafTo(w, p)

\* The endpoints that have windows.
Receivers == {Owner[w] : w \in Window}

\* A dart in an inbox is shown sometime, unless the payload of some item in
\* that inbox is gone, or every window of the endpoint has come to an end or
\* waits in a poll that is not woken for it.
DartIsShown ==
    \A e \in Receivers : \A p \in Post :
        p \in inbox[e] /\ message[p].kind = "dart"
            ~> \/ ShownTo(p, e)
               \/ \E q \in arrived[e] : payload[q] = "gone"
               \/ NobodyIsUp(e, p)

\* The same for every dart whose own payload is there, whatever has become of
\* the payloads of other items.
ReadableDartIsShown ==
    \A e \in Receivers : \A p \in Post :
        p \in inbox[e] /\ message[p].kind = "dart"
            ~> ShownTo(p, e) \/ payload[p] = "gone" \/ NobodyIsUp(e, p)
=============================================================================
