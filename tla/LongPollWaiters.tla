-------------------------- MODULE LongPollWaiters --------------------------
(***************************************************************************)
(* The static dictionary InboxController.LongPollWaiters: for each mailbox *)
(* at most one AsyncManualResetEvent, on which the polls of that mailbox   *)
(* wait.  The dictionary is used under a lock; the events are used after   *)
(* the lock is released, so a poll's registration and a poster's alert are *)
(* two steps each.                                                         *)
(***************************************************************************)
EXTENDS Naturals, RelayRequests

VARIABLES
    waiters,     \* the event in the dictionary for each mailbox, or NoEvent
    lastEvent,   \* the number of events created so far
    evt,         \* the local variable `evt' of each handler
    task         \* the task each poll obtained from its event

waiterVars == <<waiters, lastEvent, evt, task>>

NoEvent == 0

Event == Nat \ {NoEvent}

\* The lock block of WaitIncomingMessageAsync: get the event, or create it.
RegisterWaiter(r, m) ==
    /\ IF waiters[m] # NoEvent
       THEN /\ evt' = [evt EXCEPT ![r] = waiters[m]]
            /\ UNCHANGED <<waiters, lastEvent>>
       ELSE /\ lastEvent' = lastEvent + 1
            /\ waiters' = [waiters EXCEPT ![m] = lastEvent + 1]
            /\ evt' = [evt EXCEPT ![r] = lastEvent + 1]
    /\ UNCHANGED task

\* evt.WaitAsync(), after the lock: a task that the next pulse completes.
WaitOnEvent(r) ==
    /\ task' = [task EXCEPT ![r] = "pending"]
    /\ UNCHANGED <<waiters, lastEvent, evt>>

\* An alert that leaves the event in the dictionary.
DetachWithoutRemoving(r, m) ==
    /\ evt' = [evt EXCEPT ![r] = NoEvent]
    /\ UNCHANGED <<waiters, lastEvent, task>>

\* The lock block of AlertLongPollWaiter: take the event out, if there is one.
DetachWaiter(r, m) ==
    /\ evt' = [evt EXCEPT ![r] = waiters[m]]
    /\ waiters' = [waiters EXCEPT ![m] = NoEvent]
    /\ UNCHANGED <<lastEvent, task>>

\* evt.PulseAll(), after the lock: completes the tasks handed out so far, and
\* none of those handed out later.
PulseEvent(r) ==
    /\ task' = [q \in Request |-> IF task[q] = "pending" /\ evt[q] = evt[r]
                                  THEN "done" ELSE task[q]]
    /\ UNCHANGED <<waiters, lastEvent, evt>>

\* The dictionary, the events and the handlers' locals die with the process.
LoseWaiters ==
    /\ waiters' = [m \in Mailbox |-> NoEvent]
    /\ evt' = [q \in Request |-> NoEvent]
    /\ task' = [q \in Request |-> "none"]
    /\ UNCHANGED lastEvent

-----------------------------------------------------------------------------

WaitersInit ==
    /\ waiters = [m \in Mailbox |-> NoEvent]
    /\ lastEvent = 0
    /\ evt = [r \in Request |-> NoEvent]
    /\ task = [r \in Request |-> "none"]

WaitersTypeOK ==
    /\ lastEvent \in Nat
    /\ waiters \in [Mailbox -> 0..lastEvent]
    /\ evt \in [Request -> 0..lastEvent]
    /\ task \in [Request -> {"none", "pending", "done"}]
=============================================================================
