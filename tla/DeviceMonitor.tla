---------------------------- MODULE DeviceMonitor ----------------------------
(***************************************************************************)
(* AdbManager::monitor_devices (adb.rs): a task that lists the devices     *)
(* every interval, compares the list with the one before and sends what    *)
(* changed into a bounded channel, one event per device, waiting for room  *)
(* while the devices go on changing.                                       *)
(*                                                                         *)
(* A device that is not listed has the state Absent.  Its product, model   *)
(* and properties are left out: a change of them is no event.              *)
(***************************************************************************)
EXTENDS Naturals, Sequences

CONSTANTS Count,         \* devices, numbered in the order of their serials
          States,        \* AdbDeviceState
          Absent,        \* not in the list
          Capacity,      \* of the channel, 32
          ChangeLimit    \* bound on the changes of devices

Serials == 1 .. Count
MaybeStates == States \cup {Absent}

ASSUME BoundAssumption == {Count, Capacity, ChangeLimit} \subseteq Nat /\ Capacity # 0
ASSUME AbsentAssumption == Absent \notin States

VARIABLES world,      \* the states of the devices, as adb lists them
          changes,    \* changes so far
          previous,   \* the list every event has been sent for
          current,    \* the list that is being compared
          due,        \* devices whose comparison is still to be made
          task,       \* "waiting", "sending" or "ended"
          channel,    \* events sent and not received
          listening,  \* the receiver exists
          view        \* the states a receiver has been told of

worldVars == <<world, changes>>
listVars == <<previous, current, due>>
vars == <<worldVars, listVars, task, channel, listening, view>>

Lists == [Serials -> MaybeStates]

Kinds == {"Connected", "Disconnected", "StateChanged"}
Events == [serial : Serials, kind : Kinds,
           previous_state : MaybeStates, current_state : MaybeStates]

TypeOK ==
  /\ {world, previous, current, view} \subseteq Lists
  /\ changes \in 0 .. ChangeLimit
  /\ due \subseteq Serials
  /\ task \in {"waiting", "sending", "ended"}
  /\ channel \in Seq(Events) /\ Len(channel) <= Capacity
  /\ listening \in BOOLEAN

Init ==
  /\ world \in Lists /\ changes = 0
  /\ previous = [s \in Serials |-> Absent]
  /\ current = previous /\ due = {}
  /\ task = "waiting" /\ channel = <<>>
  /\ listening = TRUE /\ view = previous

-----------------------------------------------------------------------------
(* The devices, and the receiver of the events *)

DeviceChanges(s, state) ==
  /\ changes < ChangeLimit /\ world[s] # state
  /\ changes' = changes + 1
  /\ world' = [world EXCEPT ![s] = state]
  /\ UNCHANGED <<listVars, task, channel, listening, view>>

Receive ==
  /\ listening /\ channel # <<>>
  /\ channel' = Tail(channel)
  /\ view' = [view EXCEPT ![Head(channel).serial] = Head(channel).current_state]
  /\ UNCHANGED <<worldVars, listVars, task, listening>>

DropReceiver ==
  /\ listening
  /\ listening' = FALSE
  /\ channel' = <<>>
  /\ UNCHANGED <<worldVars, listVars, task, view>>

-----------------------------------------------------------------------------
(* The task *)

\* list_devices_raw has returned the list.  A poll that fails changes nothing.
Poll ==
  /\ task = "waiting"
  /\ task' = "sending"
  /\ current' = world
  /\ due' = Serials
  /\ UNCHANGED <<worldVars, previous, channel, listening, view>>

\* Listed devices come first, each group in the order of the serials.
Before(s, t) ==
  IF (current[s] = Absent) = (current[t] = Absent) THEN s < t ELSE current[t] = Absent

IsNext(s) == s \in due /\ \A t \in due \ {s} : Before(s, t)

KindOf(old, new) ==
  CASE old = Absent -> "Connected"
    [] new = Absent -> "Disconnected"
    [] OTHER -> "StateChanged"

EventOf(s) ==
  [serial |-> s, kind |-> KindOf(previous[s], current[s]),
   previous_state |-> previous[s], current_state |-> current[s]]

Unchanged(s) ==
  /\ task = "sending" /\ IsNext(s) /\ previous[s] = current[s]
  /\ due' = due \ {s}
  /\ UNCHANGED <<worldVars, previous, current, task, channel, listening, view>>

\* Mutant: the event is sent only if there is room.
SendOrSkip(s) ==
  /\ task = "sending" /\ IsNext(s) /\ previous[s] # current[s]
  /\ due' = due \ {s} /\ listening
  /\ channel' = IF Len(channel) < Capacity THEN Append(channel, EventOf(s)) ELSE channel
  /\ UNCHANGED <<worldVars, previous, current, task, listening, view>>

\* tx.send, when there is room
Send(s) ==
  /\ task = "sending" /\ IsNext(s) /\ previous[s] # current[s]
  /\ listening /\ Len(channel) < Capacity
  /\ channel' = Append(channel, EventOf(s))
  /\ due' = due \ {s}
  /\ UNCHANGED <<worldVars, previous, current, task, listening, view>>

\* tx.send fails: the receiver is gone.
SendFails(s) ==
  /\ task = "sending" /\ IsNext(s) /\ previous[s] # current[s]
  /\ ~listening
  /\ task' = "ended"
  /\ UNCHANGED <<worldVars, listVars, channel, listening, view>>

\* Mutant: the list of the next poll is compared with the newest list.
FinishWithWorld ==
  /\ task = "sending" /\ due = {}
  /\ previous' = world
  /\ task' = "waiting"
  /\ UNCHANGED <<worldVars, current, due, channel, listening, view>>

Finish ==
  /\ task = "sending" /\ due = {}
  /\ previous' = current
  /\ task' = "waiting"
  /\ UNCHANGED <<worldVars, current, due, channel, listening, view>>

Work == Finish \/ \E s \in Serials : Unchanged(s) \/ Send(s) \/ SendFails(s)

Next ==
  \/ \E s \in Serials, state \in MaybeStates : DeviceChanges(s, state)
  \/ Receive \/ DropReceiver
  \/ Poll \/ Work

Spec == Init /\ [][Next]_vars

\* The interval elapses again and again, the task is scheduled, and whoever
\* holds the receiver reads it.
Fairness == WF_vars(Poll) /\ WF_vars(Work) /\ WF_vars(Receive)

FairSpec == Spec /\ Fairness

-----------------------------------------------------------------------------

\* A receiver that was told v and reads the first n events of c knows that s
\* is in this state: the last event about s says so, or it was told.
Knows(c, v, n, s, state) ==
  \/ v[s] = state /\ \A i \in 1 .. n : c[i].serial # s
  \/ \E i \in 1 .. n :
       /\ c[i].serial = s /\ c[i].current_state = state
       /\ \A j \in i + 1 .. n : c[j].serial # s

EventFits(c, v, n) ==
  /\ Knows(c, v, n - 1, c[n].serial, c[n].previous_state)
  /\ c[n].previous_state # c[n].current_state
  /\ c[n].kind = KindOf(c[n].previous_state, c[n].current_state)

EventsChain == \A n \in DOMAIN channel : EventFits(channel, view, n)

\* What the task believes it has reported: the new list for the devices it
\* has compared, the old one for the others.
Reported(s) == IF task = "sending" /\ s \notin due THEN current[s] ELSE previous[s]

AllIsAccounted ==
  task # "ended" /\ listening =>
    \A s \in Serials : Knows(channel, view, Len(channel), s, Reported(s))

\* The events about a device fit together over all polls: each begins where
\* the one before left the device, reports a change, and is of the kind that
\* change is.  What the task believes it has reported is what a receiver will
\* know that reads everything: waiting for room, while the devices change,
\* loses and repeats nothing.
ReportsAreExact == TypeOK /\ EventsChain /\ AllIsAccounted

\* Once the devices rest, a receiver that reads knows the state of each.
ViewConverges == <>[](listening => view = world)
=============================================================================
