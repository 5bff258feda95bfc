------------------------ MODULE DeviceMonitorProofs ------------------------
(***************************************************************************)
(* The events of the device monitor fit together, for any number of        *)
(* devices and states and any capacity of the channel.                     *)
(*                                                                         *)
(* EventsChain alone is not inductive: that the next event begins where    *)
(* the last one ended is known only because what the task takes for        *)
(* reported is what a receiver will know, which is AllIsAccounted.         *)
(***************************************************************************)
EXTENDS DeviceMonitor, TLAPS

Safe == TypeOK /\ EventsChain /\ AllIsAccounted

LEMMA InitSafe == Init => Safe
<1> SUFFICES ASSUME Init PROVE Safe
  OBVIOUS
<1>1. channel \in Seq(Events) /\ Len(channel) = 0 /\ DOMAIN channel = {}
  BY DEF Init
<1>2. previous \in Lists /\ current = previous /\ view = previous /\ due = {} /\ task = "waiting"
  BY DEF Init, Lists, MaybeStates
<1>3. TypeOK
  BY <1>1, <1>2, BoundAssumption DEF Init, TypeOK
<1>4. AllIsAccounted
  BY <1>1, <1>2 DEF AllIsAccounted, Knows, Reported
<1> QED BY <1>1, <1>3, <1>4 DEF Safe, EventsChain

\* What the first n events say does not depend on those behind them.
LEMMA KnowsBehind ==
  ASSUME NEW c, NEW d, NEW v, NEW n \in Nat, NEW s, NEW state,
         \A i \in 1 .. n : d[i] = c[i],
         Knows(c, v, n, s, state)
  PROVE  Knows(d, v, n, s, state)
BY DEF Knows

\* An event behind all others tells about its own device only.
LEMMA KnowsNew ==
  ASSUME NEW c \in Seq(Events), NEW e \in Events, NEW v, NEW s, NEW state,
         IF e.serial = s THEN state = e.current_state ELSE Knows(c, v, Len(c), s, state)
  PROVE  Knows(Append(c, e), v, Len(Append(c, e)), s, state)
<1> DEFINE d == Append(c, e)
<1>1. /\ Len(c) \in Nat /\ Len(d) = Len(c) + 1 /\ d[Len(c) + 1] = e
      /\ \A i \in 1 .. Len(c) : d[i] = c[i]
  OBVIOUS
<1>2. \A i \in 1 .. Len(d) : i \in 1 .. Len(c) \/ i = Len(c) + 1
  BY <1>1
<1> HIDE DEF d
<1>3. CASE e.serial = s
  <2>1. Len(d) \in 1 .. Len(d) /\ \A j \in Len(d) + 1 .. Len(d) : FALSE
    BY <1>1
  <2> QED BY <1>1, <1>3, <2>1 DEF Knows, d
<1>4. CASE e.serial # s /\ v[s] = state /\ \A i \in 1 .. Len(c) : c[i].serial # s
  BY <1>1, <1>2, <1>4 DEF Knows, d
<1>5. CASE e.serial # s /\ \E i \in 1 .. Len(c) :
             /\ c[i].serial = s /\ c[i].current_state = state
             /\ \A j \in i + 1 .. Len(c) : c[j].serial # s
  <2>1. PICK i \in 1 .. Len(c) :
          /\ c[i].serial = s /\ c[i].current_state = state
          /\ \A j \in i + 1 .. Len(c) : c[j].serial # s
    BY <1>5
  <2>2. i \in 1 .. Len(d) /\ d[i] = c[i]
    BY <1>1
  <2>3. \A j \in i + 1 .. Len(d) : d[j].serial # s
    BY <1>1, <1>5, <2>1
  <2> QED BY <2>1, <2>2, <2>3 DEF Knows, d
<1> QED BY <1>3, <1>4, <1>5 DEF Knows

\* Reading an event moves what it says from the channel into the view.
LEMMA KnowsRead ==
  ASSUME NEW c \in Seq(Events), c # <<>>, NEW v \in Lists, NEW s \in Serials, NEW state,
         NEW n \in 1 .. Len(c), Knows(c, v, n, s, state)
  PROVE  Knows(Tail(c), [v EXCEPT ![c[1].serial] = c[1].current_state], n - 1, s, state)
<1> DEFINE d == Tail(c)
           w == [v EXCEPT ![c[1].serial] = c[1].current_state]
<1>1. /\ Len(c) \in Nat /\ Len(c) >= 1
      /\ \A i \in 1 .. Len(c) - 1 : d[i] = c[i + 1]
  OBVIOUS
<1>2. w[s] = IF s = c[1].serial THEN c[1].current_state ELSE v[s]
  BY DEF Lists
<1>3. \A i \in 1 .. n - 1 : d[i] = c[i + 1] /\ i + 1 \in 1 .. n
  BY <1>1
<1> HIDE DEF d, w
<1>4. CASE v[s] = state /\ \A i \in 1 .. n : c[i].serial # s
  <2>1. w[s] = state
    BY <1>1, <1>2, <1>4
  <2>2. \A i \in 1 .. n - 1 : d[i].serial # s
    BY <1>3, <1>4
  <2> QED BY <2>1, <2>2 DEF Knows, d, w
<1>5. CASE \E i \in 1 .. n :
             /\ c[i].serial = s /\ c[i].current_state = state
             /\ \A j \in i + 1 .. n : c[j].serial # s
  <2>1. PICK i \in 1 .. n :
          /\ c[i].serial = s /\ c[i].current_state = state
          /\ \A j \in i + 1 .. n : c[j].serial # s
    BY <1>5
  <2>2. \A j \in i .. n - 1 : d[j].serial # s
    BY <1>1, <1>3, <2>1
  <2>3. CASE i = 1
    <3>1. w[s] = state
      BY <1>2, <2>1, <2>3
    <3> QED BY <2>2, <2>3, <3>1 DEF Knows, d, w
  <2>4. CASE i # 1
    <3>1. i - 1 \in 1 .. n - 1 /\ d[i - 1] = c[i] /\ (i - 1) + 1 = i
      BY <1>1, <2>1, <2>4
    <3> QED BY <2>1, <2>2, <3>1 DEF Knows, d, w
  <2> QED BY <2>3, <2>4
<1> QED BY <1>4, <1>5 DEF Knows

LEMMA ReceiveSafe ==
  ASSUME Safe, Receive
  PROVE  Safe'
<1> DEFINE w == [view EXCEPT ![channel[1].serial] = channel[1].current_state]
<1>1. /\ channel # <<>> /\ channel' = Tail(channel) /\ view' = w
      /\ UNCHANGED <<world, changes, previous, current, due, task, listening>>
  <2>1. Head(channel) = channel[1]
    BY DEF Receive, Safe, TypeOK
  <2> QED BY <2>1 DEF Receive, worldVars, listVars
<1>2. channel \in Seq(Events) /\ view \in Lists /\ Len(channel) <= Capacity
  BY DEF Safe, TypeOK
<1>3. /\ Len(channel) \in Nat /\ Len(channel) >= 1 /\ Len(channel') = Len(channel) - 1
      /\ channel' \in Seq(Events)
      /\ \A i \in 1 .. Len(channel) - 1 : channel'[i] = channel[i + 1]
      /\ \A i \in 1 .. Len(channel) : channel[i] \in Events
  BY <1>1, <1>2
<1>4. view' \in Lists
  <2>1. channel[1] \in Events
    BY <1>3
  <2> QED BY <1>1, <1>2, <2>1 DEF Lists, Events
<1>5. TypeOK'
  <2>1. Len(channel') <= Capacity
    BY <1>2, <1>3, BoundAssumption
  <2> QED BY <1>1, <1>3, <1>4, <2>1 DEF Safe, TypeOK
<1> HIDE DEF w
<1>6. ASSUME NEW n \in DOMAIN channel' PROVE EventFits(channel', view', n)
  <2>1. n + 1 \in 1 .. Len(channel) /\ n \in 1 .. Len(channel) /\ (n + 1) - 1 = n
    BY <1>3
  <2>2. channel'[n] = channel[n + 1] /\ channel[n + 1].serial \in Serials
    BY <1>3, <2>1 DEF Events
  <2>3. EventFits(channel, view, n + 1)
    BY <1>2, <2>1 DEF Safe, EventsChain
  <2>4. Knows(channel, view, n, channel[n + 1].serial, channel[n + 1].previous_state)
    BY <2>1, <2>3 DEF EventFits
  <2>5. Knows(channel', view', n - 1, channel[n + 1].serial, channel[n + 1].previous_state)
    BY <1>1, <1>2, <2>1, <2>2, <2>4, KnowsRead DEF w
  <2> QED BY <2>2, <2>3, <2>5 DEF EventFits
<1>7. ASSUME task # "ended", listening, NEW s \in Serials
      PROVE  Knows(channel', view', Len(channel'), s, Reported(s))
  <2>1. Knows(channel, view, Len(channel), s, Reported(s))
    BY <1>7 DEF Safe, AllIsAccounted
  <2>2. Len(channel) \in 1 .. Len(channel)
    BY <1>3
  <2> QED BY <1>1, <1>2, <1>3, <2>1, <2>2, KnowsRead DEF w
<1>8. AllIsAccounted'
  BY <1>1, <1>7 DEF AllIsAccounted, Reported
<1> QED BY <1>5, <1>6, <1>8 DEF Safe, EventsChain

LEMMA SendSafe ==
  ASSUME Safe, NEW s \in Serials, Send(s)
  PROVE  Safe'
<1> DEFINE e == EventOf(s)
<1>1. /\ task = "sending" /\ s \in due /\ previous[s] # current[s] /\ listening
      /\ Len(channel) < Capacity /\ channel' = Append(channel, e) /\ due' = due \ {s}
      /\ UNCHANGED <<world, changes, previous, current, task, listening, view>>
  BY DEF Send, IsNext, worldVars
<1>2. channel \in Seq(Events) /\ previous \in Lists /\ current \in Lists
  BY DEF Safe, TypeOK
<1>3. /\ e \in Events /\ e.serial = s /\ e.previous_state = previous[s]
      /\ e.current_state = current[s] /\ e.kind = KindOf(previous[s], current[s])
  BY <1>2 DEF EventOf, Events, KindOf, Kinds, Lists
<1> HIDE DEF e
<1>4. /\ Len(channel) \in Nat /\ Len(channel') = Len(channel) + 1
      /\ channel' \in Seq(Events) /\ channel'[Len(channel')] = e
      /\ \A i \in 1 .. Len(channel) : channel'[i] = channel[i]
  BY <1>1, <1>2, <1>3
<1>5. TypeOK'
  <2>1. Len(channel') <= Capacity
    BY <1>1, <1>4, BoundAssumption
  <2> QED BY <1>1, <1>4, <2>1 DEF Safe, TypeOK
<1>6. Knows(channel, view, Len(channel), s, previous[s])
  BY <1>1 DEF Safe, AllIsAccounted, Reported
<1>7. ASSUME NEW n \in DOMAIN channel' PROVE EventFits(channel', view, n)
  <2>1. CASE n \in 1 .. Len(channel)
    <3>1. EventFits(channel, view, n) /\ channel'[n] = channel[n]
      BY <1>2, <1>4, <2>1 DEF Safe, EventsChain
    <3>2. n - 1 \in Nat /\ \A i \in 1 .. n - 1 : channel'[i] = channel[i]
      BY <1>4, <2>1
    <3>3. Knows(channel', view, n - 1, channel[n].serial, channel[n].previous_state)
      BY <3>1, <3>2, KnowsBehind DEF EventFits
    <3> QED BY <3>1, <3>3 DEF EventFits
  <2>2. CASE n = Len(channel')
    <3>1. n - 1 = Len(channel) /\ channel'[n] = e
      BY <1>4, <2>2
    <3>2. Knows(channel', view, Len(channel), s, previous[s])
      BY <1>4, <1>6, KnowsBehind
    <3> QED BY <1>1, <1>3, <3>1, <3>2 DEF EventFits
  <2> QED BY <1>4, <2>1, <2>2
<1>8. ASSUME NEW t \in Serials
      PROVE  Knows(channel', view, Len(channel'), t, Reported(t)')
  <2>1. CASE t = s
    <3>1. Reported(t)' = current[s]
      BY <1>1, <2>1 DEF Reported
    <3> QED BY <1>1, <1>2, <1>3, <2>1, <3>1, KnowsNew
  <2>2. CASE t # s
    <3>1. Reported(t)' = Reported(t)
      BY <1>1, <2>2 DEF Reported
    <3>2. Knows(channel, view, Len(channel), t, Reported(t))
      BY <1>1 DEF Safe, AllIsAccounted
    <3> QED BY <1>1, <1>2, <1>3, <2>2, <3>1, <3>2, KnowsNew
  <2> QED BY <2>1, <2>2
<1>9. EventsChain' /\ AllIsAccounted'
  BY <1>1, <1>7, <1>8 DEF EventsChain, AllIsAccounted
<1> QED BY <1>5, <1>9 DEF Safe

\* Steps that neither send nor receive: what is reported stays reported.
LEMMA QuietSafe ==
  ASSUME Safe, TypeOK', UNCHANGED <<channel, view>>,
         task' # "ended" /\ listening' =>
           task # "ended" /\ listening /\ \A s \in Serials : Reported(s)' = Reported(s)
  PROVE  Safe'
BY DEF Safe, EventsChain, AllIsAccounted

LEMMA NextSafe == Safe /\ [Next]_vars => Safe'
<1> SUFFICES ASSUME Safe, [Next]_vars PROVE Safe'
  OBVIOUS
<1>0. TypeOK /\ BoundAssumption
  BY BoundAssumption DEF Safe
<1>1. CASE \E s \in Serials, state \in MaybeStates : DeviceChanges(s, state)
  <2>1. PICK s \in Serials, state \in MaybeStates : DeviceChanges(s, state)
    BY <1>1
  <2>2. TypeOK'
    BY <1>0, <2>1, BoundAssumption DEF DeviceChanges, TypeOK, Lists, listVars
  <2> QED BY <2>1, <2>2, QuietSafe DEF DeviceChanges, listVars, Reported
<1>2. CASE Receive
  BY <1>2, ReceiveSafe
<1>3. CASE DropReceiver
  <2>1. Len(channel') = 0 /\ channel' \in Seq(Events) /\ DOMAIN channel' = {}
    BY <1>3 DEF DropReceiver
  <2>2. TypeOK'
    <3>1. Len(channel') <= Capacity
      BY <2>1, BoundAssumption
    <3>2. UNCHANGED <<world, changes, previous, current, due, task, view>> /\ listening' = FALSE
      BY <1>3 DEF DropReceiver, worldVars, listVars
    <3> QED BY <1>0, <2>1, <3>1, <3>2 DEF TypeOK
  <2> QED BY <1>3, <2>1, <2>2 DEF DropReceiver, Safe, EventsChain, AllIsAccounted
<1>4. CASE Poll
  <2>1. TypeOK'
    BY <1>0, <1>4 DEF Poll, TypeOK, worldVars, listVars
  <2> QED BY <1>4, <2>1, QuietSafe DEF Poll, Reported
<1>5. CASE Finish
  <2>1. TypeOK'
    BY <1>0, <1>5 DEF Finish, TypeOK, worldVars
  <2> QED BY <1>5, <2>1, QuietSafe DEF Finish, Reported
<1>6. CASE \E s \in Serials : Unchanged(s)
  <2>1. PICK s \in Serials : Unchanged(s)
    BY <1>6
  <2>2. TypeOK'
    BY <1>0, <2>1 DEF Unchanged, TypeOK, worldVars
  <2> QED BY <2>1, <2>2, QuietSafe DEF Unchanged, Reported, IsNext
<1>7. CASE \E s \in Serials : Send(s)
  BY <1>7, SendSafe
<1>8. CASE \E s \in Serials : SendFails(s)
  <2>1. PICK s \in Serials : SendFails(s)
    BY <1>8
  <2>2. TypeOK'
    BY <1>0, <2>1 DEF SendFails, TypeOK, worldVars, listVars
  <2> QED BY <2>1, <2>2, QuietSafe DEF SendFails
<1>9. CASE UNCHANGED vars
  <2>1. TypeOK'
    BY <1>0, <1>9 DEF vars, TypeOK, worldVars, listVars
  <2> QED BY <1>9, <2>1, QuietSafe DEF vars, listVars, Reported
<1> QED
  BY <1>1, <1>2, <1>3, <1>4, <1>5, <1>6, <1>7, <1>8, <1>9 DEF Next, Work

\* The channel never holds more than its capacity, each event about a device
\* begins where the one before left it and is of the kind the change is, and
\* waiting for room loses and repeats no report (monitor_devices).
THEOREM ReportsAreAlwaysExact == Spec => []ReportsAreExact
<1> QED BY InitSafe, NextSafe, PTL DEF Spec, Safe, ReportsAreExact
=============================================================================
