--------------------------- MODULE UsbTunnelProofs ---------------------------
(***************************************************************************)
(* The tunnels of UsbTunnel, for any number of phones and callers.         *)
(***************************************************************************)
EXTENDS UsbTunnel, TLAPS

LEMMA RecordTypes ==
  /\ Idle \in Calls
  /\ \A w \in Wishes : Starting(w) \in Calls
BY DEF Idle, Starting, Calls, Wishes, MaybePhone, None

LEMMA TypeInit == Init => TypeOK
<1> SUFFICES ASSUME Init PROVE TypeOK
  OBVIOUS
<1>1. Starting("wifi") \in Calls /\ Idle \in Calls
  BY RecordTypes DEF Wishes
<1>2. call \in [Callers -> Calls]
  BY <1>1 DEF Init
<1>3. calls \in 0 .. CallLimit /\ changes \in 0 .. ChangeLimit /\ spawned \in 0 .. RunLimit
  BY BoundAssumption DEF Init
<1> QED
  BY <1>2, <1>3 DEF Init, TypeOK, None, MaybePhone

LEMMA TypeStep == TypeOK /\ [Next]_vars => TypeOK'
<1> SUFFICES ASSUME TypeOK, [Next]_vars PROVE TypeOK'
  OBVIOUS
<1> USE RecordTypes DEF TypeOK, runtimeVars, worldVars, runVars, historyVars
<1>1. CASE World
  <2>1. CASE \E q \in Phones, state \in States : PhoneChanges(q, state)
    BY <2>1, BoundAssumption DEF PhoneChanges
  <2>2. CASE AdbServerRestarts \/ AdbHangs
    <3>1. changes' \in 0 .. ChangeLimit
      BY <2>2, BoundAssumption DEF AdbServerRestarts, AdbHangs
    <3>2. hung' \in BOOLEAN
      BY <2>2 DEF AdbServerRestarts, AdbHangs
    <3> QED BY <2>2, <3>1, <3>2 DEF AdbServerRestarts, AdbHangs
  <2>3. CASE \E r \in Runs : RunEnds(r)
    BY <2>3 DEF RunEnds
  <2> QED BY <1>1, <2>1, <2>2, <2>3 DEF World
<1>2. ASSUME NEW c \in Callers, NEW wish \in Wishes, Give(c, wish) PROVE TypeOK'
  <2>1. [Idle EXCEPT !.pc = "take", !.wish = wish] \in Calls
    BY <1>2 DEF Idle, Calls, None, MaybePhone
  <2> QED BY <1>2, <2>1, BoundAssumption DEF Give
<1>3. ASSUME NEW c \in Callers, Work(c) PROVE TypeOK'
  <2>1. call[c] \in Calls
    OBVIOUS
  <2>2. /\ \A pc \in {"announce", "list"} : [call[c] EXCEPT !.pc = pc] \in Calls
        /\ call[c].took # NoPhone => [call[c] EXCEPT !.pc = "remove"] \in Calls
        /\ [call[c] EXCEPT !.pc = "join", !.took = forward, !.joins = worker] \in Calls
        /\ \A p \in Phones : [call[c] EXCEPT !.pc = "reverse", !.took = p] \in Calls
        /\ call[c].wish \in Wishes /\ call[c].took \in MaybePhone
    BY <2>1 DEF Calls, MaybePhone, None
  <2>3. CASE Take(c)
    BY <2>2, <2>3 DEF Take, None, MaybePhone
  <2>4. CASE Join(c)
    BY <2>2, <2>4 DEF Join, Goto
  <2>5. CASE JoinFails(c)
    BY <2>5 DEF JoinFails, Return
  <2>6. CASE RemoveTunnel(c)
    BY <2>2, <2>6 DEF RemoveTunnel, Goto
  <2>7. CASE Announce(c)
    BY <2>2, <2>7 DEF Announce
  <2>8. CASE AlreadyStarted(c)
    BY <2>8 DEF AlreadyStarted, Return
  <2>9. ASSUME NEW target \in MaybePhone, Spawn(c, target)
        PROVE /\ spawned' \in 0 .. RunLimit /\ worker' \in Runs /\ live' \subseteq Runs
              /\ forward' \in MaybePhone /\ overwritten' \subseteq Phones
              /\ call' \in [Callers -> Calls]
    <3>1. spawned' \in 1 .. RunLimit
      BY <2>9, BoundAssumption DEF Spawn
    <3>2. worker' \in Runs /\ live' \subseteq Runs
      BY <2>9, <3>1 DEF Spawn, Runs
    <3> QED BY <2>9, <3>1, <3>2 DEF Spawn, Return, MaybePhone
  <2>10. CASE StartWifi(c)
    BY <2>9, <2>10 DEF StartWifi, MaybePhone
  <2>11. CASE BeginUsb(c)
    BY <2>2, <2>11 DEF BeginUsb, Goto, None
  <2>12. CASE Resolve(c)
    BY <2>2, <2>12 DEF Resolve
  <2>13. CASE ResolveFails(c)
    BY <2>13 DEF ResolveFails, Return
  <2>14. CASE Reverse(c)
    <3>1. call[c].took \in Phones
      BY <2>1, <2>14 DEF Reverse, At, Calls
    <3> QED BY <2>9, <2>14, <3>1 DEF Reverse, MaybePhone
  <2>15. CASE ReverseFails(c)
    BY <2>15, <2>1 DEF ReverseFails, Return, Calls, At
  <2> QED
    BY <1>3, <2>3, <2>4, <2>5, <2>6, <2>7, <2>8, <2>10, <2>11, <2>12, <2>13, <2>14, <2>15 DEF Work
<1>4. CASE UNCHANGED vars
  BY <1>4 DEF vars
<1> QED
  BY <1>1, <1>2, <1>3, <1>4 DEF Next

\* Every variable keeps its type: the runtime's and the callers' records name
\* runs and phones that exist.
THEOREM TypeCorrect == Spec => []TypeOK
BY TypeInit, TypeStep, PTL DEF Spec

-----------------------------------------------------------------------------

LEMMA AccountedStep ==
  TypeOK /\ TunnelsAccounted /\ [Next]_vars => TunnelsAccounted'
<1> SUFFICES ASSUME TypeOK, TunnelsAccounted, [Next]_vars,
                    NEW p \in tunnel'
             PROVE  Known(p)' \/ p \in orphans' \cup overwritten'
  BY DEF TunnelsAccounted
<1> DEFINE Keeps(d) == call[d].took = p /\ call[d].pc \in {"join", "remove"}
<1>1. /\ call \in [Callers -> Calls]
      /\ p \in tunnel => forward = p \/ (\E d \in Callers : Keeps(d)) \/ p \in orphans \cup overwritten
      /\ Known(p)' <=> forward' = p \/ \E d \in Callers : Keeps(d)'
  BY DEF TypeOK, TunnelsAccounted, Known
<1> HIDE DEF Keeps
<1>2. CASE World
  <2>1. /\ p \in tunnel
        /\ (p \in orphans => p \in orphans') /\ (p \in overwritten => p \in overwritten')
        /\ UNCHANGED <<call, forward>>
    BY <1>2 DEF World, PhoneChanges, AdbServerRestarts, AdbHangs, RunEnds, historyVars, runtimeVars
  <2>2. \A d \in Callers : Keeps(d)' <=> Keeps(d)
    BY <2>1 DEF Keeps
  <2> QED BY <1>1, <2>1, <2>2
<1>3. CASE UNCHANGED vars
  <2>1. UNCHANGED <<tunnel, orphans, overwritten, call, forward>>
    BY <1>3 DEF vars, historyVars, runtimeVars
  <2>2. \A d \in Callers : Keeps(d)' <=> Keeps(d)
    BY <2>1 DEF Keeps
  <2> QED BY <1>1, <2>1, <2>2
<1>4. ASSUME NEW c \in Callers, Work(c) \/ \E wish \in Wishes : Give(c, wish)
      PROVE  Known(p)' \/ p \in orphans' \cup overwritten'
  <2>1. \A d \in Callers \ {c} : Keeps(d)' <=> Keeps(d)
    <3>1. \A d \in Callers \ {c} : call'[d] = call[d]
      BY <1>1, <1>4 DEF Work, Give, Take, Join, JoinFails, RemoveTunnel, Announce, AlreadyStarted,
                        StartWifi, BeginUsb, Resolve, ResolveFails, Reverse, ReverseFails,
                        Spawn, Return, Goto
    <3> QED BY <3>1 DEF Keeps
  <2>2. CASE Take(c)
    <3>1. ~Keeps(c) /\ (forward = p => Keeps(c)')
      BY <1>1, <2>2 DEF Take, At, Keeps, Calls
    <3>2. UNCHANGED <<tunnel, orphans, overwritten>>
      BY <2>2 DEF Take, historyVars
    <3> QED BY <1>1, <2>1, <3>1, <3>2
  <2>3. CASE Join(c)
    <3>0. p \in Phones
      BY <2>3 DEF Join, TypeOK
    <3>1. Keeps(c) => Keeps(c)'
      BY <1>1, <2>3, <3>0, NobodyAssumption DEF Join, At, Keeps, Goto, Calls
    <3>2. UNCHANGED <<tunnel, orphans, overwritten, forward>>
      BY <2>3 DEF Join, historyVars, runtimeVars
    <3> QED BY <1>1, <2>1, <3>1, <3>2
  <2>4. CASE JoinFails(c)
    <3>1. Keeps(c) => p \in orphans'
      BY <2>4 DEF JoinFails, Keeps
    <3>2. UNCHANGED <<tunnel, overwritten, forward>> /\ orphans \subseteq orphans'
      BY <2>4 DEF JoinFails, runtimeVars
    <3> QED BY <1>1, <2>1, <3>1, <3>2
  <2>5. CASE RemoveTunnel(c)
    <3>1. Keeps(c) => p \in orphans'
      BY <2>5 DEF RemoveTunnel, Keeps
    <3>2. /\ p \in tunnel /\ UNCHANGED forward
          /\ (p \in orphans => p \in orphans') /\ (p \in overwritten => p \in overwritten')
      BY <2>5 DEF RemoveTunnel, runtimeVars
    <3> QED BY <1>1, <2>1, <3>1, <3>2
  <2>6. ASSUME ~Keeps(c), UNCHANGED <<tunnel, orphans, overwritten, forward>>
        PROVE  Known(p)' \/ p \in orphans' \cup overwritten'
    BY <1>1, <2>1, <2>6
  <2>7. ~(At(c, "join") \/ At(c, "remove")) => ~Keeps(c)
    BY DEF At, Keeps
  <2>8. CASE \E wish \in Wishes : Give(c, wish)
    BY <2>6, <2>7, <2>8 DEF Give, At, Idle, historyVars, runtimeVars
  <2>9. CASE Announce(c) \/ AlreadyStarted(c)
    BY <2>6, <2>7, <2>9 DEF Announce, AlreadyStarted, At, historyVars, runtimeVars
  <2>10. CASE BeginUsb(c) \/ Resolve(c) \/ ResolveFails(c)
    BY <2>6, <2>7, <2>10 DEF BeginUsb, CanStart, Resolve, ResolveFails, At, historyVars, runtimeVars
  <2>11. CASE StartWifi(c)
    <3>1. ~Keeps(c) /\ UNCHANGED <<tunnel, orphans>>
      BY <2>7, <2>11 DEF StartWifi, CanStart, At
    <3>2. /\ p \in overwritten => p \in overwritten' \cup {forward'}
          /\ forward = p => p \in overwritten' \cup {forward'}
      BY <2>11, <3>1 DEF StartWifi, Spawn
    <3> QED BY <1>1, <2>1, <3>1, <3>2
  <2>12. CASE Reverse(c)
    <3>1. ~Keeps(c)
      BY <2>7, <2>12 DEF Reverse, At
    <3>2. /\ p \in overwritten => p \in overwritten' \cup {forward'}
          /\ forward = p => p \in overwritten' \cup {forward'} \/ p \notin tunnel
          /\ p \in orphans => p \in orphans' \cup {forward'}
          /\ p \notin tunnel => p = forward'
      BY <2>12 DEF Reverse, Spawn
    <3> QED BY <1>1, <2>1, <3>1, <3>2
  <2>13. CASE ReverseFails(c)
    <3>1. ~Keeps(c)
      BY <2>7, <2>13 DEF ReverseFails, At
    <3>2. /\ UNCHANGED <<overwritten, forward>>
          /\ p \in orphans => p \in orphans'
          /\ p \notin tunnel => p \in orphans'
      BY <2>13 DEF ReverseFails
    <3> QED BY <1>1, <2>1, <3>1, <3>2
  <2> QED
    BY <1>4, <2>2, <2>3, <2>4, <2>5, <2>8, <2>9, <2>10, <2>11, <2>12, <2>13 DEF Work
<1> QED
  BY <1>2, <1>3, <1>4 DEF Next

\* Whatever the order of calls, runs and phones, records name phones and runs
\* that exist, and a tunnel is known to the runtime or to a stop, or a failed
\* command, a run that panicked or a start that replaced its record left it.
THEOREM NoTunnelIsForgotten == Spec => []NoTunnelForgotten
<1>1. Init => TunnelsAccounted
  BY DEF Init, TunnelsAccounted
<1> QED
  BY <1>1, TypeCorrect, AccountedStep, PTL DEF Spec, NoTunnelForgotten
=============================================================================
