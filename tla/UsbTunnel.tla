------------------------------- MODULE UsbTunnel -------------------------------
(***************************************************************************)
(* The adb tunnels of the desktop: start_usb and stop of the pipeline      *)
(* manager (pipeline.rs) with the commands of AdbManager they run (adb.rs),*)
(* while phones come and go.  PipelineManager has the same calls with one  *)
(* phone and without adb; here the question is which phone has a tunnel,   *)
(* and whether anything still knows of it.                                 *)
(*                                                                         *)
(* The port is always the same.  Starting the adb server is part of the    *)
(* command behind it.  A run is either live or over.                       *)
(***************************************************************************)
EXTENDS Naturals

CONSTANTS Phones, NoPhone,
          Callers, NoCaller,
          CallLimit,     \* bound on the calls
          RunLimit,      \* bound on the runs
          ChangeLimit    \* bound on the changes of phones and adb

ASSUME BoundAssumption ==
  {CallLimit, RunLimit, ChangeLimit} \subseteq Nat /\ CallLimit # 0
ASSUME NobodyAssumption == NoPhone \notin Phones /\ NoCaller \notin Callers

VARIABLES phone,        \* the state of each phone
          tunnel,       \* the phones with a reverse tunnel
          hung,         \* an adb command does not return
          changes,      \* changes of the above by the world
          worker,       \* runtime.worker: a run, or none
          forward,      \* runtime.usb_forward: a phone, or none
          lock,         \* the caller that holds the runtime across an await
          call,         \* what each caller is doing
          calls,        \* calls given so far
          spawned,      \* runs spawned so far
          live,         \* runs that are not over
          panicked,     \* runs that ended with a panic
          orphans,      \* history: tunnels a failed command left behind
          overwritten   \* history: tunnels whose record was replaced

worldVars == <<phone, hung, changes>>
runtimeVars == <<worker, forward, lock>>
runVars == <<live, panicked, spawned>>
historyVars == <<orphans, overwritten>>
vars == <<worldVars, tunnel, runtimeVars, call, calls, runVars, historyVars>>

States == {"absent", "unauthorized", "offline", "device"}
Runs == 1 .. RunLimit
None == 0
MaybePhone == Phones \cup {NoPhone}

\* What a start asks for: no tunnel, the tunnel of whatever phone is there, or
\* that of the phone with a serial.
Wishes == {"stop", "wifi", "any"} \cup Phones
Idle == [pc |-> "idle", wish |-> "stop", took |-> NoPhone, joins |-> None]
Calls ==
  {k \in [pc : {"idle", "take", "join", "remove", "announce", "start", "list", "reverse"},
          wish : Wishes, took : MaybePhone, joins : Runs \cup {None}] :
     k.pc \in {"remove", "reverse"} => k.took \in Phones}
Starting(wish) == [Idle EXCEPT !.pc = "start", !.wish = wish]

TypeOK ==
  /\ phone \in [Phones -> States] /\ tunnel \subseteq Phones
  /\ hung \in BOOLEAN /\ changes \in 0 .. ChangeLimit
  /\ worker \in Runs \cup {None} /\ forward \in MaybePhone
  /\ lock \in Callers \cup {NoCaller}
  /\ call \in [Callers -> Calls] /\ calls \in 0 .. CallLimit
  /\ spawned \in 0 .. RunLimit
  /\ live \subseteq Runs /\ panicked \subseteq Runs
  /\ orphans \subseteq Phones /\ overwritten \subseteq Phones

\* The application starts with a Wi-Fi run.
Init ==
  /\ phone \in [Phones -> States] /\ tunnel = {} /\ hung = FALSE /\ changes = 0
  /\ worker = None /\ forward = NoPhone /\ lock = NoCaller
  /\ \E setup \in Callers :
       call = [c \in Callers |-> IF c = setup THEN Starting("wifi") ELSE Idle]
  /\ calls = 1
  /\ spawned = 0 /\ live = {} /\ panicked = {}
  /\ orphans = {} /\ overwritten = {}

-----------------------------------------------------------------------------
(* The world.  A tunnel is gone as soon as adb loses its phone.            *)

PhoneChanges(p, state) ==
  /\ changes < ChangeLimit /\ phone[p] # state
  /\ changes' = changes + 1
  /\ phone' = [phone EXCEPT ![p] = state]
  /\ tunnel' = tunnel \ {p}
  /\ orphans' = orphans \ {p} /\ overwritten' = overwritten \ {p}
  /\ UNCHANGED <<hung, runtimeVars, call, calls, runVars>>

AdbServerRestarts ==
  /\ changes < ChangeLimit
  /\ changes' = changes + 1
  /\ tunnel' = {} /\ orphans' = {} /\ overwritten' = {}
  /\ UNCHANGED <<phone, hung, runtimeVars, call, calls, runVars>>

\* No command of adb has a timeout.
AdbHangs ==
  /\ changes < ChangeLimit /\ ~hung
  /\ changes' = changes + 1
  /\ hung' = TRUE
  /\ UNCHANGED <<phone, tunnel, runtimeVars, call, calls, runVars, historyVars>>

\* A run ends: it was told to, its phone left, or it failed.
RunEnds(r) ==
  /\ r \in live
  /\ live' = live \ {r}
  /\ panicked' \in {panicked, panicked \cup {r}}
  /\ UNCHANGED <<worldVars, tunnel, runtimeVars, call, calls, spawned, historyVars>>

-----------------------------------------------------------------------------
(* connect, which stops and starts, and disconnect                         *)

Give(c, wish) ==
  /\ call[c] = Idle /\ calls < CallLimit
  /\ calls' = calls + 1
  /\ call' = [call EXCEPT ![c] = [Idle EXCEPT !.pc = "take", !.wish = wish]]
  /\ UNCHANGED <<worldVars, tunnel, runtimeVars, runVars, historyVars>>

At(c, pc) == call[c].pc = pc
Return(c) == call' = [call EXCEPT ![c] = Idle]

Goto(c, pc) == call' = [call EXCEPT ![c].pc = pc]

\* Mutant: a stop that finds the run over does nothing for its tunnel.
TakeLive(c) ==
  /\ At(c, "take") /\ lock = NoCaller
  /\ call' = [call EXCEPT ![c] = [@ EXCEPT !.pc = "join", !.joins = worker,
                                           !.took = IF worker \in live THEN forward ELSE NoPhone]]
  /\ worker' = None /\ forward' = NoPhone
  /\ UNCHANGED <<lock, worldVars, tunnel, calls, runVars, historyVars>>

\* stop: under the lock it takes the run and the record of the tunnel.
Take(c) ==
  /\ At(c, "take") /\ lock = NoCaller
  /\ call' = [call EXCEPT ![c] = [@ EXCEPT !.pc = "join", !.took = forward, !.joins = worker]]
  /\ worker' = None /\ forward' = NoPhone
  /\ UNCHANGED <<lock, worldVars, tunnel, calls, runVars, historyVars>>

Join(c) ==
  /\ At(c, "join") /\ call[c].joins \notin live \cup panicked
  /\ IF call[c].took = NoPhone
     THEN Goto(c, "announce")
     ELSE Goto(c, "remove")
  /\ UNCHANGED <<worldVars, tunnel, runtimeVars, calls, runVars, historyVars>>

\* The run panicked: stop returns the error before it gets to the tunnel.
JoinFails(c) ==
  /\ At(c, "join") /\ call[c].joins \in panicked \ live
  /\ orphans' = orphans \cup ({call[c].took} \cap tunnel)
  /\ Return(c)
  /\ UNCHANGED <<worldVars, tunnel, runtimeVars, calls, runVars, overwritten>>

\* kill_reverse; stop only logs a failure, of which it cannot know what it
\* has left behind.
RemoveTunnel(c) ==
  /\ At(c, "remove") /\ ~hung
  /\ tunnel' \in {tunnel, tunnel \ {call[c].took}}
  /\ orphans' = (orphans \cup {call[c].took}) \cap tunnel'
  /\ overwritten' = overwritten \cap tunnel'
  /\ Goto(c, "announce")
  /\ UNCHANGED <<worldVars, runtimeVars, calls, runVars>>

\* The end of stop, and the start that a connect goes on with.
Announce(c) ==
  /\ At(c, "announce") /\ lock = NoCaller
  /\ call' = [call EXCEPT ![c] = IF @.wish = "stop" THEN Idle ELSE Starting(@.wish)]
  /\ UNCHANGED <<worldVars, tunnel, runtimeVars, calls, runVars, historyVars>>

-----------------------------------------------------------------------------
(* start_with_mode                                                         *)

AlreadyStarted(c) ==
  /\ At(c, "start") /\ lock = NoCaller
  /\ worker \in live
  /\ Return(c)
  /\ UNCHANGED <<worldVars, tunnel, runtimeVars, calls, runVars, historyVars>>

CanStart(c) == At(c, "start") /\ lock = NoCaller /\ worker \notin live

\* The record of the run before, if it is still there, is replaced.
Spawn(c, target) ==
  /\ spawned < RunLimit
  /\ spawned' = spawned + 1
  /\ worker' = spawned' /\ live' = live \cup {spawned'}
  /\ forward' = target
  /\ overwritten' = (overwritten \cup ({forward} \cap tunnel)) \ {target}
  /\ Return(c)

StartWifi(c) ==
  /\ CanStart(c) /\ call[c].wish = "wifi"
  /\ Spawn(c, NoPhone)
  /\ UNCHANGED <<worldVars, tunnel, lock, calls, panicked, orphans>>

\* The lock is held while adb works.
BeginUsb(c) ==
  /\ CanStart(c) /\ call[c].wish # "wifi"
  /\ lock' = c
  /\ worker' = None
  /\ Goto(c, "list")
  /\ UNCHANGED <<worldVars, tunnel, forward, calls, runVars, historyVars>>

\* resolve_target_serial: the phone asked for, or the only one, if it is ready.
Chosen(wish) ==
  {p \in Phones : phone[p] = "device" /\ wish \in {p, "any"}}

Resolve(c) ==
  /\ At(c, "list") /\ ~hung
  /\ \E p \in Phones :
       /\ Chosen(call[c].wish) = {p}
       /\ call' = [call EXCEPT ![c] = [@ EXCEPT !.pc = "reverse", !.took = p]]
  /\ UNCHANGED <<worldVars, tunnel, runtimeVars, calls, runVars, historyVars>>

\* start_usb returns an error: adb fails, no phone, several, or the phone is
\* not ready.
ResolveFails(c) ==
  /\ At(c, "list") /\ ~hung
  /\ lock' = NoCaller
  /\ Return(c)
  /\ UNCHANGED <<worldVars, tunnel, worker, forward, calls, runVars, historyVars>>

\* The phone may have changed since the list; then the command fails.
Reverse(c) ==
  LET p == call[c].took IN
  /\ At(c, "reverse") /\ ~hung
  /\ phone[p] = "device"
  /\ tunnel' = tunnel \cup {p}
  /\ orphans' = orphans \ {p}
  /\ lock' = NoCaller
  /\ Spawn(c, p)
  /\ UNCHANGED <<worldVars, calls, panicked>>

\* Mutant: a failure leaves the runtime locked.
ReverseFailsLocked(c) ==
  LET p == call[c].took IN
  /\ At(c, "reverse") /\ ~hung
  /\ tunnel' \in {tunnel, tunnel \cup {q \in {p} : phone[q] = "device"}}
  /\ orphans' = orphans \cup (tunnel' \ tunnel)
  /\ Return(c)
  /\ UNCHANGED <<worldVars, runtimeVars, calls, runVars, overwritten>>

\* adb reports a failure, or something that is not UTF-8: whatever it has
\* done, nothing is recorded.
ReverseFails(c) ==
  LET p == call[c].took IN
  /\ At(c, "reverse") /\ ~hung
  /\ tunnel' \in {tunnel, tunnel \cup {q \in {p} : phone[q] = "device"}}
  /\ orphans' = orphans \cup (tunnel' \ tunnel)
  /\ lock' = NoCaller
  /\ Return(c)
  /\ UNCHANGED <<worldVars, worker, forward, calls, runVars, overwritten>>

-----------------------------------------------------------------------------

World ==
  \/ \E p \in Phones, state \in States : PhoneChanges(p, state)
  \/ AdbServerRestarts \/ AdbHangs
  \/ \E r \in Runs : RunEnds(r)

Work(c) ==
  \/ Take(c) \/ Join(c) \/ JoinFails(c) \/ RemoveTunnel(c) \/ Announce(c)
  \/ AlreadyStarted(c) \/ StartWifi(c) \/ BeginUsb(c)
  \/ Resolve(c) \/ ResolveFails(c) \/ Reverse(c) \/ ReverseFails(c)

Next ==
  \/ World
  \/ \E c \in Callers : Work(c) \/ \E wish \in Wishes : Give(c, wish)

Spec == Init /\ [][Next]_vars

\* Calls are scheduled, also against each other for the lock, whose waiters
\* are served in order; adb answers unless it hangs.  That a run ends which
\* was told to is PipelineManager's matter.
Fairness == \A c \in Callers : SF_vars(Work(c))

FairSpec == Spec /\ Fairness

-----------------------------------------------------------------------------

\* Somebody knows of the tunnel: the runtime, or a stop on its way to it.
Known(p) ==
  forward = p \/ \E c \in Callers : call[c].took = p /\ call[c].pc \in {"join", "remove"}

TunnelsAccounted == \A p \in tunnel : Known(p) \/ p \in orphans \cup overwritten

\* A tunnel nobody knows of was left by a command adb reported as failed, by a
\* run that panicked, or by a start that replaced its record.
NoTunnelForgotten == TypeOK /\ TunnelsAccounted

\* A call returns; else it waits for a run that goes on, or adb hangs, which
\* keeps every other caller waiting as well.
CallsReturn ==
  \A c \in Callers :
    (call[c] # Idle) ~>
      (call[c] = Idle \/ hung \/ (call[c].pc = "join" /\ call[c].joins \in live))
=============================================================================
