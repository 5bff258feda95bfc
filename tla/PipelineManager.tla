--------------------------- MODULE PipelineManager ---------------------------
(***************************************************************************)
(* The manager of the desktop's pipeline (pipeline.rs) and the commands of *)
(* the user interface that drive it (lib.rs): start, stop and connect, the *)
(* stop followed by a start, each a task of its own, and the pipeline runs *)
(* they spawn.  A task can be overtaken wherever it awaits, so every piece *)
(* between two awaits that touches shared state is an action.              *)
(*                                                                         *)
(* The stream itself is DesktopStream; here it is one state of a run.  The *)
(* port is the default one, which only one run can hold; a tunnel is the   *)
(* adb reverse of the one phone on that port.                              *)
(***************************************************************************)
EXTENDS Naturals

CONSTANTS Callers,     \* tasks of the user interface, one command at a time
          RunLimit,    \* bound on the pipeline runs
          CallLimit    \* bound on the commands

ASSUME RunLimitAssumption == RunLimit \in Nat \ {0}
ASSUME CallLimitAssumption == CallLimit \in Nat \ {0}

VARIABLES worker,       \* runtime.worker with its shutdown_tx: a run, or none
          usbForward,   \* runtime.usb_forward is set
          lock,         \* the caller that holds the runtime across an await
          status,       \* the state that is published
          sender,       \* the active connection and command senders: the
                        \* run each belongs to, or none
          caller,       \* what each caller is doing
          calls,        \* commands given so far
          run,          \* what each run is doing
          told,         \* the runs that were told to shut down
          spawned,      \* runs spawned so far
          tunnel,       \* the adb tunnel exists
          overlapped    \* history: the runs spawned during another call's stop

managerVars == <<worker, usbForward, lock>>
sharedVars == <<status, sender>>
callVars == <<caller, calls>>
runVars == <<run, told, spawned, overlapped>>
vars == <<managerVars, sharedVars, callVars, runVars, tunnel>>

Runs == 1 .. RunLimit
None == 0
NoCaller == "nobody"
ASSUME NobodyAssumption == NoCaller \notin Callers
Modes == {"wifi", "usb"}

\* A call: where it is, the run it joins, whether it has a tunnel to remove,
\* and the mode of the start that follows, if any.
CallPc == {"idle", "take", "join", "clear_connection", "clear_commands",
           "remove_tunnel", "announce", "start", "reverse"}
Call == [pc : CallPc, joins : Runs \cup {None}, usb : BOOLEAN, next : Modes \cup {"none"}]
Idle == [pc |-> "idle", joins |-> None, usb |-> FALSE, next |-> "none"]

RunPc == {"unborn", "clear_connection", "clear_commands", "open", "listening",
          "publish_connection", "publish_commands", "prepare", "streaming", "blocked",
          "retract_connection", "retract_commands", "done"}
Starting(mode) == [Idle EXCEPT !.pc = "start", !.next = mode]

TypeOK ==
  /\ worker \in Runs \cup {None}
  /\ usbForward \in BOOLEAN /\ tunnel \in BOOLEAN
  /\ lock \in Callers \cup {NoCaller}
  /\ status \in {"disconnected", "listening", "connected", "error"}
  /\ sender \in [{"connection", "commands"} -> Runs \cup {None}]
  /\ caller \in [Callers -> Call] /\ calls \in 0 .. CallLimit
  /\ run \in [Runs -> RunPc] /\ told \subseteq Runs
  /\ spawned \in 0 .. RunLimit /\ overlapped \subseteq Runs

\* The setup of the application has spawned the first start.
Init ==
  /\ worker = None /\ usbForward = FALSE /\ lock = NoCaller
  /\ status = "disconnected"
  /\ sender = [which \in {"connection", "commands"} |-> None]
  /\ \E setup \in Callers :
       caller = [c \in Callers |-> IF c = setup THEN Starting("wifi") ELSE Idle]
  /\ calls = 1
  /\ run = [r \in Runs |-> "unborn"] /\ told = {} /\ spawned = 0 /\ overlapped = {}
  /\ tunnel = FALSE

-----------------------------------------------------------------------------
(* The commands of the window: connect, which stops and starts, and        *)
(* disconnect, which stops.                                                *)

Give(c, next) ==
  /\ caller[c] = Idle
  /\ calls < CallLimit
  /\ calls' = calls + 1
  /\ caller' = [caller EXCEPT ![c] = [Idle EXCEPT !.pc = "take", !.next = next]]
  /\ UNCHANGED <<managerVars, sharedVars, runVars, tunnel>>

Connect(c, mode) == Give(c, mode)
Disconnect(c) == Give(c, "none")

At(c, pc) == caller[c].pc = pc
Goto(c, pc) == caller' = [caller EXCEPT ![c].pc = pc]
Live(r) == run[r] \notin {"unborn", "done"}

\* Mutant: the run is taken but not told.
TakeUntold(c) ==
  /\ At(c, "take") /\ lock = NoCaller
  /\ caller' = [caller EXCEPT ![c] = [@ EXCEPT !.pc = "join", !.joins = worker,
                                               !.usb = usbForward]]
  /\ worker' = None
  /\ usbForward' = FALSE
  /\ UNCHANGED <<lock, sharedVars, calls, runVars, tunnel>>

\* stop: under the lock it takes the run, its shutdown sender and the tunnel,
\* and then tells the run.
Take(c) ==
  /\ At(c, "take") /\ lock = NoCaller
  /\ caller' = [caller EXCEPT ![c] = [@ EXCEPT !.pc = "join", !.joins = worker,
                                               !.usb = usbForward]]
  /\ told' = IF worker = None THEN told ELSE told \cup {worker}
  /\ worker' = None
  /\ usbForward' = FALSE
  /\ UNCHANGED <<lock, sharedVars, calls, run, spawned, overlapped, tunnel>>

\* Mutant: stop does not wait for the run.
JoinNot(c) ==
  /\ At(c, "join")
  /\ Goto(c, "clear_connection")
  /\ UNCHANGED <<managerVars, sharedVars, calls, runVars, tunnel>>

Join(c) ==
  /\ At(c, "join")
  /\ caller[c].joins # None => run[caller[c].joins] = "done"
  /\ Goto(c, "clear_connection")
  /\ UNCHANGED <<managerVars, sharedVars, calls, runVars, tunnel>>

ClearSender(c, which, next) ==
  /\ sender' = [sender EXCEPT ![which] = None]
  /\ Goto(c, next)
  /\ UNCHANGED <<managerVars, status, calls, runVars, tunnel>>

ClearSenders(c) ==
  \/ At(c, "clear_connection") /\ ClearSender(c, "connection", "clear_commands")
  \/ /\ At(c, "clear_commands")
     /\ ClearSender(c, "commands", IF caller[c].usb THEN "remove_tunnel" ELSE "announce")

\* kill_reverse; a failure of adb is only logged.
RemoveTunnel(c) ==
  /\ At(c, "remove_tunnel")
  /\ tunnel' \in {FALSE, tunnel}
  /\ Goto(c, "announce")
  /\ UNCHANGED <<managerVars, sharedVars, calls, runVars>>

\* Mutant: a state the window does not know is published.
AnnounceStopped(c) ==
  /\ At(c, "announce") /\ lock = NoCaller
  /\ status' = "stopped"
  /\ caller' = [caller EXCEPT ![c] = IF @.next = "none" THEN Idle ELSE Starting(@.next)]
  /\ UNCHANGED <<managerVars, sender, calls, runVars, tunnel>>

\* The end of stop, and the start that a connect goes on with.
Announce(c) ==
  /\ At(c, "announce") /\ lock = NoCaller
  /\ status' = "disconnected"
  /\ caller' = [caller EXCEPT ![c] = IF @.next = "none" THEN Idle ELSE Starting(@.next)]
  /\ UNCHANGED <<managerVars, sender, calls, runVars, tunnel>>

\* Mutant: the start that finds a run announces it anew.
AlreadyStartedAnnounced(c) ==
  /\ At(c, "start") /\ lock = NoCaller
  /\ worker # None /\ Live(worker)
  /\ status' = "listening"
  /\ caller' = [caller EXCEPT ![c] = Idle]
  /\ UNCHANGED <<managerVars, sender, calls, runVars, tunnel>>

\* start_with_mode finds a run that has not finished.
AlreadyStarted(c) ==
  /\ At(c, "start") /\ lock = NoCaller
  /\ worker # None /\ Live(worker)
  /\ caller' = [caller EXCEPT ![c] = Idle]
  /\ UNCHANGED <<managerVars, sharedVars, calls, runVars, tunnel>>

CanStart(c) ==
  /\ At(c, "start") /\ lock = NoCaller
  /\ worker # None => ~Live(worker)

\* Some call is between taking the run it stops and its last step.
Stopping(c) == caller[c].pc \in {"join", "clear_connection", "clear_commands",
                                 "remove_tunnel", "announce"}

Spawn(c, usb) ==
  /\ spawned < RunLimit
  /\ spawned' = spawned + 1
  /\ run' = [run EXCEPT ![spawned'] = "clear_connection"]
  /\ worker' = spawned'
  /\ usbForward' = usb
  /\ overlapped' = IF \E other \in Callers : Stopping(other)
                   THEN overlapped \cup {spawned'} ELSE overlapped
  /\ caller' = [caller EXCEPT ![c] = Idle]

StartWifi(c) ==
  /\ CanStart(c) /\ caller[c].next = "wifi"
  /\ Spawn(c, FALSE)
  /\ UNCHANGED <<lock, sharedVars, calls, told, tunnel>>

\* The lock is held while adb sets up the tunnel.
BeginUsb(c) ==
  /\ CanStart(c) /\ caller[c].next = "usb"
  /\ lock' = c
  /\ worker' = None
  /\ Goto(c, "reverse")
  /\ UNCHANGED <<usbForward, sharedVars, calls, runVars, tunnel>>

\* Mutant: a tunnel that adb could not set up is taken for granted.
StartUsbAnyway(c) ==
  /\ At(c, "reverse")
  /\ tunnel' \in {tunnel, TRUE}
  /\ lock' = NoCaller
  /\ Spawn(c, TRUE)
  /\ UNCHANGED <<sharedVars, calls, told>>

StartUsb(c) ==
  /\ At(c, "reverse")
  /\ tunnel' = TRUE
  /\ lock' = NoCaller
  /\ Spawn(c, TRUE)
  /\ UNCHANGED <<sharedVars, calls, told>>

UsbFails(c) ==
  /\ At(c, "reverse")
  /\ lock' = NoCaller
  /\ caller' = [caller EXCEPT ![c] = Idle]
  /\ UNCHANGED <<worker, usbForward, sharedVars, calls, runVars, tunnel>>

-----------------------------------------------------------------------------
(* A run.  It holds the port from a successful bind to its very end.       *)

Step(r, from, to) == run[r] = from /\ run' = [run EXCEPT ![r] = to]

\* The listener and the stream live as long as run_pipeline.
HoldsPort(r) == run[r] \in RunPc \ {"unborn", "clear_connection", "clear_commands", "open",
                                    "done"}

SetSender(r, which, value, from, to) ==
  /\ Step(r, from, to)
  /\ sender' = [sender EXCEPT ![which] = value]
  /\ UNCHANGED <<managerVars, status, callVars, told, spawned, overlapped, tunnel>>

ForgetSenders(r) ==
  \/ SetSender(r, "connection", None, "clear_connection", "clear_commands")
  \/ SetSender(r, "commands", None, "clear_commands", "open")

\* Only the published status changes.
Publish(state) ==
  /\ status' = state
  /\ UNCHANGED <<managerVars, sender, callVars, told, spawned, overlapped, tunnel>>

Listen(r) ==
  /\ \A other \in Runs : ~HoldsPort(other)
  /\ Step(r, "open", "listening")
  /\ Publish("listening")

\* No output device, no advertisement, or the port is taken.
OpenFails(r) == Step(r, "open", "done") /\ Publish("error")

\* Mutant: a run that waits for a phone does not listen for the shutdown.
ListenNeverStopped(r) == r \in told /\ FALSE

\* The select prefers neither the shutdown nor the phone.
ListenStopped(r) ==
  /\ r \in told
  /\ Step(r, "listening", "done")
  /\ Publish("disconnected")

\* A phone that fails its handshake ends the run.
AcceptFails(r) == Step(r, "listening", "done") /\ Publish("error")

Accept(r) ==
  /\ Step(r, "listening", "publish_connection")
  /\ UNCHANGED <<managerVars, sharedVars, callVars, told, spawned, overlapped, tunnel>>

PublishSenders(r) ==
  \/ SetSender(r, "connection", r, "publish_connection", "publish_commands")
  \/ SetSender(r, "commands", r, "publish_commands", "prepare")

\* The prologue of stream_connection, which may fail, and its loop.
Stream(r) == Step(r, "prepare", "streaming") /\ Publish("connected")
StreamFails(r) ==
  /\ run[r] \in {"prepare", "streaming", "blocked"}
  /\ run' = [run EXCEPT ![r] = "retract_connection"]
  /\ Publish("error")

\* The loop heeds the shutdown and the phone's disconnect, unless it waits
\* for room in the queue to the phone.
StreamStopped(r) ==
  /\ r \in told
  /\ Step(r, "streaming", "retract_connection")
  /\ Publish("disconnected")

\* Mutant: the end of a stream is not published.
PhoneLeavesQuietly(r) ==
  /\ Step(r, "streaming", "retract_connection")
  /\ UNCHANGED <<managerVars, sharedVars, callVars, told, spawned, overlapped, tunnel>>

PhoneLeaves(r) == Step(r, "streaming", "retract_connection") /\ Publish("disconnected")

Block(r) ==
  /\ Step(r, "streaming", "blocked") \/ Step(r, "blocked", "streaming")
  /\ UNCHANGED <<managerVars, sharedVars, callVars, told, spawned, overlapped, tunnel>>

\* Mutant: only the sender of the commands is taken back.
RetractCommandsOnly(r) ==
  SetSender(r, "commands", None, "retract_connection", "done")

RetractSenders(r) ==
  \/ SetSender(r, "connection", None, "retract_connection", "retract_commands")
  \/ SetSender(r, "commands", None, "retract_commands", "done")

-----------------------------------------------------------------------------

CallerWorks(c) ==
  \/ Take(c) \/ Join(c) \/ ClearSenders(c) \/ RemoveTunnel(c) \/ Announce(c)
  \/ AlreadyStarted(c) \/ StartWifi(c) \/ BeginUsb(c) \/ StartUsb(c) \/ UsbFails(c)

\* What a run does without a phone or a failure.
RunWorks(r) ==
  \/ ForgetSenders(r) \/ Listen(r) \/ OpenFails(r) \/ ListenStopped(r)
  \/ PublishSenders(r) \/ Stream(r) \/ StreamStopped(r) \/ RetractSenders(r)

RunDisturbed(r) ==
  Accept(r) \/ AcceptFails(r) \/ StreamFails(r) \/ PhoneLeaves(r) \/ Block(r)

UserActs(c) == Disconnect(c) \/ \E mode \in Modes : Connect(c, mode)

Next ==
  \/ \E c \in Callers : CallerWorks(c) \/ UserActs(c)
  \/ \E r \in Runs : RunWorks(r) \/ RunDisturbed(r)

Spec == Init /\ [][Next]_vars

\* The runtime polls every task that can go on, and its mutex is fair; the
\* select of a run takes a shutdown that stays ready.  adb answers.
Fairness ==
  /\ \A c \in Callers : SF_vars(CallerWorks(c))
  /\ \A r \in Runs : WF_vars(RunWorks(r)) /\ SF_vars(StreamStopped(r))

FairSpec == Spec /\ Fairness

-----------------------------------------------------------------------------
(* What must hold. *)

SendersAreOfLiveRun ==
  \A which \in DOMAIN sender : sender[which] # None => Live(sender[which])

ConnectedIsStreaming ==
  status = "connected" => \E r \in Runs : run[r] \in {"streaming", "blocked"}

\* What the window shows and uses never outlives its run, in whatever order
\* calls start and stop it: the senders of camera switches and configurations
\* are those of a live run, which has cleared them before the next one can
\* listen, and no connection is shown when no stream is running, though every
\* run and every stop publishes to the same status.
NothingOutlivesRun == SendersAreOfLiveRun /\ ConnectedIsStreaming

\* No run is left without a handle: one that is not the manager's has been
\* told to shut down, so a newer start never runs beside an older one for
\* good.
NoOrphan == \A r \in Runs : Live(r) => r = worker \/ r \in told

\* When every call has returned and the manager holds no live run, none is
\* left running, nothing is offered to the window and the port is free.
StoppedMeansStopped ==
  (\A c \in Callers : caller[c] = Idle) /\ (worker # None => ~Live(worker)) =>
    /\ \A r \in Runs : ~Live(r)
    /\ \A which \in DOMAIN sender : sender[which] = None
    /\ status \in {"disconnected", "error"}

\* A run that streams is shown as connected and can be reached by commands,
\* unless it was spawned while another call was still stopping its
\* predecessor: that call's last steps then retract the newer run.
StreamIsReachable ==
  \A r \in Runs \ overlapped :
    run[r] \in {"streaming", "blocked"} /\ r \notin told =>
      status = "connected" /\ \A which \in DOMAIN sender : sender[which] = r

\* A run started over USB keeps its adb tunnel as long as it is the manager's,
\* with the same exception: the overtaken stop removes it afterwards.
UsbRunHasTunnel ==
  usbForward /\ worker # None /\ worker \notin overlapped => tunnel

\* Every call returns, whatever the other calls do, unless it waits for a
\* run that is blocked sending to a phone that does not read.
CallsReturn ==
  \A c \in Callers :
    (caller[c] # Idle) ~> (caller[c] = Idle \/ \E r \in Runs : run[r] = "blocked")
=============================================================================
