----------------------- MODULE PipelineManagerProofs -----------------------
(***************************************************************************)
(* Theorems of PipelineManager, for any number of callers, calls and runs. *)
(* One inductive invariant, IInv, serves all of them.                      *)
(***************************************************************************)
EXTENDS PipelineManager, TLAPS

\* The lock guards the gap in start_usb: the runtime holds no run meanwhile.
ReverseHoldsLock ==
  \A c \in Callers : At(c, "reverse") => lock = c /\ worker = None

\* A run is spawned once.
UnbornAreNew == \A r \in Runs : r > spawned => run[r] = "unborn" /\ r \notin overlapped

\* A live run that is not the manager's has been told, and a stop waits for it.
JoinedOrOwned ==
  \A r \in Runs : Live(r) /\ r # worker =>
    r \in told /\ \E c \in Callers : At(c, "join") /\ caller[c].joins = r

\* A sender is that of a run between publishing and retracting it.
SenderPhase ==
  \A r \in Runs :
    /\ sender["connection"] = r =>
         run[r] \in {"publish_commands", "prepare", "streaming", "blocked",
                     "retract_connection"}
    /\ sender["commands"] = r =>
         run[r] \in {"prepare", "streaming", "blocked", "retract_connection",
                     "retract_commands"}

\* The window is told of listening while a run waits or gets ready to stream.
ListeningPhase ==
  status = "listening" =>
    \E r \in Runs : run[r] \in {"listening", "publish_connection", "publish_commands",
                                "prepare"}

\* No stop is under way beside the manager's run, unless it was when that run
\* was spawned: a stop takes the run it finds.
NoStopBeside ==
  worker # None /\ worker \notin overlapped => \A c \in Callers : ~Stopping(c)

\* What such a run has published so far.
Published ==
  \A r \in Runs \ overlapped :
    r \notin told =>
      /\ run[r] \in {"publish_commands", "prepare", "streaming", "blocked"} =>
           sender["connection"] = r
      /\ run[r] \in {"prepare", "streaming", "blocked"} => sender["commands"] = r
      /\ run[r] \in {"streaming", "blocked"} => status = "connected"

IInv ==
  /\ TypeOK /\ ReverseHoldsLock /\ UnbornAreNew /\ JoinedOrOwned
  /\ SenderPhase /\ ListeningPhase /\ ConnectedIsStreaming
  /\ NoStopBeside /\ UsbRunHasTunnel /\ Published

-----------------------------------------------------------------------------

LEMMA CallTypes ==
  /\ Idle \in Call
  /\ \A mode \in Modes : Starting(mode) \in Call
  /\ \A next \in Modes \cup {"none"} : [Idle EXCEPT !.pc = "take", !.next = next] \in Call
  BY DEF Idle, Starting, Call, CallPc, Modes

LEMMA GotoType ==
  ASSUME TypeOK, NEW c \in Callers, NEW pc \in CallPc, Goto(c, pc)
  PROVE  caller' \in [Callers -> Call]
  BY DEF TypeOK, Goto, Call

LEMMA SpawnType ==
  ASSUME TypeOK, NEW c \in Callers, NEW usb \in BOOLEAN, Spawn(c, usb)
  PROVE  /\ spawned' \in 0 .. RunLimit /\ spawned' \in Runs
         /\ worker' \in Runs /\ usbForward' \in BOOLEAN
         /\ run' \in [Runs -> RunPc] /\ overlapped' \subseteq Runs
         /\ caller' \in [Callers -> Call]
<1>1. spawned' \in Runs /\ spawned' \in 0 .. RunLimit
  BY RunLimitAssumption DEF Spawn, TypeOK, Runs
<1>. QED
  BY <1>1, CallTypes DEF Spawn, TypeOK, RunPc

LEMMA CallerType ==
  ASSUME TypeOK, NEW c \in Callers, CallerWorks(c) \/ UserActs(c)
  PROVE  TypeOK'
<1>. USE DEF TypeOK
<1>1. CASE UserActs(c)
  <2>1. PICK next \in Modes \cup {"none"} : Give(c, next)
    BY <1>1 DEF UserActs, Connect, Disconnect
  <2>2. caller' \in [Callers -> Call]
    <3>1. PICK call \in Call : call = [Idle EXCEPT !.pc = "take", !.next = next]
      BY CallTypes
    <3>2. caller' = [caller EXCEPT ![c] = call]
      BY <2>1, <3>1, Zenon DEF Give
    <3>. QED
      BY <3>2
  <2>3. calls' \in 0 .. CallLimit
    BY <2>1, CallLimitAssumption DEF Give
  <2>4. UNCHANGED <<worker, usbForward, lock, status, sender, run, told, spawned, overlapped, tunnel>>
    BY <2>1 DEF Give, managerVars, sharedVars, runVars
  <2>. QED
    BY <2>2, <2>3, <2>4, Zenon
<1>2. CASE Take(c)
  <2>1. caller' \in [Callers -> Call]
    <3>1. [caller[c] EXCEPT !.pc = "join", !.joins = worker, !.usb = usbForward] \in Call
      BY DEF Call, CallPc
    <3>. QED
      BY <1>2, <3>1 DEF Take
  <2>2. told' \subseteq Runs
    BY <1>2 DEF Take
  <2>. QED
    BY <1>2, <2>1, <2>2 DEF Take, sharedVars
<1>3. CASE Join(c)
  <2>1. caller' \in [Callers -> Call]
    BY <1>3, GotoType DEF Join, CallPc
  <2>. QED
    BY <1>3, <2>1 DEF Join, managerVars, sharedVars, runVars
<1>4. CASE ClearSenders(c)
  <2>1. PICK which \in {"connection", "commands"}, next \in CallPc : ClearSender(c, which, next)
    BY <1>4 DEF ClearSenders, CallPc
  <2>2. caller' \in [Callers -> Call]
    BY <2>1, GotoType DEF ClearSender
  <2>. QED
    BY <2>1, <2>2 DEF ClearSender, managerVars, runVars
<1>5. CASE RemoveTunnel(c)
  <2>1. caller' \in [Callers -> Call]
    BY <1>5, GotoType DEF RemoveTunnel, CallPc
  <2>. QED
    BY <1>5, <2>1 DEF RemoveTunnel, managerVars, sharedVars, runVars
<1>6. CASE Announce(c)
  <2>1. caller[c].next \in Modes \cup {"none"}
    BY DEF Call
  <2>2. caller' \in [Callers -> Call]
    BY <1>6, <2>1, CallTypes DEF Announce
  <2>. QED
    BY <1>6, <2>2 DEF Announce, managerVars, runVars
<1>7. CASE AlreadyStarted(c)
  <2>1. caller' \in [Callers -> Call]
    BY <1>7, CallTypes DEF AlreadyStarted
  <2>. QED
    BY <1>7, <2>1 DEF AlreadyStarted, managerVars, sharedVars, runVars
<1>8. CASE StartWifi(c)
  BY <1>8, SpawnType DEF StartWifi, sharedVars
<1>9. CASE BeginUsb(c)
  <2>1. caller' \in [Callers -> Call]
    BY <1>9, GotoType DEF BeginUsb, CallPc
  <2>. QED
    BY <1>9, <2>1 DEF BeginUsb, sharedVars, runVars
<1>10. CASE StartUsb(c)
  BY <1>10, SpawnType DEF StartUsb, sharedVars
<1>11. CASE UsbFails(c)
  <2>1. caller' \in [Callers -> Call]
    BY <1>11, CallTypes DEF UsbFails
  <2>. QED
    BY <1>11, <2>1 DEF UsbFails, sharedVars, runVars
<1>. QED
  BY <1>1, <1>2, <1>3, <1>4, <1>5, <1>6, <1>7, <1>8, <1>9, <1>10, <1>11 DEF CallerWorks

\* What all steps of a run have in common.
RunFacts(r) ==
  /\ UNCHANGED <<managerVars, callVars, told, spawned, overlapped, tunnel>>
  /\ Live(r)
  /\ run' \in [Runs -> RunPc] /\ run'[r] # "unborn"
  /\ \A s \in Runs \ {r} : run'[s] = run[s]

LEMMA RunStepFacts ==
  ASSUME TypeOK, NEW r \in Runs, RunWorks(r) \/ RunDisturbed(r)
  PROVE  RunFacts(r) /\ TypeOK'
<1>1. \E from, to \in RunPc \ {"unborn"} : from # "done" /\ Step(r, from, to)
  <2>1. CASE ForgetSenders(r) \/ PublishSenders(r) \/ RetractSenders(r)
    BY <2>1 DEF ForgetSenders, PublishSenders, RetractSenders, SetSender, RunPc
  <2>2. CASE Listen(r) \/ OpenFails(r) \/ ListenStopped(r) \/ Stream(r) \/ StreamStopped(r)
    BY <2>2 DEF Listen, OpenFails, ListenStopped, Stream, StreamStopped, RunPc
  <2>3. CASE Accept(r) \/ AcceptFails(r) \/ PhoneLeaves(r) \/ Block(r)
    BY <2>3 DEF Accept, AcceptFails, PhoneLeaves, Block, RunPc
  <2>4. CASE StreamFails(r)
    BY <2>4 DEF StreamFails, Step, RunPc
  <2>. QED
    BY <2>1, <2>2, <2>3, <2>4 DEF RunWorks, RunDisturbed
<1>2. UNCHANGED <<managerVars, callVars, told, spawned, overlapped, tunnel>>
  <2>1. CASE ForgetSenders(r) \/ PublishSenders(r) \/ RetractSenders(r)
    BY <2>1 DEF ForgetSenders, PublishSenders, RetractSenders, SetSender
  <2>2. CASE RunWorks(r) /\ ~(ForgetSenders(r) \/ PublishSenders(r) \/ RetractSenders(r))
    BY <2>2 DEF RunWorks, Listen, OpenFails, ListenStopped, Stream, StreamStopped, Publish
  <2>3. CASE RunDisturbed(r)
    BY <2>3 DEF RunDisturbed, Accept, AcceptFails, PhoneLeaves, Block, StreamFails, Publish
  <2>. QED
    BY <2>1, <2>2, <2>3
<1>3. /\ status' \in {"disconnected", "listening", "connected", "error"}
      /\ sender' \in [{"connection", "commands"} -> Runs \cup {None}]
  <2>1. CASE ForgetSenders(r) \/ PublishSenders(r) \/ RetractSenders(r)
    BY <2>1 DEF ForgetSenders, PublishSenders, RetractSenders, SetSender, TypeOK
  <2>2. CASE RunWorks(r) /\ ~(ForgetSenders(r) \/ PublishSenders(r) \/ RetractSenders(r))
    BY <2>2 DEF RunWorks, Listen, OpenFails, ListenStopped, Stream, StreamStopped, Publish, TypeOK
  <2>3. CASE RunDisturbed(r)
    BY <2>3 DEF RunDisturbed, Accept, AcceptFails, PhoneLeaves, Block, StreamFails, Publish,
       sharedVars, TypeOK
  <2>. QED
    BY <2>1, <2>2, <2>3
<1>4. RunFacts(r)
  BY <1>1, <1>2 DEF RunFacts, Step, Live, TypeOK
<1>. QED
  BY <1>2, <1>3, <1>4 DEF RunFacts, TypeOK, managerVars, callVars

LEMMA TypeInit == Init => TypeOK
<1>. SUFFICES ASSUME Init PROVE TypeOK
  OBVIOUS
<1>1. caller \in [Callers -> Call]
  BY CallTypes DEF Init, Modes
<1>2. calls \in 0 .. CallLimit /\ spawned \in 0 .. RunLimit
  BY RunLimitAssumption, CallLimitAssumption DEF Init
<1>3. run \in [Runs -> RunPc]
  BY DEF Init, RunPc
<1>. QED
  BY <1>1, <1>2, <1>3 DEF Init, TypeOK

\* The manager, its callers and its runs stay well typed: a run goes through
\* the stages of run_pipeline and a call through those of stop and start.
THEOREM TypeCorrect == Spec => []TypeOK
<1>1. Init => TypeOK
  BY TypeInit
<1>2. TypeOK /\ [Next]_vars => TypeOK'
  <2>. SUFFICES ASSUME TypeOK, [Next]_vars PROVE TypeOK'
    OBVIOUS
  <2>1. CASE UNCHANGED vars
    BY <2>1 DEF vars, managerVars, sharedVars, callVars, runVars, TypeOK
  <2>. QED
    BY <2>1, CallerType, RunStepFacts DEF Next
<1>. QED
  BY <1>1, <1>2, PTL DEF Spec

-----------------------------------------------------------------------------
(* Steps of a run *)

\* While a run nobody told is the manager's from its first step on, no other
\* lives: nothing else publishes.
LEMMA Alone ==
  ASSUME TypeOK, JoinedOrOwned, NoStopBeside,
         NEW r \in Runs \ overlapped, r \notin told, Live(r)
  PROVE  /\ r = worker
         /\ \A c \in Callers : ~Stopping(c)
         /\ \A s \in Runs : Live(s) => s = r
<1>1. r = worker /\ worker # None
  BY DEF JoinedOrOwned, Runs, None
<1>2. \A c \in Callers : ~Stopping(c)
  BY <1>1 DEF NoStopBeside
<1>3. \A c \in Callers : ~At(c, "join")
  BY <1>2 DEF Stopping, At
<1>. QED
  BY <1>1, <1>2, <1>3 DEF JoinedOrOwned

LEMMA RunKeepsManager ==
  ASSUME IInv, NEW r \in Runs, RunFacts(r)
  PROVE  /\ ReverseHoldsLock' /\ UnbornAreNew' /\ JoinedOrOwned'
         /\ NoStopBeside' /\ UsbRunHasTunnel'
<1>. USE DEF IInv, RunFacts, managerVars, callVars
<1>1. \A s \in Runs : Live(s)' => Live(s)
  BY DEF Live
<1>2. ReverseHoldsLock'
  BY DEF ReverseHoldsLock, At
<1>3. UnbornAreNew'
  BY DEF UnbornAreNew, Live
<1>4. JoinedOrOwned'
  BY <1>1 DEF JoinedOrOwned, At
<1>5. NoStopBeside'
  BY DEF NoStopBeside, Stopping
<1>6. UsbRunHasTunnel'
  BY DEF UsbRunHasTunnel
<1>. QED
  BY <1>2, <1>3, <1>4, <1>5, <1>6

\* What the steps of a run keep of what is published.
Shared == SenderPhase /\ ListeningPhase /\ ConnectedIsStreaming

\* What run s has published, as Published says.
HasPublished(s) ==
  /\ run[s] \in {"publish_commands", "prepare", "streaming", "blocked"} =>
       sender["connection"] = s
  /\ run[s] \in {"prepare", "streaming", "blocked"} => sender["commands"] = s
  /\ run[s] \in {"streaming", "blocked"} => status = "connected"

LEMMA RunKeepsShared ==
  ASSUME IInv, NEW r \in Runs, RunFacts(r), RunWorks(r) \/ RunDisturbed(r)
  PROVE  Shared' /\ (HasPublished(r) => HasPublished(r)')
<1>. USE DEF IInv, RunFacts, TypeOK, Shared, HasPublished, SenderPhase, ListeningPhase,
         ConnectedIsStreaming
<1>0. r # None
  BY DEF Runs, None
<1>1. ASSUME NEW which \in {"connection", "commands"}, NEW value \in {r, None},
             NEW from, NEW to, SetSender(r, which, value, from, to),
             \/ value = None /\ <<which, from, to>> \in
                  {<<"connection", "clear_connection", "clear_commands">>,
                   <<"commands", "clear_commands", "open">>,
                   <<"connection", "retract_connection", "retract_commands">>,
                   <<"commands", "retract_commands", "done">>}
             \/ value = r /\ <<which, from, to>> \in
                  {<<"connection", "publish_connection", "publish_commands">>,
                   <<"commands", "publish_commands", "prepare">>}
      PROVE  Shared' /\ (HasPublished(r) => HasPublished(r)')
  <2>1. run[r] = from /\ run'[r] = to /\ sender' = [sender EXCEPT ![which] = value]
        /\ status' = status
    BY <1>1 DEF SetSender, Step
  <2>2. SenderPhase'
    <3>1. \A s \in Runs \ {r} : \A w \in {"connection", "commands"} :
            sender'[w] = s => sender[w] = s
      BY <2>1 DEF Runs, None
    <3>2. \A w \in {"connection", "commands"} :
            sender'[w] = r => (w = which /\ value = r) \/ (w # which /\ sender[w] = r)
      BY <1>0, <2>1
    <3>3. sender'["connection"] = r =>
            to \in {"publish_commands", "prepare", "streaming", "blocked", "retract_connection"}
      BY <1>0, <1>1, <2>1, <3>2
    <3>4. sender'["commands"] = r =>
            to \in {"prepare", "streaming", "blocked", "retract_connection", "retract_commands"}
      BY <1>0, <1>1, <2>1, <3>2
    <3>. QED
      BY <2>1, <3>1, <3>3, <3>4
  <2>3. ListeningPhase' /\ ConnectedIsStreaming'
    <3>1. run[r] \in {"listening", "publish_connection", "publish_commands", "prepare"}
            => run'[r] \in {"publish_commands", "prepare"}
      <4>1. \/ from \in {"clear_connection", "clear_commands", "retract_connection",
                         "retract_commands"}
            \/ to \in {"publish_commands", "prepare"}
        BY <1>1
      <4>. QED
        BY <2>1, <4>1
    <3>2. ConnectedIsStreaming'
      <4>1. run[r] \notin {"streaming", "blocked"}
        BY <1>1, <2>1
      <4>. QED
        BY <2>1, <4>1
    <3>3. ListeningPhase'
      <4>. SUFFICES ASSUME status = "listening"
                    PROVE  \E s \in Runs : run'[s] \in {"listening", "publish_connection",
                                                        "publish_commands", "prepare"}
        BY <2>1
      <4>1. PICK s \in Runs : run[s] \in {"listening", "publish_connection",
                                          "publish_commands", "prepare"}
        OBVIOUS
      <4>2. CASE s = r
        BY <2>1, <3>1, <4>1, <4>2
      <4>3. CASE s # r
        BY <4>1, <4>3
      <4>. QED
        BY <4>2, <4>3
    <3>. QED
      BY <3>2, <3>3
  <2>4. HasPublished(r) => HasPublished(r)'
    BY <1>1, <2>1
  <2>. QED
    BY <2>2, <2>3, <2>4
<1>2. CASE ForgetSenders(r) \/ RetractSenders(r)
  BY <1>1, <1>2 DEF ForgetSenders, RetractSenders
<1>3. CASE PublishSenders(r)
  BY <1>1, <1>3 DEF PublishSenders
<1>4. CASE Listen(r) \/ OpenFails(r) \/ ListenStopped(r) \/ AcceptFails(r)
  BY <1>4 DEF Listen, OpenFails, ListenStopped, AcceptFails, Publish, Step
<1>5. CASE Stream(r) \/ StreamStopped(r) \/ PhoneLeaves(r)
  BY <1>5 DEF Stream, StreamStopped, PhoneLeaves, Publish, Step
<1>6. CASE StreamFails(r)
  BY <1>6 DEF StreamFails, Publish
<1>7. CASE Accept(r) \/ Block(r)
  BY <1>7 DEF Accept, Block, Step, sharedVars
<1>. QED
  BY <1>2, <1>3, <1>4, <1>5, <1>6, <1>7 DEF RunWorks, RunDisturbed

LEMMA RunInv ==
  ASSUME IInv, NEW r \in Runs, RunWorks(r) \/ RunDisturbed(r)
  PROVE  IInv'
<1>1. TypeOK' /\ RunFacts(r)
  BY RunStepFacts DEF IInv
<1>2. Shared' /\ (HasPublished(r) => HasPublished(r)')
  BY <1>1, RunKeepsShared
<1>3. Published'
  <2>. SUFFICES ASSUME NEW s \in Runs \ overlapped, s \notin told PROVE HasPublished(s)'
    BY <1>1 DEF Published, HasPublished, RunFacts
  <2>1. CASE s = r
    BY <1>2, <2>1 DEF IInv, Published, HasPublished
  <2>2. CASE s # r
    <3>1. ~Live(s)
      BY <1>1, <2>2, Alone DEF IInv, RunFacts
    <3>. QED
      BY <1>1, <2>2, <3>1 DEF RunFacts, Live, HasPublished
  <2>. QED
    BY <2>1, <2>2
<1>. QED
  BY <1>1, <1>2, <1>3, RunKeepsManager DEF IInv, Shared

-----------------------------------------------------------------------------
(* Steps of a caller *)

\* A step of a caller that neither takes nor spawns a run, leaves no join and
\* does not begin a tunnel.
LEMMA CallerKeepsRuns ==
  ASSUME IInv, NEW c \in Callers,
         UNCHANGED <<worker, usbForward, runVars>>,
         caller' \in [Callers -> Call],
         \A d \in Callers \ {c} : caller'[d] = caller[d],
         ~At(c, "join") \/ (caller[c].joins # None => run[caller[c].joins] = "done"),
         ~At(c, "reverse")',
         lock' = lock \/ At(c, "reverse"),
         Stopping(c)' => Stopping(c)
  PROVE  /\ ReverseHoldsLock' /\ UnbornAreNew' /\ JoinedOrOwned' /\ NoStopBeside'
<1>. USE DEF IInv, runVars
<1>1. ReverseHoldsLock'
  <2>. SUFFICES ASSUME NEW d \in Callers, At(d, "reverse")'
                PROVE  lock' = d /\ worker' = None
    BY DEF ReverseHoldsLock
  <2>1. d # c /\ At(d, "reverse")
    BY DEF At
  <2>2. lock = d /\ worker = None
    BY <2>1 DEF ReverseHoldsLock
  <2>3. ~At(c, "reverse")
    BY <2>1, <2>2 DEF ReverseHoldsLock
  <2>. QED
    BY <2>2, <2>3
<1>2. UnbornAreNew'
  BY DEF UnbornAreNew
<1>3. JoinedOrOwned'
  <2>. SUFFICES ASSUME NEW r \in Runs, Live(r), r # worker
                PROVE  r \in told' /\ \E d \in Callers : At(d, "join")' /\ caller'[d].joins = r
    BY DEF JoinedOrOwned, Live
  <2>1. PICK d \in Callers : At(d, "join") /\ caller[d].joins = r
    BY DEF JoinedOrOwned
  <2>2. d # c
    BY <2>1 DEF Live, Runs, None
  <2>. QED
    BY <2>1, <2>2 DEF JoinedOrOwned, At
<1>4. NoStopBeside'
  <2>. SUFFICES ASSUME worker # None, worker \notin overlapped, NEW d \in Callers
                PROVE  ~Stopping(d)'
    BY DEF NoStopBeside
  <2>1. ~Stopping(d)
    BY DEF NoStopBeside
  <2>. QED
    BY <2>1 DEF Stopping
<1>. QED
  BY <1>1, <1>2, <1>3, <1>4

\* A caller's step that changes nothing that is published, or belongs to a stop.
LEMMA CallerKeepsShared ==
  ASSUME IInv, NEW c \in Callers, UNCHANGED <<worker, usbForward, runVars>>,
         \/ UNCHANGED <<sender, status, tunnel>>
         \/ /\ Stopping(c)
            /\ \A which \in {"connection", "commands"} :
                 sender'[which] \in {sender[which], None}
            /\ status' \in {status, "disconnected"}
  PROVE  Shared' /\ Published' /\ UsbRunHasTunnel'
<1>. USE DEF IInv, runVars
<1>1. CASE UNCHANGED <<sender, status, tunnel>>
  BY <1>1 DEF Shared, SenderPhase, ListeningPhase, ConnectedIsStreaming, Published,
     UsbRunHasTunnel
<1>2. CASE /\ Stopping(c)
           /\ \A which \in {"connection", "commands"} : sender'[which] \in {sender[which], None}
           /\ status' \in {status, "disconnected"}
  <2>1. SenderPhase'
    BY <1>2 DEF SenderPhase, Runs, None
  <2>2. ListeningPhase' /\ ConnectedIsStreaming'
    BY <1>2 DEF ListeningPhase, ConnectedIsStreaming
  <2>3. Published'
    <3>1. \A r \in Runs \ overlapped : r \notin told => ~Live(r)
      BY <1>2, Alone
    <3>. QED
      BY <3>1 DEF Published, Live
  <2>4. UsbRunHasTunnel'
    BY <1>2 DEF UsbRunHasTunnel, NoStopBeside
  <2>. QED
    BY <2>1, <2>2, <2>3, <2>4 DEF Shared
<1>. QED
  BY <1>1, <1>2

\* Where a caller stands after a step that moves it.
LEMMA Moved ==
  ASSUME TypeOK, NEW c \in Callers, NEW pc, Goto(c, pc)
  PROVE  caller'[c].pc = pc /\ \A d \in Callers \ {c} : caller'[d] = caller[d]
  BY DEF TypeOK, Goto, Call

LEMMA TakeInv ==
  ASSUME IInv, NEW c \in Callers, Take(c)
  PROVE  IInv'
<1>. USE DEF IInv, Take, sharedVars
<1>1. TypeOK'
  BY CallerType DEF CallerWorks
<1>2. /\ caller'[c].pc = "join" /\ caller'[c].joins = worker
      /\ \A d \in Callers \ {c} : caller'[d] = caller[d]
  BY DEF TypeOK, Call
<1>3. ReverseHoldsLock'
  BY <1>2 DEF ReverseHoldsLock, At
<1>4. UnbornAreNew'
  BY DEF UnbornAreNew
<1>5. JoinedOrOwned'
  <2>. SUFFICES ASSUME NEW r \in Runs, Live(r)
                PROVE  r \in told' /\ \E d \in Callers : At(d, "join")' /\ caller'[d].joins = r
    BY DEF JoinedOrOwned, Live
  <2>1. CASE r = worker
    BY <1>2, <2>1 DEF At, Runs, None
  <2>2. CASE r # worker
    <3>1. PICK d \in Callers : At(d, "join") /\ caller[d].joins = r
      BY <2>2 DEF JoinedOrOwned
    <3>2. d # c
      BY <3>1 DEF At
    <3>. QED
      BY <1>2, <2>2, <3>1, <3>2 DEF JoinedOrOwned, At
  <2>. QED
    BY <2>1, <2>2
<1>6. NoStopBeside' /\ UsbRunHasTunnel'
  BY DEF NoStopBeside, UsbRunHasTunnel
<1>7. Shared'
  BY DEF Shared, SenderPhase, ListeningPhase, ConnectedIsStreaming
<1>8. Published'
  BY DEF Published
<1>. QED
  BY <1>1, <1>3, <1>4, <1>5, <1>6, <1>7, <1>8 DEF Shared

\* The steps of a stop behind Take, a start that finds a run, and a tunnel
\* that fails.
LEMMA QuietInv ==
  ASSUME IInv, NEW c \in Callers,
         \/ UserActs(c) \/ Join(c) \/ ClearSenders(c) \/ RemoveTunnel(c) \/ Announce(c)
         \/ AlreadyStarted(c) \/ UsbFails(c)
  PROVE  IInv'
<1>. USE DEF IInv, managerVars, sharedVars, runVars
<1>1. TypeOK'
  BY CallerType DEF CallerWorks
<1>2. TypeOK /\ caller' \in [Callers -> Call]
  BY <1>1 DEF TypeOK
<1>3. CASE UserActs(c)
  <2>1. PICK next \in Modes \cup {"none"} : Give(c, next)
    BY <1>3 DEF UserActs, Connect, Disconnect
  <2>2. /\ caller[c].pc = "idle" /\ caller'[c].pc = "take"
        /\ \A d \in Callers \ {c} : caller'[d] = caller[d]
    BY <1>2, <2>1 DEF Give, Idle, TypeOK
  <2>. QED
    BY <1>1, <1>2, <2>1, <2>2, CallerKeepsRuns, CallerKeepsShared DEF Give, At, Stopping, Shared
<1>4. CASE Join(c)
  <2>1. caller'[c].pc = "clear_connection" /\ \A d \in Callers \ {c} : caller'[d] = caller[d]
    BY <1>4, Moved DEF Join
  <2>. QED
    BY <1>1, <1>2, <1>4, <2>1, CallerKeepsRuns, CallerKeepsShared DEF Join, At, Stopping, Shared
<1>5. CASE ClearSenders(c)
  <2>1. PICK which \in {"connection", "commands"},
             next \in {"clear_commands", "remove_tunnel", "announce"} :
               ClearSender(c, which, next)
    BY <1>5 DEF ClearSenders
  <2>2. caller'[c].pc = next /\ \A d \in Callers \ {c} : caller'[d] = caller[d]
    BY <2>1, Moved DEF ClearSender
  <2>3. caller[c].pc \in {"clear_connection", "clear_commands"}
    BY <1>5 DEF ClearSenders, At
  <2>4. Stopping(c) /\ ~At(c, "join") /\ ~At(c, "reverse")'
    BY <2>2, <2>3 DEF Stopping, At
  <2>5. \A w \in {"connection", "commands"} : sender'[w] \in {sender[w], None}
    BY <2>1 DEF ClearSender, TypeOK
  <2>. QED
    BY <1>1, <1>2, <2>1, <2>2, <2>4, <2>5, CallerKeepsRuns, CallerKeepsShared
    DEF ClearSender, Shared
<1>6. CASE RemoveTunnel(c)
  <2>1. caller'[c].pc = "announce" /\ \A d \in Callers \ {c} : caller'[d] = caller[d]
    BY <1>6, Moved DEF RemoveTunnel
  <2>2. Stopping(c) /\ ~At(c, "join") /\ ~At(c, "reverse")'
    BY <1>6, <2>1 DEF RemoveTunnel, Stopping, At
  <2>. QED
    BY <1>1, <1>2, <1>6, <2>1, <2>2, CallerKeepsRuns, CallerKeepsShared DEF RemoveTunnel, Shared
<1>7. CASE Announce(c)
  <2>1. caller'[c].pc \in {"idle", "start"} /\ \A d \in Callers \ {c} : caller'[d] = caller[d]
    BY <1>7 DEF Announce, Idle, Starting, TypeOK
  <2>2. Stopping(c) /\ ~At(c, "join") /\ ~At(c, "reverse")' /\ ~Stopping(c)'
    BY <1>7, <2>1 DEF Announce, Stopping, At
  <2>. QED
    BY <1>1, <1>2, <1>7, <2>1, <2>2, CallerKeepsRuns, CallerKeepsShared DEF Announce, Shared
<1>8. CASE AlreadyStarted(c) \/ UsbFails(c)
  <2>1. caller'[c].pc = "idle" /\ \A d \in Callers \ {c} : caller'[d] = caller[d]
    BY <1>8 DEF AlreadyStarted, UsbFails, Idle, TypeOK
  <2>2. caller[c].pc \in {"start", "reverse"} /\ (lock' = lock \/ At(c, "reverse"))
    BY <1>8 DEF AlreadyStarted, UsbFails, At
  <2>3. ~At(c, "join") /\ ~At(c, "reverse")' /\ ~Stopping(c)'
    BY <2>1, <2>2 DEF Stopping, At
  <2>4. UNCHANGED <<worker, usbForward, runVars, sender, status, tunnel>>
    BY <1>8 DEF AlreadyStarted, UsbFails
  <2>. QED
    BY <1>1, <1>2, <2>1, <2>2, <2>3, <2>4, CallerKeepsRuns, CallerKeepsShared DEF Shared
<1>. QED
  BY <1>3, <1>4, <1>5, <1>6, <1>7, <1>8

\* A start spawns a run when the runtime holds none that lives.
LEMMA SpawnInv ==
  ASSUME IInv, TypeOK', NEW c \in Callers, NEW usb \in BOOLEAN, Spawn(c, usb),
         worker # None => ~Live(worker),
         ~At(c, "join"),
         \A d \in Callers \ {c} : ~At(d, "reverse"),
         UNCHANGED <<sender, status, told>>,
         usb => tunnel'
  PROVE  IInv'
<1>. USE DEF IInv, Spawn
<1>1. /\ spawned' = spawned + 1 /\ spawned' \in Runs /\ spawned \in Nat
      /\ run[spawned'] = "unborn" /\ spawned' \notin overlapped
  BY SpawnType, RunLimitAssumption DEF UnbornAreNew, TypeOK
<1>2. /\ run'[spawned'] = "clear_connection"
      /\ \A r \in Runs \ {spawned'} : run'[r] = run[r]
  BY <1>1 DEF TypeOK
<1>3. caller'[c] = Idle /\ \A d \in Callers \ {c} : caller'[d] = caller[d]
  BY DEF TypeOK
<1>4. ReverseHoldsLock'
  BY <1>3 DEF ReverseHoldsLock, At, Idle
<1>5. UnbornAreNew'
  <2>. SUFFICES ASSUME NEW r \in Runs, r > spawned'
                PROVE  run'[r] = "unborn" /\ r \notin overlapped'
    BY DEF UnbornAreNew
  <2>1. r > spawned /\ r # spawned'
    BY <1>1 DEF Runs
  <2>. QED
    BY <1>2, <2>1 DEF UnbornAreNew
<1>6. JoinedOrOwned'
  <2>. SUFFICES ASSUME NEW r \in Runs, Live(r)', r # worker'
                PROVE  r \in told /\ \E d \in Callers : At(d, "join")' /\ caller'[d].joins = r
    BY DEF JoinedOrOwned
  <2>1. Live(r) /\ r # worker
    BY <1>2 DEF Live, Runs, None
  <2>2. PICK d \in Callers : At(d, "join") /\ caller[d].joins = r
    BY <2>1 DEF JoinedOrOwned
  <2>3. d # c
    BY <2>2
  <2>. QED
    BY <1>3, <2>1, <2>2, <2>3 DEF JoinedOrOwned, At
<1>7. NoStopBeside'
  <2>. SUFFICES ASSUME worker' \notin overlapped', NEW d \in Callers
                PROVE  ~Stopping(d)'
    BY DEF NoStopBeside
  <2>1. ~\E other \in Callers : Stopping(other)
    OBVIOUS
  <2>. QED
    BY <1>3, <2>1 DEF Stopping, Idle
<1>8. UsbRunHasTunnel'
  BY DEF UsbRunHasTunnel
<1>9. SenderPhase'
  <2>1. sender["connection"] # spawned' /\ sender["commands"] # spawned'
    BY <1>1 DEF SenderPhase
  <2>. QED
    BY <1>2, <2>1 DEF SenderPhase
<1>10. ListeningPhase' /\ ConnectedIsStreaming'
  <2>1. \A r \in Runs : run[r] # "unborn" => run'[r] = run[r]
    BY <1>1, <1>2
  <2>2. ListeningPhase'
    BY <2>1 DEF ListeningPhase
  <2>3. ConnectedIsStreaming'
    BY <2>1 DEF ConnectedIsStreaming
  <2>. QED
    BY <2>2, <2>3
<1>11. Published'
  <2>. SUFFICES ASSUME NEW r \in Runs \ overlapped', r \notin told
                PROVE  HasPublished(r)'
    BY DEF Published, HasPublished
  <2>1. CASE r = spawned'
    BY <1>2, <2>1 DEF HasPublished
  <2>2. CASE r # spawned'
    <3>1. r \in Runs \ overlapped /\ HasPublished(r)
      BY DEF Published, HasPublished
    <3>. QED
      BY <1>2, <2>2, <3>1 DEF HasPublished
  <2>. QED
    BY <2>1, <2>2
<1>. QED
  BY <1>4, <1>5, <1>6, <1>7, <1>8, <1>9, <1>10, <1>11

LEMMA StartInv ==
  ASSUME IInv, NEW c \in Callers, StartWifi(c) \/ BeginUsb(c) \/ StartUsb(c)
  PROVE  IInv'
<1>. USE DEF IInv, sharedVars, runVars
<1>1. TypeOK'
  BY CallerType DEF CallerWorks
<1>2. CASE StartWifi(c)
  <2>1. lock = NoCaller /\ \A d \in Callers : ~At(d, "reverse")
    BY <1>2, NobodyAssumption DEF StartWifi, CanStart, ReverseHoldsLock
  <2>2. ~At(c, "join")
    BY <1>2 DEF StartWifi, CanStart, At
  <2>. QED
    BY <1>1, <1>2, <2>1, <2>2, SpawnInv DEF StartWifi, CanStart
<1>3. CASE StartUsb(c)
  <2>1. lock = c /\ worker = None /\ ~At(c, "join")
    BY <1>3 DEF StartUsb, ReverseHoldsLock, At
  <2>2. \A d \in Callers \ {c} : ~At(d, "reverse")
    BY <2>1 DEF ReverseHoldsLock
  <2>. QED
    BY <1>1, <1>3, <2>1, <2>2, SpawnInv DEF StartUsb
<1>4. CASE BeginUsb(c)
  <2>1. caller'[c].pc = "reverse" /\ \A d \in Callers \ {c} : caller'[d] = caller[d]
    BY <1>4, Moved DEF BeginUsb
  <2>2. lock = NoCaller /\ (worker # None => ~Live(worker)) /\ ~At(c, "join")
    BY <1>4 DEF BeginUsb, CanStart, At
  <2>3. lock' = c /\ worker' = None /\ UNCHANGED <<usbForward, sender, status, run, told,
                                                   spawned, overlapped, tunnel>>
    BY <1>4 DEF BeginUsb
  <2>4. ReverseHoldsLock'
    BY <2>1, <2>2, <2>3, NobodyAssumption DEF ReverseHoldsLock, At
  <2>5. JoinedOrOwned'
    <3>. SUFFICES ASSUME NEW r \in Runs, Live(r)
                  PROVE  r \in told /\ \E d \in Callers : At(d, "join")' /\ caller'[d].joins = r
      BY <2>3 DEF JoinedOrOwned, Live
    <3>1. r # worker
      BY <2>2 DEF Runs, None
    <3>2. PICK d \in Callers : At(d, "join") /\ caller[d].joins = r
      BY <3>1 DEF JoinedOrOwned
    <3>. QED
      BY <2>1, <2>2, <3>1, <3>2 DEF JoinedOrOwned, At
  <2>6. UnbornAreNew' /\ NoStopBeside' /\ UsbRunHasTunnel'
    BY <2>3 DEF UnbornAreNew, NoStopBeside, UsbRunHasTunnel
  <2>7. SenderPhase' /\ ListeningPhase' /\ ConnectedIsStreaming'
    BY <2>3 DEF SenderPhase, ListeningPhase, ConnectedIsStreaming
  <2>8. Published'
    BY <2>3 DEF Published
  <2>. QED
    BY <1>1, <2>4, <2>5, <2>6, <2>7, <2>8
<1>. QED
  BY <1>2, <1>3, <1>4

-----------------------------------------------------------------------------

LEMMA InitInv == Init => IInv
<1>. SUFFICES ASSUME Init PROVE IInv
  OBVIOUS
<1>1. TypeOK
  BY TypeInit
<1>2. ReverseHoldsLock
  BY DEF Init, ReverseHoldsLock, At, Idle, Starting
<1>3. UnbornAreNew /\ JoinedOrOwned /\ SenderPhase /\ ListeningPhase /\ ConnectedIsStreaming
  BY DEF Init, UnbornAreNew, JoinedOrOwned, SenderPhase, ListeningPhase, ConnectedIsStreaming,
     Live, Runs, None
<1>4. NoStopBeside /\ UsbRunHasTunnel /\ Published
  BY DEF Init, NoStopBeside, UsbRunHasTunnel, Published
<1>. QED
  BY <1>1, <1>2, <1>3, <1>4 DEF IInv

LEMMA NextInv == IInv /\ [Next]_vars => IInv'
<1>. SUFFICES ASSUME IInv, [Next]_vars PROVE IInv'
  OBVIOUS
<1>1. ASSUME NEW c \in Callers, CallerWorks(c) \/ UserActs(c) PROVE IInv'
  BY <1>1, TakeInv, QuietInv, StartInv DEF CallerWorks
<1>2. ASSUME NEW r \in Runs, RunWorks(r) \/ RunDisturbed(r) PROVE IInv'
  BY <1>2, RunInv
<1>3. CASE UNCHANGED vars
  BY <1>3 DEF vars, managerVars, sharedVars, callVars, runVars, IInv, TypeOK, ReverseHoldsLock,
     UnbornAreNew, JoinedOrOwned, SenderPhase, ListeningPhase, ConnectedIsStreaming,
     NoStopBeside, UsbRunHasTunnel, Published, At, Live, Stopping
<1>. QED
  BY <1>1, <1>2, <1>3 DEF Next

LEMMA Invariance == Spec => []IInv
  BY InitInv, NextInv, PTL DEF Spec

\* No sender and no connection is shown for a run that is over, whichever
\* calls and runs overtake each other (PipelineManager, run_pipeline).
THEOREM NothingOutlivesItsRun == Spec => []NothingOutlivesRun
<1>1. IInv => NothingOutlivesRun
  BY DEF IInv, TypeOK, NothingOutlivesRun, SendersAreOfLiveRun, SenderPhase, Live
<1>. QED
  BY <1>1, Invariance, PTL

\* Every live run is the manager's or was told to shut down (stop).
THEOREM NoRunIsOrphaned == Spec => []NoOrphan
<1>1. IInv => NoOrphan
  BY DEF IInv, NoOrphan, JoinedOrOwned
<1>. QED
  BY <1>1, Invariance, PTL

\* After every call has returned a manager without a live run has left none
\* running, nothing for the window to use and no sign of a connection (stop).
THEOREM StopIsComplete == Spec => []StoppedMeansStopped
<1>1. ASSUME IInv, \A c \in Callers : caller[c] = Idle, worker # None => ~Live(worker)
      PROVE  /\ \A r \in Runs : ~Live(r)
             /\ \A which \in DOMAIN sender : sender[which] = None
             /\ status \in {"disconnected", "error"}
  <2>1. ASSUME NEW c \in Callers
        PROVE  ~At(c, "join")
    <3>1. caller[c].pc = "idle"
      BY <1>1 DEF Idle
    <3>. QED
      BY <3>1 DEF At
  <2>2. \A r \in Runs : ~Live(r)
    BY <1>1, <2>1 DEF IInv, JoinedOrOwned, Runs, None
  <2>3. \A which \in DOMAIN sender : sender[which] = None
    BY <1>1, <2>2 DEF IInv, TypeOK, SenderPhase, Live
  <2>4. status \notin {"listening", "connected"}
    BY <1>1, <2>2 DEF IInv, ListeningPhase, ConnectedIsStreaming, Live
  <2>. QED
    BY <1>1, <2>2, <2>3, <2>4 DEF IInv, TypeOK
<1>2. IInv => StoppedMeansStopped
  BY <1>1 DEF StoppedMeansStopped
<1>. QED
  BY <1>2, Invariance, PTL

\* A run that streams is shown and can be reached, unless it was spawned while
\* another call was still stopping its predecessor (stop, run_pipeline).
THEOREM StreamStaysReachable == Spec => []StreamIsReachable
<1>1. IInv => StreamIsReachable
  BY DEF IInv, TypeOK, StreamIsReachable, Published
<1>. QED
  BY <1>1, Invariance, PTL

\* With the same exception, the manager's run over USB has its tunnel
\* (start_usb, stop).
THEOREM UsbRunKeepsTunnel == Spec => []UsbRunHasTunnel
  BY Invariance, PTL DEF IInv
=============================================================================
