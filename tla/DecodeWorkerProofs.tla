-------------------------- MODULE DecodeWorkerProofs --------------------------
(***************************************************************************)
(* Theorems of DecodeWorker, for any capacities of its queues, any number  *)
(* of pictures per frame and any number of resets.                         *)
(***************************************************************************)
EXTENDS DecodeWorker, TLAPS

OfGeneration(items) == \A i \in DOMAIN items : items[i].generation = generation

\* A thread that is sending has events left to send, and no other has.
EmittingPhase == pc = "emitting" <=> emitting # <<>>

\* There is a control only for the reset that is awaited, until it is
\* answered; a thread that is gone has answered it.
ControlsPhase ==
  /\ owner = "loop" => controls = <<>>
  /\ owner = "resetting" =>
       /\ generation < ResetLimit
       /\ ack # "none" => controls = <<>>
       /\ ack = "none" => pc # "exited" /\ \E c \in Codecs : controls = <<Reset(c)>>

\* A reset that has succeeded: the thread holds nothing and can do nothing
\* before the task has taken notice.
Acknowledged == owner = "resetting" /\ ack = "ok"
AcknowledgedIsEmpty == Acknowledged => pc = "ready" /\ frames = <<>>

\* Before that nothing in the worker is older than the last reset that
\* succeeded, and its codec is the active one.
Current ==
  owner \in {"loop", "resetting"} /\ ~Acknowledged =>
    /\ OfGeneration(frames) /\ OfGeneration(events) /\ OfGeneration(emitting)
    /\ pc # "exited" => codec = active

IInv ==
  /\ TypeOK /\ EmittingPhase /\ ControlsPhase /\ AcknowledgedIsEmpty /\ Current

-----------------------------------------------------------------------------
LEMMA QueueRest ==
  ASSUME NEW S, NEW queue \in Seq(S), queue # <<>>
  PROVE  /\ Head(queue) \in S /\ Head(queue) = queue[1] /\ 1 \in DOMAIN queue
         /\ Tail(queue) \in Seq(S) /\ Len(Tail(queue)) = Len(queue) - 1
         /\ \A i \in DOMAIN Tail(queue) : i + 1 \in DOMAIN queue /\ Tail(queue)[i] = queue[i + 1]
  OBVIOUS

\* The rest of a queue is of the same generation.
LEMMA RestOfGeneration ==
  ASSUME NEW S, NEW queue \in Seq(S), queue # <<>>, OfGeneration(queue)
  PROVE  /\ Head(queue).generation = generation
         /\ \A i \in DOMAIN Tail(queue) : Tail(queue)[i].generation = generation
  BY QueueRest DEF OfGeneration

-----------------------------------------------------------------------------
(* The thread. *)

LEMMA ExitInv ==
  ASSUME IInv, ~Acknowledged, Exit
  PROVE  IInv'
<1>1. TypeOK'
  BY CapacityAssumption DEF IInv, TypeOK, Exit, ownerVars
<1>. QED
  BY <1>1 DEF IInv, TypeOK, Exit, ownerVars, EmittingPhase, ControlsPhase, Acknowledged,
     AcknowledgedIsEmpty, Current, OfGeneration

LEMMA ApplyResetInv ==
  ASSUME IInv, ApplyReset
  PROVE  IInv'
<1>1. /\ controls # <<>> /\ Head(controls) \in Control
      /\ Tail(controls) \in Seq(Control)
  BY DEF IInv, TypeOK, ApplyReset
<1>2. Head(controls).codec \in Codecs
  BY <1>1 DEF ApplyReset, Control, Stop
<1>3. TypeOK'
  <2>1. codec' \in Codecs /\ ack' \in {"none", "ok", "failed", "dropped"}
    BY <1>2 DEF IInv, TypeOK, ApplyReset
  <2>2. waiting' \in BOOLEAN
    BY Zenon DEF IInv, TypeOK, ApplyReset
  <2>. QED
    BY <1>1, <2>1, <2>2, CapacityAssumption DEF IInv, TypeOK, ApplyReset, ownerVars
<1>4. owner = "resetting" => ack = "none" /\ Tail(controls) = <<>>
  <2>1. SUFFICES ASSUME owner = "resetting"
                 PROVE  ack = "none" /\ Tail(controls) = <<>>
    OBVIOUS
  <2>2. ack = "none" /\ \E c \in Codecs : controls = <<Reset(c)>>
    BY <1>1, <2>1 DEF IInv, ControlsPhase
  <2>. QED
    BY <2>2
<1>5. owner # "loop"
  BY <1>1 DEF IInv, ControlsPhase
<1>. QED
  BY <1>1, <1>3, <1>4, <1>5 DEF IInv, TypeOK, ApplyReset, ownerVars, EmittingPhase, ControlsPhase,
     Acknowledged, AcknowledgedIsEmpty, Current, OfGeneration

\* Taking a frame: its events are of its generation.
LEMMA TakeFrameInv ==
  ASSUME IInv, NextFrame, waiting' \in BOOLEAN,
         NEW n \in Nat, NEW kinds \in [1 .. n -> {"frame", "recovery", "error"}],
         TakeFrame(kinds)
  PROVE  IInv'
<1>. DEFINE g == Head(frames).generation
<1>1. frames \in Seq(Frame) /\ frames # <<>> /\ Head(frames) \in Frame /\ Tail(frames) \in Seq(Frame)
  BY DEF IInv, TypeOK, NextFrame
<1>2. g \in Generations
  BY <1>1 DEF Frame
<1>3. emitting' = [i \in 1 .. n |-> Event(kinds[i], g)]
  BY DEF TakeFrame
<1>4. \A i \in 1 .. n : Event(kinds[i], g) \in Events
  BY <1>2 DEF Event, Events
<1>5. emitting' \in Seq(Events)
  BY <1>3, <1>4
<1>6. \A i \in DOMAIN emitting' : emitting'[i].generation = g
  BY <1>3 DEF Event
<1>7. kinds = <<>> => emitting' = <<>>
  <2>1. kinds = <<>> => n = 0
    OBVIOUS
  <2>. QED
    BY <1>3, <2>1
<1>8. TypeOK'
  <2>1. Len(Tail(frames)) <= FrameCapacity
    BY <1>1, QueueRest, CapacityAssumption DEF IInv, TypeOK
  <2>. QED
    BY <1>1, <1>5, <2>1 DEF IInv, TypeOK, TakeFrame, ownerVars
<1>9. EmittingPhase'
  BY <1>7 DEF EmittingPhase, TakeFrame
<1>10. ~Acknowledged /\ Acknowledged' = Acknowledged
  BY <1>1 DEF IInv, AcknowledgedIsEmpty, Acknowledged, TakeFrame, ownerVars
<1>11. owner \in {"loop", "resetting"} =>
         /\ OfGeneration(frames)' /\ OfGeneration(events)' /\ OfGeneration(emitting)'
         /\ codec' = active'
  <2>1. SUFFICES ASSUME owner \in {"loop", "resetting"}
                 PROVE  /\ OfGeneration(frames)' /\ OfGeneration(events)'
                        /\ OfGeneration(emitting)' /\ codec' = active'
    OBVIOUS
  <2>2. /\ OfGeneration(frames) /\ OfGeneration(events) /\ codec = active
        /\ UNCHANGED <<events, codec, active, generation>> /\ frames' = Tail(frames)
    BY <1>10, <2>1 DEF IInv, Current, NextFrame, TakeFrame, ownerVars
  <2>3. g = generation
    BY <1>1, <2>2, RestOfGeneration
  <2>4. \A i \in DOMAIN Tail(frames) : Tail(frames)[i].generation = generation
    BY <1>1, <2>2, RestOfGeneration
  <2>. QED
    BY <1>6, <2>2, <2>3, <2>4 DEF OfGeneration
<1>12. Current'
  BY <1>11 DEF Current, TakeFrame, ownerVars
<1>13. ControlsPhase' /\ AcknowledgedIsEmpty'
  BY <1>10 DEF IInv, ControlsPhase, AcknowledgedIsEmpty, TakeFrame, ownerVars, NextFrame
<1>. QED
  BY <1>8, <1>9, <1>12, <1>13 DEF IInv

LEMMA EmitInv ==
  ASSUME IInv, Emit
  PROVE  IInv'
<1>1. /\ emitting \in Seq(Events) /\ emitting # <<>>
      /\ Head(emitting) \in Events /\ Tail(emitting) \in Seq(Events)
  <2>1. emitting \in Seq(Events) /\ emitting # <<>>
    BY DEF IInv, TypeOK, EmittingPhase, Emit
  <2>. QED
    BY <2>1, QueueRest
<1>2. TypeOK'
  <2>1. events' \in Seq(Events) /\ Len(events') <= EventCapacity
    BY <1>1, CapacityAssumption DEF IInv, TypeOK, Emit
  <2>. QED
    BY <1>1, <2>1 DEF IInv, TypeOK, Emit, ownerVars
<1>3. EmittingPhase' /\ ControlsPhase'
  BY DEF IInv, EmittingPhase, ControlsPhase, Emit, ownerVars
<1>4. ~Acknowledged /\ Acknowledged' = Acknowledged
  BY DEF IInv, AcknowledgedIsEmpty, Acknowledged, Emit, ownerVars
<1>5. Current'
  <2>1. SUFFICES ASSUME owner \in {"loop", "resetting"}
                 PROVE  /\ OfGeneration(frames)' /\ OfGeneration(events)'
                        /\ OfGeneration(emitting)' /\ codec' = active'
    BY <1>4 DEF Current, Emit, ownerVars
  <2>2. /\ OfGeneration(frames) /\ OfGeneration(events) /\ OfGeneration(emitting)
        /\ codec = active
    BY <1>4, <2>1 DEF IInv, Current, Emit
  <2>3. /\ events \in Seq(Events) /\ events' = Append(events, Head(emitting))
        /\ emitting' = Tail(emitting)
        /\ UNCHANGED <<frames, codec, active, generation>>
    BY DEF IInv, TypeOK, Emit, ownerVars
  <2>4. OfGeneration(emitting)'
    BY <1>1, <2>2, <2>3, RestOfGeneration DEF OfGeneration
  <2>5. Head(emitting).generation = generation
    BY <1>1, <2>2, RestOfGeneration
  <2>6. OfGeneration(events)'
    BY <1>1, <2>2, <2>3, <2>5 DEF OfGeneration
  <2>. QED
    BY <2>2, <2>3, <2>4, <2>6 DEF OfGeneration
<1>. QED
  BY <1>2, <1>3, <1>4, <1>5 DEF IInv, AcknowledgedIsEmpty

LEMMA ThreadInv ==
  ASSUME IInv, ThreadWorks \/ BackendFails
  PROVE  IInv'
<1>1. CASE ApplyReset
  BY <1>1, ApplyResetInv
<1>2. CASE ApplyShutdown \/ EmitClosed \/ BackendLost
  <2>1. Exit
    BY <1>2 DEF ApplyShutdown, EmitClosed, BackendLost
  <2>2. ~Acknowledged
    BY <1>2 DEF ApplyShutdown, EmitClosed, BackendLost, IInv, ControlsPhase,
       AcknowledgedIsEmpty, Acknowledged
  <2>. QED
    BY <2>1, <2>2, ExitInv
<1>3. CASE RefuseFrame
  <2>1. /\ <<"recovery">> \in [1 .. 1 -> {"frame", "recovery", "error"}]
        /\ TakeFrame(<<"recovery">>) /\ NextFrame /\ waiting' \in BOOLEAN
    BY <1>3 DEF RefuseFrame, IInv, TypeOK
  <2>. QED
    BY <2>1, TakeFrameInv
<1>4. CASE DecodeFrame
  <2>1. PICK n \in 0 .. PicturesPerFrame : TakeFrame([i \in 1 .. n |-> "frame"])
    BY <1>4 DEF DecodeFrame
  <2>2. /\ [i \in 1 .. n |-> "frame"] \in [1 .. n -> {"frame", "recovery", "error"}]
        /\ NextFrame /\ waiting' \in BOOLEAN
    BY <1>4 DEF DecodeFrame, IInv, TypeOK
  <2>3. n \in Nat
    BY LimitAssumption
  <2>. QED
    BY <2>1, <2>2, <2>3, TakeFrameInv
<1>5. CASE DecodeFails
  <2>1. NextFrame /\ waiting' \in BOOLEAN
    BY <1>5 DEF DecodeFails
  <2>2. CASE TakeFrame(<<"error", "recovery">>)
    <3>1. <<"error", "recovery">> \in [1 .. 2 -> {"frame", "recovery", "error"}]
      OBVIOUS
    <3>. QED
      BY <2>1, <2>2, <3>1, TakeFrameInv
  <2>3. CASE TakeFrame(<<"error">>)
    <3>1. <<"error">> \in [1 .. 1 -> {"frame", "recovery", "error"}]
      OBVIOUS
    <3>. QED
      BY <2>1, <2>3, <3>1, TakeFrameInv
  <2>. QED
    BY <1>5, <2>2, <2>3 DEF DecodeFails
<1>6. CASE Emit
  BY <1>6, EmitInv
<1>7. CASE BackendFails
  <2>1. /\ frames \in Seq(Frame) /\ frames # <<>> /\ Tail(frames) \in Seq(Frame)
        /\ Len(Tail(frames)) <= FrameCapacity
    BY <1>7, QueueRest, CapacityAssumption DEF BackendFails, NextFrame, IInv, TypeOK
  <2>2. TypeOK'
    BY <1>7, <2>1 DEF BackendFails, IInv, TypeOK, ownerVars
  <2>3. OfGeneration(frames) => OfGeneration(frames)'
    BY <1>7, <2>1 DEF OfGeneration, BackendFails, ownerVars
  <2>4. ~Acknowledged
    BY <2>1 DEF IInv, AcknowledgedIsEmpty
  <2>5. EmittingPhase' /\ ControlsPhase'
    BY <1>7 DEF BackendFails, NextFrame, IInv, EmittingPhase, ControlsPhase, ownerVars
  <2>6. OfGeneration(events)' = OfGeneration(events) /\ OfGeneration(emitting)' = OfGeneration(emitting)
    BY <1>7 DEF OfGeneration, BackendFails, ownerVars
  <2>7. AcknowledgedIsEmpty' /\ Current'
    BY <1>7, <2>3, <2>4, <2>6 DEF BackendFails, NextFrame, IInv, Acknowledged, AcknowledgedIsEmpty, Current, ownerVars
  <2>. QED
    BY <2>2, <2>5, <2>7 DEF IInv
<1>. QED
  BY <1>1, <1>2, <1>3, <1>4, <1>5, <1>6, <1>7 DEF ThreadWorks

-----------------------------------------------------------------------------
(* The stream task. *)

LEMMA SendFrameInv ==
  ASSUME IInv, NEW key \in BOOLEAN, SendFrame(key)
  PROVE  IInv'
<1>. DEFINE frame == [codec |-> active, key |-> key, generation |-> generation]
<1>1. frame \in Frame
  BY DEF IInv, TypeOK, Frame
<1>2. TypeOK'
  <2>1. asked' \in BOOLEAN
    <3>1. (asked /\ ~key) \in BOOLEAN /\ (asked \/ key) \in BOOLEAN
      BY Zenon
    <3>2. asked' = (asked /\ ~key) \/ asked' = (asked \/ key)
      BY Zenon DEF SendFrame
    <3>. QED
      BY <3>1, <3>2, Zenon
  <2>2. frames' \in Seq(Frame) /\ Len(frames') <= FrameCapacity
    <3>1. \/ Len(frames) < FrameCapacity /\ frames' = Append(frames, frame)
          \/ frames' = frames
      BY Zenon DEF SendFrame
    <3>2. frames \in Seq(Frame) /\ Len(frames) <= FrameCapacity
      BY DEF IInv, TypeOK
    <3>. HIDE DEF frame
    <3>. QED
      BY <1>1, <3>1, <3>2, CapacityAssumption
  <2>. QED
    BY <2>1, <2>2 DEF IInv, TypeOK, SendFrame, threadVars
<1>3. OfGeneration(frames) => OfGeneration(frames)'
  <2>1. SUFFICES ASSUME OfGeneration(frames), NEW i \in DOMAIN frames'
                 PROVE  frames'[i].generation = generation
    BY DEF OfGeneration, SendFrame
  <2>2. frames \in Seq(Frame) /\ (frames' = frames \/ frames' = Append(frames, frame))
    BY DEF IInv, TypeOK, SendFrame
  <2>3. frame.generation = generation
    OBVIOUS
  <2>. HIDE DEF frame
  <2>. QED
    BY <1>1, <2>1, <2>2, <2>3 DEF OfGeneration
<1>4. EmittingPhase' /\ ControlsPhase' /\ AcknowledgedIsEmpty'
  BY DEF IInv, SendFrame, EmittingPhase, ControlsPhase, AcknowledgedIsEmpty, Acknowledged, threadVars
<1>5. OfGeneration(events)' = OfGeneration(events) /\ OfGeneration(emitting)' = OfGeneration(emitting)
  BY DEF SendFrame, OfGeneration, threadVars
<1>6. Current'
  BY <1>3, <1>5 DEF IInv, SendFrame, Current, Acknowledged, threadVars
<1>. QED
  BY <1>2, <1>4, <1>6 DEF IInv

LEMMA ReceiveEventInv ==
  ASSUME IInv, ReceiveEvent
  PROVE  IInv'
<1>1. /\ events \in Seq(Events) /\ events # <<>> /\ Head(events) \in Events
      /\ Tail(events) \in Seq(Events) /\ Len(Tail(events)) <= EventCapacity
  BY QueueRest, CapacityAssumption DEF IInv, TypeOK, ReceiveEvent
<1>2. TypeOK'
  <2>1. asked' \in BOOLEAN
    BY Zenon DEF ReceiveEvent
  <2>. QED
    BY <1>1, <2>1 DEF IInv, TypeOK, ReceiveEvent, threadVars
<1>3. OfGeneration(events) => OfGeneration(events)'
  <2>1. SUFFICES ASSUME OfGeneration(events)
                 PROVE  \A i \in DOMAIN Tail(events) : Tail(events)[i].generation = generation
    BY DEF OfGeneration, ReceiveEvent
  <2>. QED
    BY <1>1, <2>1, RestOfGeneration
<1>4. EmittingPhase' /\ ControlsPhase' /\ AcknowledgedIsEmpty'
  BY DEF IInv, ReceiveEvent, EmittingPhase, ControlsPhase, AcknowledgedIsEmpty, Acknowledged, threadVars
<1>5. OfGeneration(frames)' = OfGeneration(frames) /\ OfGeneration(emitting)' = OfGeneration(emitting)
  BY DEF ReceiveEvent, OfGeneration, threadVars
<1>6. Current'
  BY <1>3, <1>5 DEF IInv, ReceiveEvent, Current, Acknowledged, threadVars
<1>. QED
  BY <1>2, <1>4, <1>6 DEF IInv

LEMMA BeginResetInv ==
  ASSUME IInv, NEW c \in Codecs, BeginReset(c)
  PROVE  IInv'
<1>1. controls' = <<Reset(c)>>
  BY DEF IInv, ControlsPhase, BeginReset
<1>2. Reset(c) \in Control
  BY DEF Reset, Control
<1>3. TypeOK'
  BY <1>1, <1>2 DEF IInv, TypeOK, BeginReset, threadVars
<1>. QED
  BY <1>1, <1>3 DEF IInv, BeginReset, EmittingPhase, ControlsPhase, AcknowledgedIsEmpty,
     Acknowledged, Current, OfGeneration, threadVars

LEMMA EndResetInv ==
  ASSUME IInv, EndReset
  PROVE  IInv'
<1>1. generation + 1 \in Generations
  BY LimitAssumption DEF IInv, TypeOK, ControlsPhase, EndReset, Generations
<1>2. TypeOK'
  <2>1. events' \in Seq(Events) /\ Len(events') <= EventCapacity
    <3>1. CASE ack = "ok"
      BY <3>1, CapacityAssumption DEF EndReset
    <3>2. CASE ack # "ok"
      BY <3>2 DEF EndReset, IInv, TypeOK
    <3>. QED
      BY <3>1, <3>2
  <2>2. generation' \in Generations /\ active' \in Codecs
    BY <1>1 DEF IInv, TypeOK, EndReset
  <2>. QED
    BY <2>1, <2>2 DEF IInv, TypeOK, EndReset, threadVars
<1>3. CASE ack = "ok"
  <2>1. frames = <<>> /\ emitting = <<>>
    BY <1>3 DEF IInv, EndReset, AcknowledgedIsEmpty, Acknowledged, EmittingPhase
  <2>. QED
    BY <1>2, <1>3, <2>1 DEF IInv, EndReset, EmittingPhase, ControlsPhase, AcknowledgedIsEmpty,
       Acknowledged, Current, OfGeneration, threadVars
<1>4. CASE ack # "ok"
  BY <1>2, <1>4 DEF IInv, EndReset, EmittingPhase, ControlsPhase, AcknowledgedIsEmpty,
     Acknowledged, Current, OfGeneration, threadVars
<1>. QED
  BY <1>3, <1>4

LEMMA DropInv ==
  ASSUME IInv, BeginDrop \/ Join
  PROVE  IInv'
<1>1. TypeOK'
  <2>1. Append(controls, Stop) \in Seq(Control)
    BY DEF IInv, TypeOK, Control
  <2>. QED
    BY <2>1 DEF IInv, TypeOK, BeginDrop, Join, queueVars, threadVars
<1>. QED
  BY <1>1 DEF IInv, BeginDrop, Join, EmittingPhase, ControlsPhase, AcknowledgedIsEmpty,
     Acknowledged, Current, queueVars, threadVars

-----------------------------------------------------------------------------

LEMMA Invariance == Spec => []IInv
<1>1. Init => IInv
  <2>. SUFFICES ASSUME Init
                PROVE  IInv
    OBVIOUS
  <2>1. TypeOK
    <3>1. frames \in Seq(Frame) /\ controls \in Seq(Control) /\ events \in Seq(Events)
          /\ emitting \in Seq(Events)
      BY DEF Init
    <3>2. Len(frames) = 0 /\ Len(events) = 0
      BY DEF Init
    <3>3. codec \in Codecs /\ active \in Codecs /\ generation \in Generations
      BY LimitAssumption DEF Init, Codecs, Generations
    <3>4. closed \in BOOLEAN /\ waiting \in BOOLEAN /\ asked \in BOOLEAN
      BY DEF Init
    <3>. QED
      BY <3>1, <3>2, <3>3, <3>4, CapacityAssumption DEF Init, TypeOK
  <2>. QED
    BY <2>1 DEF Init, IInv, EmittingPhase, ControlsPhase, AcknowledgedIsEmpty, Acknowledged,
       Current, OfGeneration
<1>2. IInv /\ [Next]_vars => IInv'
  <2>. SUFFICES ASSUME IInv, [Next]_vars
                PROVE  IInv'
    OBVIOUS
  <2>1. CASE ThreadWorks \/ BackendFails
    BY <2>1, ThreadInv
  <2>2. CASE FrameArrives
    BY <2>2, SendFrameInv DEF FrameArrives
  <2>3. CASE ReceiveEvent
    BY <2>3, ReceiveEventInv
  <2>4. ASSUME NEW c \in Codecs, BeginReset(c)
        PROVE  IInv'
    BY <2>4, BeginResetInv
  <2>5. CASE EndReset
    BY <2>5, EndResetInv
  <2>6. CASE WorkerStopped \/ BeginDrop \/ Join
    BY <2>6, DropInv DEF WorkerStopped
  <2>7. CASE UNCHANGED vars
    BY <2>7 DEF vars, queueVars, threadVars, ownerVars, IInv, TypeOK, EmittingPhase,
       ControlsPhase, AcknowledgedIsEmpty, Acknowledged, Current, OfGeneration
  <2>. QED
    BY <2>1, <2>2, <2>3, <2>4, <2>5, <2>6, <2>7 DEF Next, OwnerWorks
<1>. QED
  BY <1>1, <1>2, PTL DEF Spec

\* The worker, its queues and their owner stay well typed: no queue grows
\* beyond its capacity (DecodeWorker::spawn).
THEOREM TypeCorrect == Spec => []TypeOK
<1>1. IInv => TypeOK
  BY DEF IInv
<1>. QED
  BY <1>1, Invariance, PTL

\* Once a reset has succeeded, no event of an older frame reaches the task and
\* the thread holds none (DecodeWorker::reset, drain_events).
THEOREM NothingStaleIsSeen == Spec => []NothingStale
<1>1. IInv => NothingStale
  BY DEF IInv, NothingStale, Current, Acknowledged, OfGeneration
<1>. QED
  BY <1>1, Invariance, PTL

\* The thread decodes with the codec of the active profile whenever the task
\* is not resetting it, also after resets that failed (apply_control).
THEOREM CodecAlwaysFollows == Spec => []CodecFollowsActive
<1>1. IInv => CodecFollowsActive
  BY DEF IInv, CodecFollowsActive, Current, Acknowledged
<1>. QED
  BY <1>1, Invariance, PTL
=============================================================================
