---------------------------- MODULE DecodeWorker ----------------------------
(***************************************************************************)
(* The decoder thread of the desktop (decode.rs) and the stream task that  *)
(* owns it (pipeline.rs): three bounded queues, frames and controls to the *)
(* thread and events back, a reset that waits for an acknowledgement, and  *)
(* a drop that joins the thread.                                           *)
(*                                                                         *)
(* Pictures are left out: a frame is a codec, a keyframe flag and its      *)
(* generation, the number of resets that had succeeded when it was sent.   *)
(* The generation is history only; an event carries the one of its frame.  *)
(***************************************************************************)
EXTENDS Naturals, Sequences

CONSTANTS FrameCapacity, EventCapacity,
          PicturesPerFrame,   \* most pictures one frame decodes to
          ResetLimit          \* bound on the successful resets

ASSUME CapacityAssumption == FrameCapacity \in Nat \ {0} /\ EventCapacity \in Nat \ {0}
ASSUME LimitAssumption == PicturesPerFrame \in Nat \ {0} /\ ResetLimit \in Nat \ {0}

VARIABLES frames,     \* the frame queue
          controls,   \* the control queue
          events,     \* the event queue
          closed,     \* the owner has closed the event queue
          ack,        \* what was sent on the oneshot of the last reset
          pc,         \* the thread: "ready", "emitting", "failing" or "exited"
          emitting,   \* events it still has to send
          codec,      \* its codec
          waiting,    \* waiting_for_idr
          owner,      \* the stream task: "loop", "resetting", "dropping" or "gone"
          active,     \* codec of the profile that is active for the task
          asked,      \* keyframe_request_in_flight
          generation  \* history: resets that succeeded

queueVars == <<frames, controls, events, closed, ack>>
threadVars == <<pc, emitting, codec, waiting>>
ownerVars == <<owner, active, asked, generation>>
vars == <<queueVars, threadVars, ownerVars>>

Codecs == {"h264", "hevc"}
Generations == 0 .. ResetLimit
Frame == [codec : Codecs, key : BOOLEAN, generation : Generations]
Event(kind, g) == [kind |-> kind, generation |-> g]
Events == [kind : {"frame", "recovery", "error"}, generation : Generations]
Reset(c) == [kind |-> "reset", codec |-> c]
Stop == [kind |-> "shutdown"]
Control == [kind : {"reset"}, codec : Codecs] \cup {Stop}

TypeOK ==
  /\ frames \in Seq(Frame) /\ Len(frames) <= FrameCapacity
  /\ controls \in Seq(Control)
  /\ events \in Seq(Events) /\ Len(events) <= EventCapacity
  /\ closed \in BOOLEAN
  /\ ack \in {"none", "ok", "failed", "dropped"}
  /\ pc \in {"ready", "emitting", "failing", "exited"}
  /\ emitting \in Seq(Events)
  /\ codec \in Codecs /\ waiting \in BOOLEAN
  /\ owner \in {"loop", "resetting", "dropping", "gone"}
  /\ active \in Codecs /\ asked \in BOOLEAN /\ generation \in Generations

\* The worker has just been started for a phone's first profile.
Init ==
  /\ frames = <<>> /\ controls = <<>> /\ events = <<>>
  /\ closed = FALSE /\ ack = "none"
  /\ pc = "ready" /\ emitting = <<>>
  /\ codec = "h264" /\ waiting = TRUE
  /\ owner = "loop" /\ active = "h264" /\ asked = FALSE
  /\ generation = 0

-----------------------------------------------------------------------------
(* The decoder thread.  Controls come first; a thread that is sending an   *)
(* event looks at nothing else until there is room or the queue is closed. *)
\* Mutant: the acknowledgement of a queued reset outlives the thread.
ExitUnacknowledged ==
  /\ pc' = "exited"
  /\ emitting' = <<>> /\ frames' = <<>> /\ controls' = <<>>
  /\ UNCHANGED <<events, closed, ack, codec, waiting, ownerVars>>

\* Leaving the thread drops its ends of the queues, with the oneshot of a
\* reset that is still queued.
Exit ==
  /\ pc' = "exited"
  /\ emitting' = <<>> /\ frames' = <<>> /\ controls' = <<>>
  /\ ack' = IF owner = "resetting" /\ ack = "none" THEN "dropped" ELSE ack
  /\ UNCHANGED <<events, closed, codec, waiting, ownerVars>>

\* Mutant: the codec is set before the backend is known to exist.
ApplyResetEagerly ==
  LET next == Head(controls).codec IN
  /\ pc = "ready" /\ controls # <<>> /\ Head(controls).kind = "reset"
  /\ controls' = Tail(controls)
  /\ frames' = <<>>
  /\ codec' = next /\ waiting' = TRUE
  /\ ack' \in IF next = "h264" THEN {"ok", "failed"} ELSE {"ok"}
  /\ UNCHANGED <<events, closed, pc, emitting, ownerVars>>

\* apply_control of a reset: drop the queued frames, make a new backend,
\* which only H.264 can fail, and acknowledge.
ApplyReset ==
  LET next == Head(controls).codec IN
  /\ pc = "ready" /\ controls # <<>> /\ Head(controls).kind = "reset"
  /\ controls' = Tail(controls)
  /\ frames' = <<>>
  /\ \/ codec' = next /\ waiting' = TRUE /\ ack' = "ok"
     \/ next = "h264" /\ ack' = "failed" /\ UNCHANGED <<codec, waiting>>
  /\ UNCHANGED <<events, closed, pc, emitting, ownerVars>>

ApplyShutdown ==
  /\ pc = "ready" /\ controls # <<>> /\ Head(controls) = Stop
  /\ Exit

NextFrame == pc = "ready" /\ controls = <<>> /\ frames # <<>>
Undecodable(f) == f.codec # codec \/ (waiting /\ ~f.key)

\* Take the next frame, and send these events for it.
TakeFrame(kinds) ==
  LET g == Head(frames).generation IN
  /\ frames' = Tail(frames)
  /\ emitting' = [i \in DOMAIN kinds |-> Event(kinds[i], g)]
  /\ pc' = IF kinds = <<>> THEN "ready" ELSE "emitting"
  /\ UNCHANGED <<controls, events, closed, ack, codec, ownerVars>>

\* Mutant: a frame that cannot be decoded is skipped without a word.
RefuseSilently ==
  /\ NextFrame /\ Undecodable(Head(frames))
  /\ TakeFrame(<<>>)
  /\ UNCHANGED waiting

RefuseFrame ==
  /\ NextFrame /\ Undecodable(Head(frames))
  /\ TakeFrame(<<"recovery">>)
  /\ UNCHANGED waiting

DecodeFrame ==
  /\ NextFrame /\ ~Undecodable(Head(frames))
  /\ \E n \in 0 .. PicturesPerFrame : TakeFrame([i \in 1 .. n |-> "frame"])
  /\ waiting' = (waiting /\ ~Head(frames).key)

\* An error asks for recovery; a panic of the backend only reports itself.
DecodeFails ==
  /\ NextFrame /\ ~Undecodable(Head(frames))
  /\ TakeFrame(<<"error", "recovery">>) \/ TakeFrame(<<"error">>)
  /\ waiting' = TRUE

\* A new H.264 backend cannot be made after a failure: the thread leaves
\* without a word, though a control may have come in meanwhile.
BackendFails ==
  /\ NextFrame /\ ~Undecodable(Head(frames)) /\ codec = "h264"
  /\ frames' = Tail(frames)
  /\ pc' = "failing"
  /\ waiting' = TRUE
  /\ UNCHANGED <<controls, events, closed, ack, emitting, codec, ownerVars>>

BackendLost == pc = "failing" /\ Exit

\* blocking_send
Emit ==
  /\ pc = "emitting" /\ ~closed
  /\ Len(events) < EventCapacity
  /\ events' = Append(events, Head(emitting))
  /\ emitting' = Tail(emitting)
  /\ pc' = IF Tail(emitting) = <<>> THEN "ready" ELSE "emitting"
  /\ UNCHANGED <<frames, controls, closed, ack, codec, waiting, ownerVars>>

EmitClosed ==
  /\ pc = "emitting" /\ closed
  /\ Exit

ThreadWorks ==
  \/ ApplyReset \/ ApplyShutdown
  \/ RefuseFrame \/ DecodeFrame \/ DecodeFails
  \/ Emit \/ EmitClosed \/ BackendLost

-----------------------------------------------------------------------------
(* The stream task. *)
\* Mutant: the queue is not bounded.
SendFrameUnbounded(key) ==
  /\ owner = "loop" /\ pc # "exited"
  /\ Len(frames) <= FrameCapacity
  /\ frames' = Append(frames, [codec |-> active, key |-> key, generation |-> generation])
  /\ asked' = (asked /\ ~key)
  /\ UNCHANGED <<controls, events, closed, ack, threadVars, owner, active, generation>>

\* A frame of the active profile arrives.  try_send drops it when the queue
\* is full or the thread is gone; a lost keyframe is asked for again.
SendFrame(key) ==
  /\ owner = "loop"
  /\ \/ /\ Len(frames) < FrameCapacity /\ pc # "exited"
        /\ frames' = Append(frames, [codec |-> active, key |-> key, generation |-> generation])
        /\ asked' = (asked /\ ~key)
     \/ /\ Len(frames) = FrameCapacity \/ pc = "exited"
        /\ asked' = (asked \/ key)
        /\ UNCHANGED frames
  /\ UNCHANGED <<controls, events, closed, ack, threadVars, owner, active, generation>>

\* An event is handled: a frame is written, recovery asks for a keyframe
\* unless one was asked for, an error is logged.
ReceiveEvent ==
  /\ owner = "loop" /\ events # <<>>
  /\ events' = Tail(events)
  /\ asked' = (asked \/ Head(events).kind = "recovery")
  /\ UNCHANGED <<frames, controls, closed, ack, threadVars, owner, active, generation>>

\* DecodeWorker::reset up to its await.
BeginReset(c) ==
  /\ owner = "loop" /\ pc # "exited"
  /\ generation < ResetLimit
  /\ owner' = "resetting"
  /\ ack' = "none"
  /\ controls' = Append(controls, Reset(c))
  /\ UNCHANGED <<frames, events, closed, threadVars, active, asked, generation>>

\* Mutant: events of the old stream are left in the queue.
EndResetUndrained ==
  /\ owner = "resetting" /\ ack # "none"
  /\ owner' = "loop"
  /\ IF ack = "ok"
     THEN generation' = generation + 1 /\ active' = codec
     ELSE UNCHANGED <<generation, active>>
  /\ UNCHANGED <<frames, controls, events, closed, ack, threadVars, asked>>

\* After the await: leftover events are drained and the profile of the reset
\* becomes active.  When it failed, they stay and so does the old profile.
EndReset ==
  /\ owner = "resetting" /\ ack # "none"
  /\ owner' = "loop"
  /\ IF ack = "ok"
     THEN events' = <<>> /\ generation' = generation + 1 /\ active' = codec
     ELSE UNCHANGED <<events, generation, active>>
  /\ UNCHANGED <<frames, controls, closed, ack, threadVars, asked>>

\* Mutant: the event queue stays open while the thread is joined.
BeginDropOpen ==
  /\ owner = "loop"
  /\ owner' = "dropping"
  /\ controls' = IF pc = "exited" THEN controls ELSE Append(controls, Stop)
  /\ UNCHANGED <<frames, events, closed, ack, threadVars, active, asked, generation>>

\* The stream ends for any reason, or because recv finds the thread gone:
\* Drop closes the event queue, sends Shutdown and joins the thread.
BeginDrop ==
  /\ owner = "loop"
  /\ owner' = "dropping"
  /\ closed' = TRUE
  /\ controls' = IF pc = "exited" THEN controls ELSE Append(controls, Stop)
  /\ UNCHANGED <<frames, events, ack, threadVars, active, asked, generation>>

WorkerStopped == pc = "exited" /\ events = <<>> /\ BeginDrop

Join ==
  /\ owner = "dropping" /\ pc = "exited"
  /\ owner' = "gone"
  /\ UNCHANGED <<queueVars, threadVars, active, asked, generation>>

FrameArrives == \E key \in BOOLEAN : SendFrame(key)

OwnerWorks == ReceiveEvent \/ EndReset \/ WorkerStopped \/ Join

Next ==
  \/ ThreadWorks \/ BackendFails
  \/ OwnerWorks \/ FrameArrives \/ BeginDrop
  \/ \E c \in Codecs : BeginReset(c)

Spec == Init /\ [][Next]_vars

\* The thread is scheduled, the task's select takes each branch that stays
\* ready, and the phone keeps sending frames.  Nothing is assumed of resets,
\* the end of the stream or the flags of the frames.
Fairness ==
  /\ WF_vars(ThreadWorks)
  /\ WF_vars(ReceiveEvent)
  /\ WF_vars(EndReset)
  /\ WF_vars(WorkerStopped)
  /\ WF_vars(Join)
  /\ WF_vars(FrameArrives)

FairSpec == Spec /\ Fairness

-----------------------------------------------------------------------------
(* What must hold. *)

\* Once a reset has succeeded, the task never again receives an event of a
\* frame it sent before, and the thread holds none.
NothingStale ==
  owner = "loop" =>
    /\ \A i \in DOMAIN frames : frames[i].generation = generation
    /\ \A i \in DOMAIN events : events[i].generation = generation
    /\ \A i \in DOMAIN emitting : emitting[i].generation = generation

\* The thread decodes with the codec of the active profile whenever the task
\* is not resetting it, also after resets that failed.
CodecFollowsActive == owner = "loop" /\ pc # "exited" => codec = active

\* A reset can only fail to return while the thread waits for room in an
\* event queue that its owner, waiting for the thread, does not read.
Deadlocked == owner = "resetting" /\ pc = "emitting" /\ Len(events) = EventCapacity
ResetReturnsOrDeadlocks == (owner = "resetting") ~> (owner # "resetting" \/ Deadlocked)

\* Dropping the worker always joins the thread, even one that is blocked on
\* a full event queue.
DropReturns == (owner = "dropping") ~> (owner = "gone")

\* A decoder that cannot go on without a keyframe makes the task ask for one,
\* unless one arrives by itself, also after a panic, which asks for nothing:
\* the frames that keep coming are refused one by one until somebody asks.
Starved == waiting /\ owner = "loop" /\ \A i \in DOMAIN frames : ~frames[i].key
RecoveryIsAsked == Starved ~> (~Starved \/ asked)

\* The test reset_drains_stale_frames_and_requires_new_idr: a reset with
\* stale frames in the worker drains them and returns.
ResetReturns == (owner = "resetting") ~> (owner # "resetting")
=============================================================================
