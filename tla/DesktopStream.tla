---------------------------- MODULE DesktopStream ----------------------------
(***************************************************************************)
(* The desktop's stream task (stream_connection in pipeline.rs): one loop  *)
(* that selects between shutdown, the connection state, a deadline tick,   *)
(* commands of the user interface, decoder events and messages of the      *)
(* phone.  One action per branch and outcome.                              *)
(*                                                                         *)
(* The clock is left out: the deadline of a pending request may pass at any*)
(* time.  The decoder is the set of kinds of frames it holds, queued or    *)
(* decoded; DecodeWorker's own protocol is another module's business.      *)
(* A branch that has to wait for room in the queue to the phone keeps the  *)
(* task from every other branch: dSending is the message it waits with.    *)
(***************************************************************************)
EXTENDS Link

CONSTANT Local   \* profiles the decoder and the output device qualified
ASSUME LocalAssumption == Local \subseteq StreamProfile

VARIABLES dPhase,      \* "streaming" while stream_connection runs
          dActive,     \* the active profile
          dPeer,       \* profiles the phone offers
          dOut,        \* the profile committed to the output device
          dDecoding,   \* kinds of the frames inside the decoder
          dPending,    \* the request waiting for its result
          dCounter,    \* the last request id given out
          dKeyAsked,   \* keyframe_request_in_flight
          dSending,    \* the message whose send is awaited
          cmd,         \* the command in the pipeline's command channel
          call         \* what configure_stream's caller knows

streamVars == <<dActive, dPeer, dOut>>
dVars == <<dPhase, dActive, dPeer, dOut, dDecoding, dPending, dCounter,
           dKeyAsked, dSending, cmd, call>>

NoMessage == [type |-> "none"]

NoPending == [kind |-> "none"]
PendingConfiguration ==
  [kind : {"configure", "compensation"}, id : RequestIds,
   requested : StreamProfile, prior : StreamProfile, reply : BOOLEAN]

NoCommand == [preference |-> "none"]
PipelineCommand == [mode : Modes, preference : Preferences]

\* configure_stream is serialised by configure_lock: one call at a time.
Call == [status : {"idle", "waiting", "ok", "err"},
         profile : StreamProfile \cup {NoProfile}]
Idle == [status |-> "idle", profile |-> NoProfile]
Waiting == [status |-> "waiting", profile |-> NoProfile]
Ok(p) == [status |-> "ok", profile |-> p]
Err == [status |-> "err", profile |-> NoProfile]

DesktopTypeOK ==
  /\ dPhase \in {"streaming", "ended"}
  /\ dActive \in StreamProfile
  /\ dPeer \subseteq StreamProfile
  /\ dOut \in StreamProfile
  /\ dDecoding \subseteq FrameKind
  /\ dPending \in PendingConfiguration \cup {NoPending}
  /\ dCounter \in RequestIds \cup {0}
  /\ dKeyAsked \in BOOLEAN
  /\ dSending \in DesktopMessage \cup {NoMessage}
  /\ cmd \in PipelineCommand \cup {NoCommand}
  /\ call \in Call

Streaming == dPhase = "streaming"
Selecting == Streaming /\ dSending = NoMessage
Common == CommonProfiles(Local, dPeer)

-----------------------------------------------------------------------------
(* The end of the task: its connection, decoder, pending request and the   *)
(* command channel are dropped, so a waiting caller gets an error.         *)
\* Mutant: the reply of a pending request is leaked instead of dropped.
EndStreamUnanswered ==
  /\ dPhase' = "ended"
  /\ link' = "down"
  /\ p2d' = <<>>
  /\ d2p' \in Remains(d2p)
  /\ dPending' = NoPending
  /\ cmd' = NoCommand
  /\ dDecoding' = {}
  /\ dPeer' = {} /\ dCounter' = 0 /\ dKeyAsked' = FALSE
  /\ dSending' = NoMessage
  /\ UNCHANGED <<dActive, dOut, call>>

EndStream ==
  /\ dPhase' = "ended"
  /\ link' = "down"
  /\ p2d' = <<>>
  /\ d2p' \in Remains(d2p)
  /\ dPending' = NoPending
  /\ cmd' = NoCommand
  /\ call' = IF call.status = "waiting" THEN Err ELSE call
  /\ dDecoding' = {}
  /\ dPeer' = {} /\ dCounter' = 0 /\ dKeyAsked' = FALSE
  /\ dSending' = NoMessage
  /\ UNCHANGED <<dActive, dOut>>

\* Mutant: a new stream starts at the profile of the last one.
BeginStreamStale(offered, active) ==
  /\ dPhase' = "streaming"
  /\ dPeer' = offered
  /\ dDecoding' = {}
  /\ dPending' = NoPending
  /\ dCounter' = 0
  /\ dKeyAsked' = FALSE
  /\ dSending' = NoMessage
  /\ cmd' = NoCommand
  /\ call' = Idle
  /\ UNCHANGED <<dActive, dOut>>

\* The prologue of stream_connection once a phone has been accepted with
\* the profiles `offered` and the active profile `active`.
BeginStream(offered, active) ==
  /\ dPhase' = "streaming"
  /\ dActive' = active
  /\ dOut' = active
  /\ dPeer' = offered
  /\ dDecoding' = {}
  /\ dPending' = NoPending
  /\ dCounter' = 0
  /\ dKeyAsked' = FALSE
  /\ dSending' = NoMessage
  /\ cmd' = NoCommand
  /\ call' = Idle

\* The stop button, or the runtime going away.
Shutdown == Selecting /\ EndStream

\* ConnectionState::Disconnected or the end of the inbound channel is seen,
\* or a send finds the connection closed.
SeeDisconnect == Streaming /\ link = "down" /\ EndStream

-----------------------------------------------------------------------------
(* Sending: the message goes into the queue, or the task waits for room.   *)

Post(message) ==
  IF DesktopCanSend
  THEN d2p' = Append(d2p, message) /\ UNCHANGED dSending
  ELSE dSending' = message /\ UNCHANGED d2p

FinishSend ==
  /\ Streaming /\ dSending # NoMessage
  /\ DesktopCanSend
  /\ d2p' = Append(d2p, dSending)
  /\ dSending' = NoMessage
  /\ UNCHANGED <<link, p2d, dPhase, streamVars, dDecoding, dPending, dCounter,
                 dKeyAsked, cmd, call>>

-----------------------------------------------------------------------------
(* The tick: the pending request has passed its deadline. *)
\* Mutant: the deadline clears the request and forgets its caller.
ExpireSilently ==
  /\ Selecting
  /\ dPending.kind = "configure"
  /\ dPending' = NoPending
  /\ UNCHANGED <<linkVars, dPhase, streamVars, dDecoding, dCounter, dKeyAsked, dSending,
                 cmd, call>>

Expire ==
  /\ Selecting
  /\ dPending.kind = "configure"
  /\ dPending' = NoPending
  /\ call' = IF dPending.reply THEN Err ELSE call
  /\ UNCHANGED <<linkVars, dPhase, streamVars, dDecoding, dCounter, dKeyAsked, dSending, cmd>>

ExpireCompensation ==
  /\ Selecting
  /\ dPending.kind = "compensation"
  /\ EndStream

-----------------------------------------------------------------------------
(* Commands of the user interface.  None is given once the ids of the      *)
(* connection, RequestLimit, are used up.                                  *)

UiConfigure(mode, preference) ==
  /\ Streaming
  /\ dCounter < RequestLimit
  /\ call.status # "waiting"
  /\ cmd' = [mode |-> mode, preference |-> preference]
  /\ call' = Waiting
  /\ UNCHANGED <<linkVars, dPhase, streamVars, dDecoding, dPending, dCounter, dKeyAsked, dSending>>

\* switch_camera of the manager sends on the connection by itself.
UiSwitchCamera ==
  /\ Streaming
  /\ DesktopCanSend
  /\ d2p' = Append(d2p, SwitchCamera)
  /\ UNCHANGED <<link, p2d, dVars>>

CommandReady == Selecting /\ dPending = NoPending /\ cmd # NoCommand
Requested == ResolveProfile(Common, cmd.mode, cmd.preference)

RejectCommand ==
  /\ cmd' = NoCommand
  /\ call' = Err
  /\ UNCHANGED <<linkVars, dPhase, streamVars, dDecoding, dPending, dCounter, dKeyAsked, dSending>>

\* No codec of the preference has the mode in common with the phone.
CommandUnsupported == CommandReady /\ Requested = NoProfile /\ RejectCommand

\* The output device refuses the profile in preflight, though it once
\* qualified it.
CommandPreflightFails == CommandReady /\ Requested # NoProfile /\ RejectCommand

CommandAlreadyActive ==
  /\ CommandReady
  /\ Requested = dActive
  /\ cmd' = NoCommand
  /\ call' = Ok(dActive)
  /\ UNCHANGED <<linkVars, dPhase, streamVars, dDecoding, dPending, dCounter, dKeyAsked, dSending>>

\* send_configuration with the next request id, and the request it leaves
\* pending.  No more than RequestLimit requests are made on a connection.
SendConfiguration(kind, requested, prior, reply) ==
  /\ dCounter < RequestLimit
  /\ dCounter' = NextRequestId(dCounter, RequestLimit)
  /\ Post(ConfigureStream(dCounter', requested))
  /\ dPending' = [kind |-> kind, id |-> dCounter', requested |-> requested,
                  prior |-> prior, reply |-> reply]

\* Mutant: a mode nobody supports is requested all the same.
CommandSentUnresolved ==
  /\ CommandReady
  /\ Requested # dActive
  /\ SendConfiguration("configure", Requested, dActive, TRUE)
  /\ cmd' = NoCommand
  /\ UNCHANGED <<link, p2d, dPhase, streamVars, dDecoding, dKeyAsked, call>>

CommandSent ==
  /\ CommandReady
  /\ Requested \notin {NoProfile, dActive}
  /\ SendConfiguration("configure", Requested, dActive, TRUE)
  /\ cmd' = NoCommand
  /\ UNCHANGED <<link, p2d, dPhase, streamVars, dDecoding, dKeyAsked, call>>


-----------------------------------------------------------------------------
(* Decoder events. *)

\* A decoded frame goes to the output; others of its kind may follow.
WriteFrame(kind) ==
  /\ Selecting
  /\ kind \in dDecoding
  /\ kind.size = SizeOf[dOut.mode]
  /\ dDecoding' \in {dDecoding, dDecoding \ {kind}}
  /\ UNCHANGED <<linkVars, dPhase, streamVars, dPending, dCounter, dKeyAsked, dSending, cmd, call>>

\* The output refuses a frame of another size, which ends the stream.
FrameRefused(kind) ==
  /\ Selecting
  /\ kind \in dDecoding
  /\ kind.size # SizeOf[dOut.mode]
  /\ EndStream

\* RecoveryRequired: ask for a keyframe unless one is on its way.
RecoveryRequired ==
  /\ Selecting
  /\ ~dKeyAsked
  /\ Post(RequestKeyframe)
  /\ dKeyAsked' = TRUE
  /\ UNCHANGED <<link, p2d, dPhase, streamVars, dDecoding, dPending, dCounter, cmd, call>>

\* The decoder thread died, or the output device failed.
DecoderOrOutputFails == Selecting /\ EndStream

-----------------------------------------------------------------------------
(* Messages of the phone. *)

Receiving(type) == Selecting /\ p2d # <<>> /\ Head(p2d).type = type
FrameValid == Head(p2d).kind = KindOf(dActive)

DropFrame ==
  /\ Receiving("frame")
  /\ ~FrameValid
  /\ p2d' = Tail(p2d)
  /\ UNCHANGED <<link, d2p, dVars>>

AcceptFrame ==
  /\ Receiving("frame")
  /\ FrameValid
  /\ p2d' = Tail(p2d)
  /\ dKeyAsked' = (dKeyAsked /\ ~Head(p2d).key)
  /\ dDecoding' = dDecoding \cup {Head(p2d).kind}
  /\ UNCHANGED <<link, d2p, dPhase, streamVars, dPending, dCounter, dSending, cmd, call>>

\* The decoder's queue is full.  A lost keyframe is asked for again, the
\* flag having just been cleared by its arrival.
FrameBacklog ==
  /\ Receiving("frame")
  /\ FrameValid
  /\ dDecoding # {}
  /\ p2d' = Tail(p2d)
  /\ \/ /\ Head(p2d).key
        /\ Post(RequestKeyframe)
        /\ dKeyAsked' = TRUE
     \/ /\ ~Head(p2d).key
        /\ UNCHANGED <<d2p, dSending, dKeyAsked>>
  /\ UNCHANGED <<link, dPhase, streamVars, dDecoding, dPending, dCounter, cmd, call>>

\* VideoCapabilitiesUpdate::validate against the active profile; an update
\* that leaves it out is ignored.
ReceiveCapabilities ==
  /\ Receiving("capabilities")
  /\ p2d' = Tail(p2d)
  /\ dPeer' = IF dActive \in Head(p2d).profiles THEN Head(p2d).profiles ELSE dPeer
  /\ UNCHANGED <<link, d2p, dPhase, dActive, dOut, dDecoding, dPending, dCounter,
                 dKeyAsked, dSending, cmd, call>>

-----------------------------------------------------------------------------
(* Configuration results.  OutputDevice::commit and DecodeWorker::reset    *)
(* may each fail; the profile becomes active when both succeed.            *)

Result == Head(p2d)

Unsolicited == Receiving("result") /\ Result.id = 0 /\ dPending = NoPending
AnswersPending(kind) ==
  Receiving("result") /\ dPending.kind = kind /\ Result.id = dPending.id

\* Mutant: the decoder is reset before the old frames are gone.
AdoptUndrained(profile) ==
  /\ dOut' = profile
  /\ dActive' = profile
  /\ UNCHANGED dDecoding

\* commit and reset succeed: the decoder is empty again.
Adopt(profile) ==
  /\ dOut' = profile
  /\ dActive' = profile
  /\ dDecoding' = {}

\* commit fails and leaves the output alone, or reset fails after it.
CommitFails(profile) == dOut' \in {dOut, profile} /\ UNCHANGED <<dActive, dDecoding>>

\* Mutant: the id is not compared, so a result that comes late still counts.
IgnoreResultNot ==
  /\ Receiving("result")
  /\ dPending = NoPending
  /\ Result.profile \in Common
  /\ Adopt(Result.profile)
  /\ p2d' = Tail(p2d)
  /\ UNCHANGED <<link, d2p, dPhase, dPeer, dPending, dCounter, dKeyAsked, dSending, cmd, call>>

\* An id that is not the pending one, or none is pending.
IgnoreResult ==
  /\ Receiving("result")
  /\ IF dPending = NoPending THEN Result.id # 0 ELSE Result.id # dPending.id
  /\ p2d' = Tail(p2d)
  /\ UNCHANGED <<link, d2p, dVars>>

UnsolicitedDropped ==
  /\ Unsolicited
  /\ Result.profile \notin Common
  /\ p2d' = Tail(p2d)
  /\ UNCHANGED <<link, d2p, dVars>>

UnsolicitedAdopted ==
  /\ Unsolicited
  /\ Result.profile \in Common
  /\ Adopt(Result.profile)
  /\ p2d' = Tail(p2d)
  /\ UNCHANGED <<link, d2p, dPhase, dPeer, dPending, dCounter, dKeyAsked, dSending, cmd, call>>

UnsolicitedCompensated ==
  /\ Unsolicited
  /\ Result.profile \in Common
  /\ CommitFails(Result.profile)
  /\ SendConfiguration("compensation", dActive, dActive, FALSE)
  /\ p2d' = Tail(p2d)
  /\ UNCHANGED <<link, dPhase, dPeer, dKeyAsked, cmd, call>>

Accepted == AcceptsAppliedProfile(Common, dPending.requested, Result.profile)

ConfigureApplied ==
  /\ AnswersPending("configure")
  /\ Accepted
  /\ Adopt(Result.profile)
  /\ dPending' = NoPending
  /\ call' = IF dPending.reply THEN Ok(Result.profile) ELSE call
  /\ p2d' = Tail(p2d)
  /\ UNCHANGED <<link, d2p, dPhase, dPeer, dCounter, dKeyAsked, dSending, cmd>>

\* Mutant: the phone is asked to go to the profile that failed.
CompensatedForward ==
  /\ AnswersPending("configure")
  /\ Accepted
  /\ CommitFails(Result.profile)
  /\ SendConfiguration("compensation", dPending.requested, dPending.requested, dPending.reply)
  /\ p2d' = Tail(p2d)
  /\ UNCHANGED <<link, dPhase, dPeer, dKeyAsked, cmd, call>>

\* The phone has already switched: ask it to go back.
ConfigureCompensated ==
  /\ AnswersPending("configure")
  /\ Accepted
  /\ CommitFails(Result.profile)
  /\ SendConfiguration("compensation", dPending.prior, dPending.prior, dPending.reply)
  /\ p2d' = Tail(p2d)
  /\ UNCHANGED <<link, dPhase, dPeer, dKeyAsked, cmd, call>>

ConfigureRejected ==
  /\ AnswersPending("configure")
  /\ ~Accepted
  /\ dPending' = NoPending
  /\ call' = IF dPending.reply THEN Err ELSE call
  /\ p2d' = Tail(p2d)
  /\ UNCHANGED <<link, d2p, dPhase, streamVars, dDecoding, dCounter, dKeyAsked, dSending, cmd>>

\* Mutant: the output device is not restored.
CompensationHalfApplied ==
  /\ AnswersPending("compensation")
  /\ Result.profile = dPending.prior
  /\ dActive' = dPending.prior /\ dDecoding' = {}
  /\ dPending' = NoPending
  /\ call' = IF dPending.reply THEN Err ELSE call
  /\ p2d' = Tail(p2d)
  /\ UNCHANGED <<link, d2p, dPhase, dPeer, dOut, dCounter, dKeyAsked, dSending, cmd>>

CompensationApplied ==
  /\ AnswersPending("compensation")
  /\ Result.profile = dPending.prior
  /\ Adopt(dPending.prior)
  /\ dPending' = NoPending
  /\ call' = IF dPending.reply THEN Err ELSE call
  /\ p2d' = Tail(p2d)
  /\ UNCHANGED <<link, d2p, dPhase, dPeer, dCounter, dKeyAsked, dSending, cmd>>

\* The phone refuses, or the output cannot be restored either.
CompensationFails == AnswersPending("compensation") /\ EndStream

-----------------------------------------------------------------------------

DesktopReceives ==
  \/ DropFrame \/ AcceptFrame \/ FrameBacklog
  \/ ReceiveCapabilities
  \/ IgnoreResult
  \/ ConfigureApplied \/ ConfigureCompensated \/ ConfigureRejected
  \/ CompensationApplied \/ CompensationFails
  \* Reports of changes made on the phone, which only iOS sends.
  \/ UnsolicitedDropped \/ UnsolicitedAdopted \/ UnsolicitedCompensated

DesktopCommands == CommandUnsupported \/ CommandAlreadyActive \/ CommandSent

DesktopDecodes ==
  \/ \E kind \in dDecoding : WriteFrame(kind) \/ FrameRefused(kind)
  \/ RecoveryRequired

\* The branches of the task's select loop.
DesktopWorks ==
  SeeDisconnect \/ ExpireCompensation \/ FinishSend
  \/ DesktopCommands \/ DesktopDecodes \/ DesktopReceives

\* What the user and the devices do to it.
DesktopDisturbed ==
  \/ Shutdown \/ DecoderOrOutputFails \/ UiSwitchCamera \/ CommandPreflightFails
  \/ \E mode \in Modes, preference \in Preferences : UiConfigure(mode, preference)
=============================================================================
