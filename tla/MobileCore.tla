----------------------------- MODULE MobileCore -----------------------------
(***************************************************************************)
(* The transport client behind the phone's FFI (phonecam-mobile-core): one *)
(* slot, locked by every call, holding a connection, the profiles it has   *)
(* announced and the configuration request it has handed out.              *)
(***************************************************************************)
EXTENDS Link

CONSTANT PeerProfiles   \* the profiles of the desktop's handshake
ASSUME PeerAssumption == PeerProfiles \subseteq StreamProfile

VARIABLES mcOpen,        \* the slot holds a client
          mcActive,      \* its active_profile
          mcSupported,   \* its supported_profiles
          mcPending      \* its pending_configuration

mcVars == <<mcOpen, mcActive, mcSupported, mcPending>>

NoRequest == [id |-> 0]
Request == [id : RequestIds, profile : StreamProfile]

MobileTypeOK ==
  /\ mcOpen \in BOOLEAN
  /\ mcActive \in StreamProfile
  /\ mcSupported \subseteq StreamProfile
  /\ mcPending \in Request \cup {NoRequest}

-----------------------------------------------------------------------------

\* phonecam_transport_init: a fresh client, nothing pending.
OpenClient(supported, active) ==
  /\ mcOpen' = TRUE
  /\ mcActive' = active
  /\ mcSupported' = supported
  /\ mcPending' = NoRequest

\* phonecam_transport_shutdown, which drops the connection with the client.
CloseClient ==
  /\ mcOpen' = FALSE
  /\ mcPending' = NoRequest
  /\ link' = "down"
  /\ d2p' = <<>>
  /\ p2d' \in Remains(p2d)
  /\ mcSupported' = {}
  /\ UNCHANGED mcActive

\* phonecam_poll_control_command_json hands out nothing, not even the loss
\* of the connection, while a request is pending.
CanPoll == mcOpen /\ mcPending = NoRequest

NextControl(type) == CanPoll /\ d2p # <<>> /\ Head(d2p).type = type

\* Mutant: the request that is handed out is not remembered.
PollControlForgetful ==
  /\ d2p' = Tail(d2p)
  /\ UNCHANGED <<link, p2d, mcVars>>

PollControl ==
  /\ d2p' = Tail(d2p)
  /\ mcPending' = IF Head(d2p).type = "configure"
                  THEN [id |-> Head(d2p).id, profile |-> Head(d2p).profile]
                  ELSE mcPending
  /\ UNCHANGED <<link, p2d, mcOpen, mcActive, mcSupported>>

PollDisconnected ==
  /\ CanPoll
  /\ d2p = <<>>
  /\ link = "down"
  /\ CloseClient

-----------------------------------------------------------------------------
\* Mutant: a frame is not compared with the client's profile.
SendAnyFrame(kind, keyframe) ==
  /\ mcOpen
  /\ PhoneCanEnqueue
  /\ p2d' = Append(p2d, VideoFrame(kind, keyframe))
  /\ UNCHANGED <<link, d2p, mcVars>>

\* phonecam_send_video_frame: only frames of the client's active profile.
SendVideoFrame(kind, keyframe) ==
  /\ mcOpen
  /\ kind = KindOf(mcActive)
  /\ PhoneCanEnqueue
  /\ p2d' = Append(p2d, VideoFrame(kind, keyframe))
  /\ UNCHANGED <<link, d2p, mcVars>>

\* phonecam_update_video_capabilities commits what it could enqueue.
UpdateCapabilities(profiles) ==
  IF mcOpen /\ mcActive \in profiles /\ PhoneCanEnqueue
  THEN /\ p2d' = Append(p2d, CapabilitiesUpdate(profiles))
       /\ mcSupported' = profiles
       /\ UNCHANGED <<link, d2p, mcOpen, mcActive, mcPending>>
  ELSE UNCHANGED <<linkVars, mcVars>>

\* phonecam_report_stream_configuration, for a profile that was applied or
\* NoProfile: whether it returns true, and what it then changes.
ReportAccepted(id, applied) ==
  /\ mcOpen
  /\ id # 0 => id = mcPending.id
  /\ applied # NoProfile => applied \in mcSupported \cap PeerProfiles
  /\ PhoneCanEnqueue

\* Mutants: the applied profile does not become the client's; the request
\* stays pending after its answer.
ReportNotCommitted(id, applied) ==
  IF ReportAccepted(id, applied)
  THEN /\ p2d' = Append(p2d, ConfigurationResult(id, applied))
       /\ mcPending' = IF id = 0 THEN mcPending ELSE NoRequest
       /\ UNCHANGED <<link, d2p, mcOpen, mcActive, mcSupported>>
  ELSE UNCHANGED <<linkVars, mcVars>>

ReportKeepsPending(id, applied) ==
  IF ReportAccepted(id, applied)
  THEN /\ p2d' = Append(p2d, ConfigurationResult(id, applied))
       /\ mcActive' = IF applied = NoProfile THEN mcActive ELSE applied
       /\ UNCHANGED <<link, d2p, mcOpen, mcSupported, mcPending>>
  ELSE UNCHANGED <<linkVars, mcVars>>

ReportConfiguration(id, applied) ==
  IF ReportAccepted(id, applied)
  THEN /\ p2d' = Append(p2d, ConfigurationResult(id, applied))
       /\ mcActive' = IF applied = NoProfile THEN mcActive ELSE applied
       /\ mcPending' = IF id = 0 THEN mcPending ELSE NoRequest
       /\ UNCHANGED <<link, d2p, mcOpen, mcSupported>>
  ELSE UNCHANGED <<linkVars, mcVars>>
=============================================================================
