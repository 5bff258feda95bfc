------------------------------ MODULE IosStream ------------------------------
(***************************************************************************)
(* StreamManager.swift: timers, handlers and completions on the main queue.*)
(* A change of profile prepares an encoder, then waits for the camera to be*)
(* configured on a queue of its own; until that is done nothing is polled. *)
(* The user may change the profile on the phone as well, which is work with*)
(* id 0.  A handler is split where it calls the transport client: between  *)
(* two such calls only the client and the desktop move, never the manager. *)
(***************************************************************************)
EXTENDS PhoneApp

CONSTANTS Cameras,      \* what a camera and its encoders may turn out to offer
          ChoiceLimit   \* bound on the changes the user makes on the phone
ASSUME CamerasAssumption == Cameras \subseteq SUBSET StreamProfile
ASSUME ChoiceAssumption == ChoiceLimit \in Nat

VARIABLES iosConnected,   \* isConnected, as the status timer last saw it
          iosRestoring,   \* restoreCapture waits for the camera
          iosChoices      \* changes the user has made
iosVars == <<iosConnected, iosRestoring, iosChoices>>

IosTypeOK ==
  /\ iosConnected \in BOOLEAN
  /\ iosRestoring \in BOOLEAN
  /\ iosChoices \in 0 .. ChoiceLimit
  /\ appPc = "prepare" => appRequest # NoRequest
  /\ appPc = "configure" => appApplied # NoProfile

IosInit ==
  /\ iosConnected = FALSE
  /\ iosRestoring = FALSE
  /\ iosChoices = 0

-----------------------------------------------------------------------------
(* pollCameraControlCommand *)

\* handleRemoteStreamConfiguration and the first guard of applyProfile: the
\* work ends with a report at once, or goes on with an encoder.
BeginWork(id, wanted) ==
  /\ appRequest' = [id |-> id, profile |-> wanted]
  /\ \/ /\ wanted \notin appAvail
        /\ appPc' = "report" /\ appApplied' = NoProfile
     \/ /\ wanted \in appAvail
        /\ IF id # 0 /\ wanted = appActive
           THEN appPc' = "report" /\ appApplied' = wanted
           ELSE appPc' = "prepare" /\ appApplied' = NoProfile
  /\ UNCHANGED <<appLeft, appActive, appAvail, appStarted, appEncoding>>

HandleConfigure ==
  /\ PollerReady
  /\ NextControl("configure")
  /\ PollControl
  /\ BeginWork(Head(d2p).id, Head(d2p).profile)
  /\ UNCHANGED iosVars

HandleKeyframeRequest ==
  /\ PollerReady
  /\ NextControl("keyframe")
  /\ PollControl
  /\ UNCHANGED <<appVars, iosVars>>

\* handleRemoteCameraSwitch until it waits for the camera.
HandleSwitchCamera ==
  /\ PollerReady
  /\ NextControl("switch")
  /\ PollControl
  /\ appPc' = "switch"
  /\ UNCHANGED <<appRequest, appLeft, appApplied, appActive, appAvail, appStarted,
                 appEncoding, iosVars>>

HandleDisconnect ==
  /\ PollerReady
  /\ PollDisconnected
  /\ UNCHANGED <<appVars, iosVars>>

\* The completion of the switch, whether it succeeded or not: the profiles
\* are discovered anew.  A camera that cannot run the mode was not switched to.
SwitchCompletes ==
  /\ appPc = "switch" /\ ~iosRestoring
  /\ \E found \in Cameras :
       /\ \E p \in found : p.mode = appActive.mode
       /\ appAvail' = found
       /\ UpdateCapabilities(found)
  /\ appPc' = "idle"
  /\ UNCHANGED <<appRequest, appLeft, appApplied, appActive, appStarted, appEncoding, iosVars>>

-----------------------------------------------------------------------------
(* applyProfile once the profile is known to be on offer *)

\* Withdraw the profile that was asked for, with the report still to come.
Withdraw ==
  /\ appAvail' = appAvail \ {appRequest.profile}
  /\ UpdateCapabilities(appAvail \ {appRequest.profile})
  /\ appApplied' = NoProfile
  /\ appPc' = "report"
  /\ UNCHANGED <<appRequest, appLeft, appActive, appStarted, appEncoding>>

\* An encoder for the profile or its twin is ready: the camera is next.
PrepareSucceeds ==
  /\ appPc = "prepare"
  /\ LET candidates == ConfigurationCandidates(appRequest.profile, appAvail)
     IN  \E i \in DOMAIN candidates : appApplied' = candidates[i]
  /\ appPc' = "configure"
  /\ UNCHANGED <<linkVars, mcVars, appRequest, appLeft, appActive, appAvail, appStarted,
                 appEncoding, iosVars>>

PrepareFails == appPc = "prepare" /\ Withdraw /\ UNCHANGED iosVars

\* The completion of requestAccessAndConfigure.  Completions come in the order
\* of the camera's queue, so that of an earlier restoreCapture is first.
ApplySucceeds ==
  /\ appPc = "configure" /\ ~iosRestoring
  /\ appActive' = appApplied
  /\ appPc' = "report"
  /\ UNCHANGED <<linkVars, mcVars, appRequest, appLeft, appApplied, appAvail, appStarted,
                 appEncoding, iosVars>>

\* Mutant: the desktop is told although the camera failed.
ApplyFailsUnnoticed ==
  /\ appPc = "configure" /\ ~iosRestoring
  /\ appPc' = "report"
  /\ iosRestoring' = TRUE
  /\ UNCHANGED <<linkVars, mcVars, appRequest, appLeft, appApplied, appActive, appAvail,
                 appStarted, appEncoding, iosConnected, iosChoices>>

ApplyFails ==
  /\ appPc = "configure" /\ ~iosRestoring
  /\ Withdraw
  /\ iosRestoring' = TRUE
  /\ UNCHANGED <<iosConnected, iosChoices>>

\* reportConfiguration: nothing is said while the phone takes itself for
\* disconnected.
Tell(id, applied) ==
  IF iosConnected THEN ReportConfiguration(id, applied) ELSE UNCHANGED <<linkVars, mcVars>>

IosReport == ReportDone /\ Tell(appRequest.id, appApplied) /\ UNCHANGED iosVars

\* The completion of restoreCapture; the stream ends when the camera does not
\* even go back to the previous profile.
RestoreCompletes ==
  /\ iosRestoring
  /\ appPc \notin {"prepare", "report"}
  /\ iosRestoring' = FALSE
  /\ \/ UNCHANGED <<linkVars, mcVars, appStarted>>
     \/ /\ IF mcOpen THEN CloseClient ELSE UNCHANGED <<linkVars, mcVars>>
        /\ appStarted' = FALSE
  /\ UNCHANGED <<workVars, appActive, appAvail, appEncoding, iosConnected, iosChoices>>

-----------------------------------------------------------------------------
(* The user and the status timer *)

\* reconfigureActiveCapture.  A profile the desktop did not offer in its
\* handshake changes nothing, provided the phone takes itself for connected.
ChooseProfile(wanted) ==
  /\ PollerReady
  /\ iosChoices < ChoiceLimit
  /\ iosChoices' = iosChoices + 1
  /\ wanted \in appAvail /\ iosConnected => mcOpen /\ wanted \in PeerProfiles
  /\ BeginWork(0, wanted)
  /\ UNCHANGED <<linkVars, mcVars, iosConnected, iosRestoring>>

\* The same while another change waits for the camera.
ChoiceRefused ==
  /\ appPc \in {"configure", "switch"} /\ appStarted
  /\ iosChoices < ChoiceLimit
  /\ iosChoices' = iosChoices + 1
  /\ Tell(0, NoProfile)
  /\ UNCHANGED <<appVars, iosConnected, iosRestoring>>

\* The timer of startConnectionStatusPolling, or the block initializeTransport
\* leaves on the main queue.
RefreshStatus ==
  /\ appPc \notin {"prepare", "report"}
  /\ iosConnected' = (mcOpen /\ link = "up")
  /\ UNCHANGED <<linkVars, mcVars, appVars, iosRestoring, iosChoices>>

IosUser == ChoiceRefused \/ \E wanted \in StreamProfile : ChooseProfile(wanted)

IosWorks ==
  \/ HandleConfigure \/ HandleKeyframeRequest \/ HandleSwitchCamera \/ HandleDisconnect
  \/ SwitchCompletes \/ PrepareSucceeds \/ PrepareFails
  \/ ApplySucceeds \/ ApplyFails \/ IosReport \/ RestoreCompletes
=============================================================================
