---------------------------- MODULE AndroidStream ----------------------------
(***************************************************************************)
(* StreamManager.kt: the poller thread, which takes one control command at *)
(* a time and works through it, beside the encoder's callback.  Handling a *)
(* configuration request is split where the other thread can be seen in    *)
(* between: before each candidate profile and before the report.           *)
(***************************************************************************)
EXTENDS PhoneApp

-----------------------------------------------------------------------------

\* handleRemoteStreamConfiguration up to its first change: an unsupported
\* profile is reported at once, the active one is confirmed at once.
TakeConfigure ==
  LET wanted == Head(d2p).profile IN
  /\ PollerReady
  /\ NextControl("configure")
  /\ PollControl
  /\ appRequest' = [id |-> Head(d2p).id, profile |-> wanted]
  /\ IF wanted \notin appAvail \/ wanted = appActive
     THEN /\ appPc' = "report"
          /\ appLeft' = <<>>
          /\ appApplied' = IF wanted \in appAvail THEN wanted ELSE NoProfile
     ELSE /\ appPc' = "apply"
          /\ appLeft' = ConfigurationCandidates(wanted, appAvail)
          /\ appApplied' = NoProfile
  /\ UNCHANGED <<appActive, appAvail, appStarted, appEncoding>>

\* A request for a keyframe; the next frame submitted may be one.
TakeKeyframeRequest ==
  /\ PollerReady
  /\ NextControl("keyframe")
  /\ PollControl
  /\ UNCHANGED appVars

\* performRemoteCameraSwitch keeps the profile; the encoder it stopped may
\* fail to start again.
TakeSwitchCamera ==
  /\ PollerReady
  /\ NextControl("switch")
  /\ PollControl
  /\ appEncoding' \in BOOLEAN
  /\ UNCHANGED <<workVars, appActive, appAvail, appStarted>>

NoticeDisconnect ==
  /\ PollerReady
  /\ PollDisconnected
  /\ UNCHANGED appVars

-----------------------------------------------------------------------------
(* performRemoteStreamConfiguration for the next candidate *)

Trying == appPc = "apply" /\ appLeft # <<>> /\ appStarted
Candidate == Head(appLeft)

CandidateApplied ==
  /\ Trying
  /\ appActive' = Candidate
  /\ appEncoding' = TRUE
  /\ appApplied' = Candidate
  /\ appPc' = "report"
  /\ appLeft' = <<>>
  /\ UNCHANGED <<linkVars, mcVars, appRequest, appAvail, appStarted>>

\* The candidate is withdrawn and the previous profile restored; when that
\* fails too the manager gives up streaming.
CandidateFails ==
  /\ Trying
  /\ appAvail' = appAvail \ {Candidate}
  /\ UpdateCapabilities(appAvail \ {Candidate})
  /\ \/ appEncoding' = TRUE /\ UNCHANGED appStarted
     \/ appEncoding' = FALSE /\ appStarted' = FALSE
  /\ appLeft' = Tail(appLeft)
  /\ UNCHANGED <<appPc, appRequest, appApplied, appActive>>

CandidatesExhausted ==
  /\ appPc = "apply"
  /\ appLeft = <<>> \/ ~appStarted
  /\ appPc' = "report"
  /\ appLeft' = <<>>
  /\ UNCHANGED <<linkVars, mcVars, appRequest, appApplied, appActive, appAvail,
                 appStarted, appEncoding>>

\* reportConfiguration; its result is not acted upon beyond a keyframe.
Report == ReportDone /\ ReportConfiguration(appRequest.id, appApplied)

-----------------------------------------------------------------------------

Poll ==
  TakeConfigure \/ TakeKeyframeRequest \/ TakeSwitchCamera \/ NoticeDisconnect

Configure ==
  CandidateApplied \/ CandidateFails \/ CandidatesExhausted \/ Report

AndroidWorks == Poll \/ Configure
=============================================================================
