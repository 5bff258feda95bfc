------------------------------- MODULE PhoneApp -------------------------------
(***************************************************************************)
(* What the stream managers of both phones keep while they stream, and what*)
(* they share: an offer of profiles, the profile their encoder runs at, and *)
(* one piece of work at a time.  AndroidStream and IosStream are the two    *)
(* managers.  The camera is running before streaming starts; start and stop*)
(* of a whole manager are not part of these modules.                       *)
(***************************************************************************)
EXTENDS MobileCore

CONSTANT FrameFlags   \* keyframe flags of the frames that are sent
ASSUME FrameFlagsAssumption == FrameFlags \subseteq BOOLEAN

VARIABLES appPc,        \* where the manager is in its work
          appRequest,   \* the request it works on; id 0 is the user's own
          appLeft,      \* candidates it has not tried
          appApplied,   \* the profile it will report, or NoProfile
          appActive,    \* the profile of the running encoder
          appAvail,     \* the profiles it still offers
          appStarted,   \* it has not given up streaming
          appEncoding   \* an encoder is running

workVars == <<appPc, appRequest, appLeft, appApplied>>
appVars == <<workVars, appActive, appAvail, appStarted, appEncoding>>

Work == Request \cup [id : {0}, profile : StreamProfile] \cup {NoRequest}

PhoneTypeOK ==
  /\ appPc \in {"idle", "apply", "prepare", "configure", "switch", "report"}
  /\ appRequest \in Work
  /\ appLeft \in Seq(StreamProfile)
  /\ appApplied \in StreamProfile \cup {NoProfile}
  /\ appActive \in StreamProfile
  /\ appAvail \subseteq StreamProfile
  /\ appStarted \in BOOLEAN
  /\ appEncoding \in BOOLEAN

\* Camera and encoders qualified the profiles `offered`.
PhoneInit(offered) ==
  /\ appPc = "idle"
  /\ appRequest = NoRequest
  /\ appLeft = <<>>
  /\ appApplied = NoProfile
  /\ appActive \in offered
  /\ appAvail = offered
  /\ appStarted = TRUE
  /\ appEncoding = TRUE

\* The manager may ask the transport client for a command.
PollerReady == appPc = "idle" /\ appStarted

\* The end of a piece of work, whatever became of its report.
ReportDone ==
  /\ appPc = "report"
  /\ appPc' = "idle"
  /\ appRequest' = NoRequest
  /\ appApplied' = NoProfile
  /\ UNCHANGED <<appLeft, appActive, appAvail, appStarted, appEncoding>>

\* The encoder's callback, on a thread of its own: a frame labelled with the
\* profile that is active at that moment.
EncodeFrame(keyframe) ==
  /\ appStarted /\ appEncoding
  /\ SendVideoFrame(KindOf(appActive), keyframe)
  /\ UNCHANGED appVars
=============================================================================
