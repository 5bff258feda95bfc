-------------------------- MODULE StreamNegotiation --------------------------
(***************************************************************************)
(* A desktop stream task and a phone negotiating the profile of their      *)
(* stream: DesktopStream joined by one Link with AndroidStream or IosStream*)
(* (both over MobileCore), over several connections.                       *)
(***************************************************************************)
EXTENDS DesktopStream, AndroidStream, IosStream

CONSTANTS SessionLimit,   \* bound on the connections of each kind of phone
          Phones,         \* the kinds of phones to consider
          PhoneProfiles   \* what camera and encoders of each qualified at start

VARIABLES phone,      \* the kind of the phone
          sessions,   \* connections made so far
          expired,    \* history: a request of this connection timed out
          refused,    \* history: a report of this connection was refused
          crossed     \* history: a change made on the phone met a request

historyVars == <<expired, refused, crossed>>
phoneVars == <<mcVars, appVars, iosVars>>
vars == <<linkVars, dVars, phoneVars, phone, sessions, historyVars>>

ASSUME SessionAssumption == SessionLimit \in [Phones -> Nat]
ASSUME PhonesAssumption == Phones \subseteq {"android", "ios"}
\* The desktop's handshake offers the profiles it qualified.
ASSUME HandshakeAssumption == PeerProfiles = Local
\* Something to stream: both managers require the startup profile to qualify.
ASSUME PhoneAssumption == PhoneProfiles \in [Phones -> (SUBSET StreamProfile) \ {{}}]

TypeOK ==
  /\ LinkTypeOK /\ DesktopTypeOK /\ MobileTypeOK /\ PhoneTypeOK /\ IosTypeOK
  /\ phone \in Phones
  /\ sessions \in 0 .. SessionLimit[phone]
  /\ expired \in BOOLEAN /\ refused \in BOOLEAN /\ crossed \in BOOLEAN

\* Neither end has a connection.
Init ==
  /\ phone \in Phones
  /\ LinkInit
  /\ PhoneInit(PhoneProfiles[phone]) /\ IosInit
  /\ mcOpen = FALSE /\ mcActive = appActive /\ mcSupported = appAvail
  /\ mcPending = NoRequest
  /\ dPhase = "ended" /\ dActive = appActive /\ dOut = appActive
  /\ dPeer = appAvail /\ dDecoding = {} /\ dPending = NoPending
  /\ dCounter = 0 /\ dKeyAsked = FALSE /\ dSending = NoMessage
  /\ cmd = NoCommand /\ call = Idle
  /\ sessions = 0
  /\ expired = FALSE /\ refused = FALSE /\ crossed = FALSE

-----------------------------------------------------------------------------
(* A phone connects to a listening desktop and both handshakes are valid:  *)
(* the phone's active profile is among its own and among the desktop's.    *)

\* On iOS the calls that open and close a connection run on the main queue,
\* between two pieces of work; connect() starts streaming anew when the phone
\* had given up.
MayCallClient == phone = "ios" => appPc \notin {"prepare", "report"}

Handshaken ==
  /\ dPhase = "ended" /\ ~mcOpen
  /\ MayCallClient /\ (phone = "ios" => appStarted)
  /\ sessions < SessionLimit[phone]
  /\ appActive \in appAvail \cap Local
  /\ sessions' = sessions + 1
  /\ OpenClient(appAvail, appActive)
  /\ d2p' = <<>> /\ p2d' = <<>>
  /\ expired' = FALSE /\ refused' = FALSE /\ crossed' = FALSE
  /\ UNCHANGED <<appVars, iosVars, phone>>

Connect ==
  /\ Handshaken
  /\ link' = "up"
  /\ BeginStream(appAvail, appActive)

\* The desktop cannot commit its output: it hangs up on a phone that has
\* just connected.
ConnectFails ==
  /\ Handshaken
  /\ link' = "down"
  /\ UNCHANGED dVars

-----------------------------------------------------------------------------

\* The desktop reads a change made on the phone while its own request is
\* pending.
Crossing ==
  /\ Receiving("result") /\ Result.id = 0 /\ Result.profile # NoProfile
  /\ dPending # NoPending
  /\ p2d' = Tail(p2d)

DesktopOnly(A) ==
  /\ A
  /\ crossed' = (crossed \/ Crossing)
  /\ UNCHANGED <<phoneVars, phone, sessions, expired, refused>>

DesktopStep == DesktopOnly(DesktopWorks)

DesktopExpires ==
  /\ Expire
  /\ expired' = TRUE
  /\ UNCHANGED <<phoneVars, phone, sessions, refused, crossed>>

\* A report that tells the desktop something does not reach the queue.
ReportLost ==
  /\ appPc = "report" /\ appPc' = "idle"
  /\ appRequest.id # 0 \/ appApplied # NoProfile
  /\ ~(/\ ReportAccepted(appRequest.id, appApplied)
       /\ phone = "ios" => iosConnected)

AppStep ==
  /\ \/ phone = "android" /\ AndroidWorks /\ UNCHANGED iosVars
     \/ phone = "ios" /\ IosWorks
  /\ refused' = (refused \/ ReportLost)
  /\ UNCHANGED <<dVars, phone, sessions, expired, crossed>>

\* The user of an iPhone, and its status timer.
IosSide ==
  /\ phone = "ios"
  /\ IosUser \/ RefreshStatus
  /\ UNCHANGED <<dVars, phone, sessions, historyVars>>

Frames ==
  /\ \E keyframe \in FrameFlags : EncodeFrame(keyframe)
  /\ UNCHANGED <<dVars, iosVars, phone, sessions, historyVars>>

Disturbance ==
  \/ DesktopOnly(DesktopDisturbed)
  \/ LinkDrop /\ UNCHANGED <<dVars, phoneVars, phone, sessions, historyVars>>
  \* reconnect() first shuts the old client down.
  \/ /\ mcOpen /\ MayCallClient /\ CloseClient
     /\ UNCHANGED <<dVars, appVars, iosVars, phone, sessions, historyVars>>

Next ==
  \/ Connect \/ ConnectFails
  \/ DesktopStep \/ DesktopExpires
  \/ AppStep \/ IosSide \/ Frames
  \/ Disturbance

Spec == Init /\ [][Next]_vars

\* The runtime keeps polling the stream task.  Its select picks one of the
\* ready branches at random, so one that is ready again and again is taken;
\* a wait for room is served in the order of the waiters; the ticker keeps
\* firing.  The phone's executor, or its main queue, runs what is due, and
\* the camera answers.  Nothing is assumed of users, network, frames, devices.
Fairness ==
  /\ WF_vars(DesktopOnly(SeeDisconnect))
  /\ SF_vars(DesktopOnly(FinishSend))
  /\ SF_vars(DesktopOnly(ExpireCompensation))
  /\ SF_vars(DesktopOnly(DesktopCommands))
  /\ SF_vars(DesktopOnly(DesktopReceives))
  /\ SF_vars(DesktopExpires)
  /\ WF_vars(AppStep)

FairSpec == Spec /\ Fairness

-----------------------------------------------------------------------------
(* What must hold. *)

\* Where a queue holds numbered messages of a type.  The results of changes
\* made on the phone have id 0, and so have none of these numbers.
Numbered(queue, type) == {i \in DOMAIN queue : queue[i].type = type /\ queue[i].id # 0}
Ascending(queue, type) ==
  \A i, j \in Numbered(queue, type) : i < j => queue[i].id < queue[j].id
Requests == {d2p[i].id : i \in Numbered(d2p, "configure")}
Answers == {p2d[i].id : i \in Numbered(p2d, "result")}

Connected == Streaming /\ mcOpen /\ link = "up"

\* Nothing is being negotiated anywhere.
Quiet ==
  /\ Connected
  /\ dPending = NoPending /\ cmd = NoCommand /\ dSending = NoMessage
  /\ Requests = {} /\ \A i \in DOMAIN p2d : p2d[i].type # "result"
  /\ appPc = "idle"

\* A caller of configure_stream waits exactly while one place holds the
\* sender of its reply: the command channel or the pending request.  Nobody
\* is left waiting and no reply is sent twice.
OneReplyHolder ==
  /\ call.status = "waiting" <=>
       cmd # NoCommand \/ (dPending # NoPending /\ dPending.reply)
  /\ ~(cmd # NoCommand /\ dPending # NoPending /\ dPending.reply)

\* The profile a pending request would go back to is the active one: nothing
\* changes the active profile while a request is pending.
PriorIsActive == dPending # NoPending => dPending.prior = dActive

\* The output device runs at the active profile, except while a failed
\* commit is being compensated on the phone.
OutputFollowsActive ==
  Streaming /\ dPending.kind # "compensation" => dOut = dActive

\* Every frame inside the decoder is of the kind the output is committed to,
\* unless a compensation is under way: a change of profile leaves no frame of
\* the old one behind to end the stream when it is written.
DecodedFramesFit ==
  Streaming /\ dPending.kind # "compensation" =>
    \A kind \in dDecoding : kind = KindOf(dOut)

\* Requests are answered in the order of their ids and at most once: on the
\* way from the desktop's queue over the phone to the queue back, ids only
\* grow, and none is above the desktop's counter.
RequestsInOrder ==
  Connected =>
    /\ Ascending(d2p, "configure") /\ Ascending(p2d, "result")
    /\ \A old \in Answers, new \in Requests : old < new
    /\ mcPending # NoRequest =>
         /\ \A old \in Answers : old < mcPending.id
         /\ \A new \in Requests : mcPending.id < new
    /\ \A id \in Answers \cup Requests \cup {mcPending.id} : id <= dCounter

\* While the desktop waits for a result, its request is waiting to be sent, on
\* its way, in the phone's hands, or answered on the way back.  In the phone's
\* hands means that the manager works on it, unless its report was refused:
\* only that makes the deadline the only way out.
PendingIsUnderway ==
  Connected /\ dPending # NoPending =>
    \/ dPending.id \in Requests \cup Answers
    \/ dSending = ConfigureStream(dPending.id, dPending.requested)
    \/ /\ dPending.id = mcPending.id
       /\ refused \/ (appRequest = mcPending /\ appPc \notin {"idle", "switch"})

\* As long as no request timed out and no change made on the phone met a
\* request, desktop and phone agree on the profile whenever nothing is being
\* negotiated, whatever was requested, chosen, failed, fell back or was
\* compensated; and so does the phone's encoder, unless a report was refused.
AgreementWhenQuiet ==
  Quiet /\ ~expired /\ ~crossed =>
    /\ dActive = mcActive
    /\ ~refused => mcActive = appActive /\ mcPending = NoRequest

\* In the same circumstances no frame is dropped for its kind: those that
\* arrive before a report match the old profile, those after it the new one.
NoFrameLostToNegotiation ==
  Connected /\ ~expired /\ ~crossed /\ dPending.kind # "compensation" =>
    (Receiving("frame") => FrameValid)

\* A profile reported as applied to the caller is the active one, and stays so
\* until the next command or a change the user makes on the phone: nothing
\* late undoes an acknowledged change.
AcknowledgedStays ==
  [][Streaming /\ Streaming' =>
       /\ call' # call /\ call'.status = "ok" => call'.profile = dActive'
       /\ call.status = "ok" /\ dActive' # dActive => Unsolicited]_vars

\* README.md: PhoneCam keeps the previous stream active when a change is
\* rejected.  So after a change was answered with an error and everything
\* has settled, the phone still streams what the desktop takes for active.
RejectedKeepsPrevious ==
  Quiet /\ call.status = "err" /\ ~refused => mcActive = dActive

\* The phone holds the connection and will never read from it again: it gave
\* up streaming, or a refused report left a request pending in its client.
PhoneDeaf ==
  mcOpen /\ link = "up" /\ (~appStarted \/ (appPc = "idle" /\ mcPending # NoRequest))

\* Every caller of configure_stream gets an answer, by the phone's result, the
\* deadline or the end of the stream, unless the stream task is stuck sending
\* to a phone that stopped reading.
CommandAnswered ==
  (call.status = "waiting") ~>
    (call.status # "waiting" \/ (PhoneDeaf /\ dSending # NoMessage))
=============================================================================
