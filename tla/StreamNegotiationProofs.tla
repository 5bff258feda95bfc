------------------------ MODULE StreamNegotiationProofs ------------------------
(***************************************************************************)
(* Theorems of StreamNegotiation, for every value of its constants.        *)
(***************************************************************************)
EXTENDS StreamNegotiation, Functions, TLAPS

\* A lost suffix leaves a sequence of the same messages.
LEMMA RemainsType ==
  ASSUME NEW S, NEW queue \in Seq(S), NEW rest \in Remains(queue)
  PROVE  rest \in Seq(S)
<1>1. PICK k \in 0 .. Len(queue) : rest = SubSeq(queue, 1, k)
  BY DEF Remains
<1> QED
  BY <1>1

\* Request ids stay within their range, and never become zero.
LEMMA NextRequestIdType ==
  ASSUME NEW counter \in Nat, NEW maxId \in Nat \ {0}
  PROVE  NextRequestId(counter, maxId) \in 1 .. maxId
<1>1. (counter + 1) % (maxId + 1) \in 0 .. maxId
  OBVIOUS
<1> QED
  BY <1>1 DEF NextRequestId

\* A command resolves to a common profile of the wanted mode, or to none.
LEMMA ResolveProfileCommon ==
  ASSUME NEW common, NEW mode, NEW preference \in Preferences
  PROVE  LET found == ResolveProfile(common, mode, preference)
         IN  found = NoProfile \/ (found \in common /\ found.mode = mode)
<1> DEFINE order == CodecOrder(preference)
           offered == {i \in DOMAIN order : [codec |-> order[i], mode |-> mode] \in common}
           first == CHOOSE i \in offered : \A j \in offered : i <= j
<1>1. DOMAIN order = 1 .. 1 \/ DOMAIN order = 1 .. 2
  BY DEF CodecOrder
<1>2. CASE offered = {}
  BY <1>2 DEF ResolveProfile
<1>3. CASE offered # {}
  <2>1. \E i \in offered : \A j \in offered : i <= j
    BY <1>1, <1>3
  <2>2. first \in offered
    BY <2>1
  <2>3. ResolveProfile(common, mode, preference) = [codec |-> order[first], mode |-> mode]
    BY <1>3 DEF ResolveProfile
  <2> QED
    BY <2>2, <2>3
<1> QED
  BY <1>2, <1>3

-----------------------------------------------------------------------------
(* Type correctness, component by component. *)

DTypeOK == LinkTypeOK /\ DesktopTypeOK
MTypeOK == LinkTypeOK /\ MobileTypeOK

\* The head and the rest of a queue that is not empty.
LEMMA QueueType ==
  ASSUME NEW S, NEW queue \in Seq(S), queue # <<>>
  PROVE  Head(queue) \in S /\ Tail(queue) \in Seq(S)
  OBVIOUS

\* Ending the stream leaves every variable of the desktop in its type.
LEMMA EndStreamType ==
  ASSUME DTypeOK, EndStream
  PROVE  DTypeOK'
<1> USE DEF DTypeOK, EndStream
<1>1. d2p' \in Seq(DesktopMessage)
  BY RemainsType DEF LinkTypeOK
<1>2. p2d' \in Seq(PhoneMessage)
  OBVIOUS
<1>3. LinkTypeOK'
  BY <1>1, <1>2 DEF LinkTypeOK
<1>4. call' \in Call
  BY DEF DesktopTypeOK, Err, Call
<1>5. DesktopTypeOK'
  BY <1>4 DEF DesktopTypeOK, streamVars
<1> QED
  BY <1>3, <1>5

\* Sending leaves the queue and the awaited message in their types.
LEMMA PostType ==
  ASSUME DTypeOK, NEW message \in DesktopMessage, Post(message)
  PROVE  /\ d2p' \in Seq(DesktopMessage)
         /\ dSending' \in DesktopMessage \cup {NoMessage}
<1>1. d2p \in Seq(DesktopMessage) /\ dSending \in DesktopMessage \cup {NoMessage}
  BY DEF DTypeOK, LinkTypeOK, DesktopTypeOK
<1> QED
  BY <1>1 DEF Post

\* A request that is sent has an id of its range and a well-formed record.
LEMMA SendConfigurationType ==
  ASSUME DTypeOK,
         NEW kind \in {"configure", "compensation"},
         NEW requested \in StreamProfile, NEW prior \in StreamProfile,
         NEW reply \in BOOLEAN,
         SendConfiguration(kind, requested, prior, reply)
  PROVE  /\ dCounter' \in RequestIds
         /\ d2p' \in Seq(DesktopMessage)
         /\ dPending' \in PendingConfiguration
         /\ dSending' \in DesktopMessage \cup {NoMessage}
<1> USE DEF DTypeOK, SendConfiguration
<1>1. dCounter \in Nat
  BY RequestLimitAssumption DEF DesktopTypeOK, RequestIds
<1>2. dCounter' \in RequestIds
  BY <1>1, NextRequestIdType, RequestLimitAssumption DEF RequestIds
<1>3. ConfigureStream(dCounter', requested) \in DesktopMessage
  BY <1>2 DEF ConfigureStream, DesktopMessage
<1>4. /\ d2p' \in Seq(DesktopMessage)
      /\ dSending' \in DesktopMessage \cup {NoMessage}
  BY <1>3, PostType
<1>5. dPending' \in PendingConfiguration
  BY <1>2 DEF PendingConfiguration
<1> QED
  BY <1>2, <1>4, <1>5

\* Facts the desktop's actions share: what a resolved command and an accepted
\* result are, and the types of the answers to a caller.
LEMMA DesktopValues ==
  ASSUME DTypeOK
  PROVE  /\ Common \subseteq StreamProfile
         /\ CommandReady /\ Requested # NoProfile => Requested \in Common
         /\ \A p \in StreamProfile : Ok(p) \in Call
         /\ Err \in Call /\ Waiting \in Call /\ Idle \in Call
         /\ \A p \in StreamProfile : KindOf(p) \in FrameKind
         /\ NoPending \in PendingConfiguration \cup {NoPending}
         /\ NoPending.kind \notin {"configure", "compensation"}
<1>1. Common \subseteq StreamProfile
  BY LocalAssumption DEF Common, CommonProfiles
<1>2. ASSUME CommandReady, Requested # NoProfile PROVE Requested \in Common
  <2>1. cmd \in PipelineCommand
    BY <1>2 DEF CommandReady, DTypeOK, DesktopTypeOK
  <2>2. cmd.preference \in Preferences
    BY <2>1 DEF PipelineCommand
  <2> QED
    BY <1>2, <2>2, ResolveProfileCommon DEF Requested
<1>3. \A p \in StreamProfile : Ok(p) \in Call
  BY DEF Ok, Call
<1>4. Err \in Call /\ Waiting \in Call /\ Idle \in Call
  BY DEF Err, Waiting, Idle, Call
<1>5. \A p \in StreamProfile : KindOf(p) \in FrameKind
  BY SizeOfAssumption DEF KindOf, FrameKind, StreamProfile
<1> QED
  BY <1>1, <1>2, <1>3, <1>4, <1>5 DEF NoPending

\* Receiving takes a message of the phone off its queue.
LEMMA ReceivingType ==
  ASSUME DTypeOK, NEW type, Receiving(type)
  PROVE  /\ Head(p2d) \in PhoneMessage /\ Tail(p2d) \in Seq(PhoneMessage)
         /\ type = "frame" => Head(p2d).kind \in FrameKind /\ Head(p2d).key \in BOOLEAN
         /\ type = "capabilities" => Head(p2d).profiles \subseteq StreamProfile
         /\ type = "result" => Head(p2d).profile \in StreamProfile \cup {NoProfile}
<1>1. Head(p2d) \in PhoneMessage /\ Tail(p2d) \in Seq(PhoneMessage)
  BY QueueType DEF DTypeOK, LinkTypeOK, Receiving
<1> QED
  BY <1>1 DEF Receiving, PhoneMessage

\* Every branch of the stream task keeps the types.
LEMMA DesktopStepType ==
  ASSUME DTypeOK,
         DesktopWorks \/ DesktopDisturbed \/ Expire
  PROVE  DTypeOK'
<1> USE DEF DTypeOK
<1>0. /\ link \in {"up", "down"} /\ d2p \in Seq(DesktopMessage) /\ p2d \in Seq(PhoneMessage)
      /\ DesktopTypeOK
  BY DEF LinkTypeOK
<1>1. ASSUME SeeDisconnect \/ ExpireCompensation \/ Shutdown \/ DecoderOrOutputFails
             \/ CompensationFails \/ \E kind \in dDecoding : FrameRefused(kind)
      PROVE  DTypeOK'
  <2>1. EndStream
    BY <1>1 DEF SeeDisconnect, ExpireCompensation, Shutdown, DecoderOrOutputFails,
                CompensationFails, FrameRefused
  <2> QED
    BY <2>1, EndStreamType
<1>2. CASE Expire
  BY <1>0, <1>2, DesktopValues DEF Expire, LinkTypeOK, linkVars, DesktopTypeOK, streamVars
<1>3. CASE CommandUnsupported \/ CommandPreflightFails
  BY <1>0, <1>3, DesktopValues DEF CommandUnsupported, CommandPreflightFails, RejectCommand,
     LinkTypeOK, linkVars, DesktopTypeOK, streamVars
<1>4. CASE CommandAlreadyActive
  BY <1>0, <1>4, DesktopValues DEF CommandAlreadyActive, LinkTypeOK, linkVars, DesktopTypeOK,
     streamVars
<1>5. CASE CommandSent
  <2>1. Requested \in StreamProfile /\ dActive \in StreamProfile
    BY <1>5, DesktopValues DEF CommandSent, DesktopTypeOK
  <2>2. /\ dCounter' \in RequestIds /\ d2p' \in Seq(DesktopMessage)
        /\ dPending' \in PendingConfiguration
        /\ dSending' \in DesktopMessage \cup {NoMessage}
    BY <1>5, <2>1, SendConfigurationType DEF CommandSent
  <2> QED
    BY <1>0, <1>5, <2>2 DEF CommandSent, LinkTypeOK, DesktopTypeOK, streamVars
<1>6. CASE UiSwitchCamera
  <2>1. d2p' \in Seq(DesktopMessage)
    BY <1>0, <1>6 DEF UiSwitchCamera, DesktopMessage
  <2> QED
    BY <1>0, <1>6, <2>1 DEF UiSwitchCamera, LinkTypeOK, DesktopTypeOK, dVars
<1>7. ASSUME NEW mode \in Modes, NEW preference \in Preferences, UiConfigure(mode, preference)
      PROVE  DTypeOK'
  <2>1. cmd' \in PipelineCommand
    BY <1>7 DEF UiConfigure, PipelineCommand
  <2> QED
    BY <1>0, <1>7, <2>1, DesktopValues DEF UiConfigure, LinkTypeOK, linkVars, DesktopTypeOK,
       streamVars
<1>8. ASSUME NEW kind \in dDecoding, WriteFrame(kind)
      PROVE  DTypeOK'
  BY <1>0, <1>8 DEF WriteFrame, LinkTypeOK, linkVars, DesktopTypeOK, streamVars
<1>9. CASE RecoveryRequired
  <2>1. /\ d2p' \in Seq(DesktopMessage)
        /\ dSending' \in DesktopMessage \cup {NoMessage}
    BY <1>9, PostType DEF RecoveryRequired, DesktopMessage
  <2> QED
    BY <1>0, <1>9, <2>1 DEF RecoveryRequired, LinkTypeOK, DesktopTypeOK, streamVars
<1>10. CASE DesktopReceives
  <2>1. CASE DropFrame \/ IgnoreResult \/ UnsolicitedDropped
    BY <1>0, <2>1, ReceivingType DEF DropFrame, IgnoreResult, UnsolicitedDropped, Unsolicited,
       LinkTypeOK, DesktopTypeOK, dVars
  <2>2. CASE AcceptFrame
    <3>1. Head(p2d).kind \in FrameKind /\ Tail(p2d) \in Seq(PhoneMessage)
      BY <2>2, ReceivingType DEF AcceptFrame
    <3> QED
      BY <1>0, <2>2, <3>1 DEF AcceptFrame, LinkTypeOK, DesktopTypeOK, streamVars
  <2>3. CASE FrameBacklog
    <3>1. Tail(p2d) \in Seq(PhoneMessage)
      BY <2>3, ReceivingType DEF FrameBacklog
    <3>2. RequestKeyframe \in DesktopMessage
      BY DEF DesktopMessage
    <3>3. \/ Post(RequestKeyframe) /\ dKeyAsked' = TRUE
          \/ UNCHANGED <<d2p, dSending, dKeyAsked>>
      BY <2>3, Zenon DEF FrameBacklog
    <3>4. /\ d2p' \in Seq(DesktopMessage)
          /\ dSending' \in DesktopMessage \cup {NoMessage}
      BY <1>0, <3>2, <3>3, PostType DEF DesktopTypeOK
    <3>5. dKeyAsked' \in BOOLEAN
      BY <1>0, <3>3, Zenon DEF DesktopTypeOK
    <3> QED
      BY <1>0, <2>3, <3>1, <3>4, <3>5 DEF FrameBacklog, LinkTypeOK, DesktopTypeOK, streamVars
  <2>4. CASE ReceiveCapabilities
    <3>1. Head(p2d).profiles \subseteq StreamProfile /\ Tail(p2d) \in Seq(PhoneMessage)
      BY <2>4, ReceivingType DEF ReceiveCapabilities
    <3> QED
      BY <1>0, <2>4, <3>1 DEF ReceiveCapabilities, LinkTypeOK, DesktopTypeOK
  <2>5. CASE UnsolicitedAdopted
    <3>1. Result.profile \in StreamProfile /\ Tail(p2d) \in Seq(PhoneMessage)
      BY <2>5, ReceivingType, DesktopValues DEF UnsolicitedAdopted, Unsolicited
    <3> QED
      BY <1>0, <2>5, <3>1 DEF UnsolicitedAdopted, Adopt, LinkTypeOK, DesktopTypeOK
  <2>6. CASE UnsolicitedCompensated
    <3>1. Result.profile \in StreamProfile /\ Tail(p2d) \in Seq(PhoneMessage)
      BY <2>6, ReceivingType, DesktopValues DEF UnsolicitedCompensated, Unsolicited
    <3>2. /\ dCounter' \in RequestIds /\ d2p' \in Seq(DesktopMessage)
          /\ dPending' \in PendingConfiguration
          /\ dSending' \in DesktopMessage \cup {NoMessage}
      BY <2>6, SendConfigurationType DEF UnsolicitedCompensated, DesktopTypeOK
    <3> QED
      BY <1>0, <2>6, <3>1, <3>2 DEF UnsolicitedCompensated, CommitFails, LinkTypeOK,
         DesktopTypeOK
  <2>7. CASE ConfigureApplied
    <3>1. Result.profile \in StreamProfile /\ Tail(p2d) \in Seq(PhoneMessage)
      BY <2>7, ReceivingType, DesktopValues DEF ConfigureApplied, AnswersPending, Accepted,
         AcceptsAppliedProfile
    <3> QED
      BY <1>0, <2>7, <3>1, DesktopValues DEF ConfigureApplied, Adopt, LinkTypeOK, DesktopTypeOK
  <2>8. CASE ConfigureCompensated
    <3>1. Result.profile \in StreamProfile /\ Tail(p2d) \in Seq(PhoneMessage)
      BY <2>8, ReceivingType, DesktopValues DEF ConfigureCompensated, AnswersPending,
         Accepted, AcceptsAppliedProfile
    <3>2. dPending.prior \in StreamProfile /\ dPending.reply \in BOOLEAN
      BY <2>8, DesktopValues DEF ConfigureCompensated, AnswersPending, DesktopTypeOK,
         PendingConfiguration
    <3>3. /\ dCounter' \in RequestIds /\ d2p' \in Seq(DesktopMessage)
          /\ dPending' \in PendingConfiguration
          /\ dSending' \in DesktopMessage \cup {NoMessage}
      BY <2>8, <3>2, SendConfigurationType DEF ConfigureCompensated
    <3> QED
      BY <1>0, <2>8, <3>1, <3>3 DEF ConfigureCompensated, CommitFails, LinkTypeOK,
         DesktopTypeOK
  <2>9. CASE ConfigureRejected
    <3>1. Tail(p2d) \in Seq(PhoneMessage)
      BY <2>9, ReceivingType DEF ConfigureRejected, AnswersPending
    <3> QED
      BY <1>0, <2>9, <3>1, DesktopValues DEF ConfigureRejected, LinkTypeOK, DesktopTypeOK,
         streamVars
  <2>10. CASE CompensationApplied
    <3>1. Tail(p2d) \in Seq(PhoneMessage)
      BY <2>10, ReceivingType DEF CompensationApplied, AnswersPending
    <3>2. dPending.prior \in StreamProfile
      BY <2>10, DesktopValues DEF CompensationApplied, AnswersPending, DesktopTypeOK,
         PendingConfiguration
    <3> QED
      BY <1>0, <2>10, <3>1, <3>2, DesktopValues DEF CompensationApplied, Adopt, LinkTypeOK,
         DesktopTypeOK
  <2> QED
    BY <1>1, <1>10, <2>1, <2>2, <2>3, <2>4, <2>5, <2>6, <2>7, <2>8, <2>9, <2>10
    DEF DesktopReceives
<1>11. CASE FinishSend
  <2>1. dSending \in DesktopMessage
    BY <1>0, <1>11 DEF FinishSend, DesktopTypeOK
  <2>2. d2p' \in Seq(DesktopMessage) /\ dSending' = NoMessage
    BY <1>0, <1>11, <2>1 DEF FinishSend
  <2> QED
    BY <1>0, <1>11, <2>2 DEF FinishSend, LinkTypeOK, DesktopTypeOK, streamVars
<1> QED
  BY <1>1, <1>2, <1>3, <1>4, <1>5, <1>6, <1>7, <1>8, <1>9, <1>10, <1>11
  DEF DesktopWorks, DesktopDisturbed, DesktopCommands, DesktopDecodes

\* What the phone's client does to its own variables and the queues.
LEMMA ReportType ==
  ASSUME MTypeOK, NEW id \in RequestIds \cup {0},
         NEW applied \in StreamProfile \cup {NoProfile},
         ReportConfiguration(id, applied)
  PROVE  MTypeOK'
<1> USE DEF MTypeOK, LinkTypeOK
<1>1. CASE ReportAccepted(id, applied)
  <2>1. ConfigurationResult(id, applied) \in PhoneMessage
    BY DEF ConfigurationResult, PhoneMessage
  <2>2. p2d' \in Seq(PhoneMessage)
    BY <1>1, <2>1 DEF ReportConfiguration
  <2>3. mcActive' \in StreamProfile
    BY <1>1 DEF ReportConfiguration, MobileTypeOK
  <2>4. mcPending' \in Request \cup {NoRequest}
    BY <1>1 DEF ReportConfiguration, MobileTypeOK
  <2> QED
    BY <1>1, <2>2, <2>3, <2>4 DEF ReportConfiguration, MobileTypeOK
<1>2. CASE ~ReportAccepted(id, applied)
  BY <1>2 DEF ReportConfiguration, MobileTypeOK, linkVars, mcVars
<1> QED
  BY <1>1, <1>2

\* Telling the desktop what the phone still offers keeps the client well typed.
LEMMA UpdateCapabilitiesType ==
  ASSUME MTypeOK, NEW profiles \in SUBSET StreamProfile, UpdateCapabilities(profiles)
  PROVE  MTypeOK'
<1> USE DEF MTypeOK, LinkTypeOK
<1>1. CapabilitiesUpdate(profiles) \in PhoneMessage
  BY DEF CapabilitiesUpdate, PhoneMessage
<1>2. CASE mcOpen /\ mcActive \in profiles /\ PhoneCanEnqueue
  BY <1>1, <1>2 DEF UpdateCapabilities, MobileTypeOK
<1>3. CASE ~(mcOpen /\ mcActive \in profiles /\ PhoneCanEnqueue)
  BY <1>3 DEF UpdateCapabilities, MobileTypeOK, linkVars, mcVars
<1> QED
  BY <1>2, <1>3

\* Shutting the client down keeps it well typed.
LEMMA CloseClientType ==
  ASSUME MTypeOK, CloseClient
  PROVE  MTypeOK'
<1>1. p2d' \in Seq(PhoneMessage)
  BY RemainsType DEF MTypeOK, LinkTypeOK, CloseClient
<1>2. LinkTypeOK'
  BY <1>1 DEF LinkTypeOK, CloseClient
<1>3. MobileTypeOK'
  BY DEF MTypeOK, MobileTypeOK, CloseClient
<1> QED
  BY <1>2, <1>3 DEF MTypeOK

\* Handing out a command keeps the client well typed, and what it hands out
\* for a configuration request is a request.
LEMMA PollControlType ==
  ASSUME MTypeOK, NEW type, NextControl(type), PollControl
  PROVE  /\ MTypeOK'
         /\ type = "configure" =>
              Head(d2p).id \in RequestIds /\ Head(d2p).profile \in StreamProfile
<1>1. Head(d2p) \in DesktopMessage /\ Tail(d2p) \in Seq(DesktopMessage)
  BY QueueType DEF MTypeOK, LinkTypeOK, NextControl
<1>2. Head(d2p).type = "configure" =>
        Head(d2p).id \in RequestIds /\ Head(d2p).profile \in StreamProfile
  BY <1>1 DEF DesktopMessage, RequestKeyframe, SwitchCamera
<1>3. mcPending' \in Request \cup {NoRequest}
  BY <1>2 DEF PollControl, Request, MTypeOK, MobileTypeOK
<1> QED
  BY <1>1, <1>2, <1>3 DEF NextControl, PollControl, MTypeOK, LinkTypeOK, MobileTypeOK

\* The candidates for a request are profiles.
LEMMA CandidatesType ==
  ASSUME NEW requested \in StreamProfile, NEW supported
  PROVE  ConfigurationCandidates(requested, supported) \in Seq(StreamProfile)
<1> DEFINE twin == [requested EXCEPT !.codec = "h264"]
<1>1. twin \in StreamProfile
  BY DEF StreamProfile, Codecs
<1>2. <<requested, twin>> \in Seq(StreamProfile) /\ <<requested>> \in Seq(StreamProfile)
  BY <1>1
<1> QED
  BY <1>2 DEF ConfigurationCandidates

\* The work in hand is told apart by its id, which is in range.
LEMMA WorkType ==
  ASSUME PhoneTypeOK
  PROVE  /\ appRequest.id \in RequestIds \cup {0}
         /\ Request \subseteq Work /\ NoRequest \in Work
  BY DEF PhoneTypeOK, Work, Request, NoRequest

\* The end of a piece of work leaves the manager well typed.
LEMMA ReportDoneType ==
  ASSUME PhoneTypeOK, ReportDone
  PROVE  PhoneTypeOK'
  BY DEF PhoneTypeOK, ReportDone, Work

\* Every step of Android's poller thread keeps the types.
LEMMA AndroidStepType ==
  ASSUME MTypeOK, PhoneTypeOK, AndroidWorks
  PROVE  MTypeOK' /\ PhoneTypeOK'
<1> USE DEF PhoneTypeOK
<1>1. CASE TakeConfigure
  <2>1. /\ MTypeOK'
        /\ Head(d2p).id \in RequestIds /\ Head(d2p).profile \in StreamProfile
    BY <1>1, PollControlType DEF TakeConfigure
  <2>2. appRequest' \in Work
    BY <1>1, <2>1 DEF TakeConfigure, Request, Work
  <2>3. ConfigurationCandidates(Head(d2p).profile, appAvail) \in Seq(StreamProfile)
    BY <2>1, CandidatesType
  <2> DEFINE wanted == Head(d2p).profile
             immediate == wanted \notin appAvail \/ wanted = appActive
  <2>4. /\ appLeft' \in Seq(StreamProfile)
        /\ appPc' \in {"idle", "apply", "report"}
        /\ appApplied' \in StreamProfile \cup {NoProfile}
    <3>1. CASE immediate
      <4>1. /\ appPc' = "report"
            /\ appLeft' = <<>>
            /\ appApplied' = IF wanted \in appAvail THEN wanted ELSE NoProfile
        BY <1>1, <3>1 DEF TakeConfigure
      <4>2. appLeft' \in Seq(StreamProfile)
        BY <4>1
      <4> QED
        BY <2>1, <4>1, <4>2
    <3>2. CASE ~immediate
      BY <1>1, <2>3, <3>2 DEF TakeConfigure
    <3> QED
      BY <3>1, <3>2
  <2> QED
    BY <1>1, <2>1, <2>2, <2>4 DEF TakeConfigure
<1>2. CASE TakeKeyframeRequest \/ TakeSwitchCamera
  <2>1. MTypeOK'
    BY <1>2, PollControlType DEF TakeKeyframeRequest, TakeSwitchCamera
  <2> QED
    BY <1>2, <2>1 DEF TakeKeyframeRequest, TakeSwitchCamera, appVars, workVars
<1>3. CASE NoticeDisconnect
  BY <1>3, CloseClientType DEF NoticeDisconnect, PollDisconnected, appVars, workVars
<1>4. CASE CandidateApplied
  <2>1. Candidate \in StreamProfile
    BY <1>4, QueueType DEF CandidateApplied, Trying, Candidate
  <2> QED
    BY <1>4, <2>1 DEF CandidateApplied, MTypeOK, LinkTypeOK, MobileTypeOK, linkVars, mcVars
<1>5. CASE CandidateFails
  <2>1. Tail(appLeft) \in Seq(StreamProfile)
    BY <1>5, QueueType DEF CandidateFails, Trying
  <2>2. appAvail \ {Candidate} \in SUBSET StreamProfile
    OBVIOUS
  <2>3. MTypeOK'
    BY <1>5, <2>2, UpdateCapabilitiesType DEF CandidateFails
  <2> QED
    BY <1>5, <2>1, <2>3 DEF CandidateFails
<1>6. CASE CandidatesExhausted
  BY <1>6 DEF CandidatesExhausted, MTypeOK, LinkTypeOK, MobileTypeOK, linkVars, mcVars
<1>7. CASE Report
  <2>1. MTypeOK'
    BY <1>7, WorkType, ReportType DEF Report
  <2> QED
    BY <1>7, <2>1, ReportDoneType DEF Report
<1> QED
  BY <1>1, <1>2, <1>3, <1>4, <1>5, <1>6, <1>7 DEF AndroidWorks, Poll, Configure

ITypeOK == PhoneTypeOK /\ IosTypeOK

\* Android never waits for an encoder or the camera in the iPhone's ways.
LEMMA AndroidKeepsIos ==
  ASSUME IosTypeOK, AndroidWorks, UNCHANGED iosVars
  PROVE  IosTypeOK'
<1>1. \/ UNCHANGED <<appPc, appRequest, appApplied>>
      \/ appPc' \in {"idle", "apply", "report"}
  <2>1. CASE Poll
    BY <2>1 DEF Poll, TakeConfigure, TakeKeyframeRequest, TakeSwitchCamera, NoticeDisconnect,
       appVars, workVars
  <2>2. CASE Configure
    BY <2>2 DEF Configure, CandidateApplied, CandidateFails, CandidatesExhausted, Trying,
       Report, ReportDone
  <2> QED
    BY <2>1, <2>2 DEF AndroidWorks
<1> QED
  BY <1>1 DEF IosTypeOK, iosVars

\* A new piece of work is well typed.
LEMMA BeginWorkType ==
  ASSUME PhoneTypeOK, NEW id \in RequestIds \cup {0}, NEW wanted \in StreamProfile,
         BeginWork(id, wanted)
  PROVE  /\ PhoneTypeOK' /\ appRequest' # NoRequest
         /\ appPc' \in {"prepare", "report"}
<1>1. appRequest' \in Work /\ appRequest' # NoRequest
  BY DEF BeginWork, Work, Request, NoRequest
<1>2. appPc' \in {"prepare", "report"} /\ appApplied' \in StreamProfile \cup {NoProfile}
  BY DEF BeginWork
<1> QED
  BY <1>1, <1>2 DEF BeginWork, PhoneTypeOK

\* What the phone tells its client, if anything.
LEMMA TellType ==
  ASSUME MTypeOK, NEW id \in RequestIds \cup {0},
         NEW applied \in StreamProfile \cup {NoProfile}, Tell(id, applied)
  PROVE  MTypeOK'
  BY ReportType DEF Tell, MTypeOK, LinkTypeOK, MobileTypeOK, linkVars, mcVars

\* Withdrawing a profile keeps the types.
LEMMA WithdrawType ==
  ASSUME MTypeOK, PhoneTypeOK, Withdraw
  PROVE  MTypeOK' /\ PhoneTypeOK' /\ appPc' = "report"
<1>1. appAvail \ {appRequest.profile} \in SUBSET StreamProfile
  BY DEF PhoneTypeOK
<1>2. MTypeOK'
  BY <1>1, UpdateCapabilitiesType DEF Withdraw
<1> QED
  BY <1>1, <1>2 DEF Withdraw, PhoneTypeOK

\* A profile is a profile, not the absence of one.
LEMMA ProfileIsNotNone == NoProfile \notin StreamProfile
<1>1. \A p \in StreamProfile : p.codec \in {"h264", "hevc"}
  BY DEF StreamProfile, Codecs
<1>2. NoProfile.codec = "none"
  BY DEF NoProfile
<1> QED
  BY <1>1, <1>2

\* Every handler, completion and timer of the iPhone keeps the types.
LEMMA IosStepType ==
  ASSUME MTypeOK, ITypeOK, IosWorks \/ IosUser \/ RefreshStatus
  PROVE  MTypeOK' /\ ITypeOK'
<1> USE DEF ITypeOK
<1>1. CASE HandleConfigure
  <2>1. /\ MTypeOK'
        /\ Head(d2p).id \in RequestIds /\ Head(d2p).profile \in StreamProfile
    BY <1>1, PollControlType DEF HandleConfigure
  <2>2. /\ PhoneTypeOK' /\ appRequest' # NoRequest
        /\ appPc' \in {"prepare", "report"}
    BY <1>1, <2>1, BeginWorkType DEF HandleConfigure
  <2> QED
    BY <1>1, <2>1, <2>2 DEF HandleConfigure, IosTypeOK, iosVars
<1>2. CASE HandleKeyframeRequest \/ HandleSwitchCamera
  <2>1. MTypeOK'
    BY <1>2, PollControlType DEF HandleKeyframeRequest, HandleSwitchCamera
  <2> QED
    BY <1>2, <2>1 DEF HandleKeyframeRequest, HandleSwitchCamera, PhoneTypeOK, IosTypeOK,
       appVars, workVars, iosVars
<1>3. CASE HandleDisconnect
  BY <1>3, CloseClientType DEF HandleDisconnect, PollDisconnected, PhoneTypeOK, IosTypeOK,
     appVars, workVars, iosVars
<1>4. CASE SwitchCompletes
  <2>1. PICK found \in Cameras : appAvail' = found /\ UpdateCapabilities(found)
    BY <1>4 DEF SwitchCompletes
  <2>2. found \in SUBSET StreamProfile
    BY CamerasAssumption
  <2>3. MTypeOK'
    BY <2>1, <2>2, UpdateCapabilitiesType
  <2> QED
    BY <1>4, <2>1, <2>2, <2>3 DEF SwitchCompletes, PhoneTypeOK, IosTypeOK, iosVars
<1>5. CASE PrepareSucceeds
  <2> DEFINE candidates == ConfigurationCandidates(appRequest.profile, appAvail)
  <2>1. appRequest.profile \in StreamProfile
    BY <1>5 DEF PrepareSucceeds, PhoneTypeOK, IosTypeOK, Work, Request
  <2>2. candidates \in Seq(StreamProfile)
    BY <2>1, CandidatesType
  <2>3. \E i \in DOMAIN candidates : appApplied' = candidates[i]
    BY <1>5 DEF PrepareSucceeds
  <2>4. appApplied' \in StreamProfile
    BY <2>2, <2>3
  <2>5. appApplied' # NoProfile
    BY <2>4, ProfileIsNotNone
  <2> QED
    BY <1>5, <2>4, <2>5 DEF PrepareSucceeds, PhoneTypeOK, IosTypeOK, MTypeOK, LinkTypeOK,
       MobileTypeOK, linkVars, mcVars, iosVars
<1>6. CASE PrepareFails
  BY <1>6, WithdrawType DEF PrepareFails, IosTypeOK, iosVars
<1>7. CASE ApplySucceeds
  BY <1>7 DEF ApplySucceeds, PhoneTypeOK, IosTypeOK, MTypeOK, LinkTypeOK, MobileTypeOK,
     linkVars, mcVars, iosVars
<1>8. CASE ApplyFails
  BY <1>8, WithdrawType DEF ApplyFails, IosTypeOK
<1>9. CASE IosReport
  <2>1. MTypeOK'
    BY <1>9, WorkType, TellType DEF IosReport, PhoneTypeOK
  <2>2. PhoneTypeOK' /\ appPc' = "idle"
    BY <1>9, ReportDoneType DEF IosReport, ReportDone
  <2> QED
    BY <1>9, <2>1, <2>2 DEF IosReport, IosTypeOK, iosVars
<1>10. CASE RestoreCompletes
  <2>1. MTypeOK'
    BY <1>10, CloseClientType
    DEF RestoreCompletes, MTypeOK, LinkTypeOK, MobileTypeOK, linkVars, mcVars
  <2> QED
    BY <1>10, <2>1 DEF RestoreCompletes, PhoneTypeOK, IosTypeOK, workVars
<1>11. ASSUME NEW wanted \in StreamProfile, ChooseProfile(wanted)
       PROVE  MTypeOK' /\ ITypeOK'
  <2>1. /\ PhoneTypeOK' /\ appRequest' # NoRequest
        /\ appPc' \in {"prepare", "report"}
    BY <1>11, BeginWorkType DEF ChooseProfile
  <2>2. IosTypeOK'
    BY <1>11, <2>1, ChoiceAssumption DEF ChooseProfile, IosTypeOK
  <2> QED
    BY <1>11, <2>1, <2>2
    DEF ChooseProfile, MTypeOK, LinkTypeOK, MobileTypeOK, linkVars, mcVars
<1>12. CASE ChoiceRefused
  <2>1. MTypeOK'
    BY <1>12, TellType DEF ChoiceRefused
  <2>2. PhoneTypeOK'
    BY <1>12 DEF ChoiceRefused, PhoneTypeOK, appVars, workVars
  <2>3. IosTypeOK'
    BY <1>12, ChoiceAssumption DEF ChoiceRefused, IosTypeOK, appVars, workVars
  <2> QED
    BY <2>1, <2>2, <2>3
<1>13. CASE RefreshStatus
  BY <1>13 DEF RefreshStatus, MTypeOK, LinkTypeOK, MobileTypeOK, PhoneTypeOK, IosTypeOK,
     linkVars, mcVars, appVars, workVars
<1> QED
  BY <1>1, <1>2, <1>3, <1>4, <1>5, <1>6, <1>7, <1>8, <1>9, <1>10, <1>11, <1>12, <1>13
  DEF IosWorks, IosUser

\* A connection starts both ends with well-typed values.
LEMMA HandshakenType ==
  ASSUME TypeOK, Connect \/ ConnectFails
  PROVE  TypeOK'
<1> USE DEF TypeOK, Handshaken, OpenClient
<1>0. Handshaken /\ link' \in {"up", "down"}
  BY DEF Connect, ConnectFails
<1>1. /\ MobileTypeOK'
      /\ PhoneTypeOK' /\ IosTypeOK'
      /\ phone' \in Phones /\ sessions' \in 0 .. SessionLimit[phone']
      /\ expired' \in BOOLEAN /\ refused' \in BOOLEAN /\ crossed' \in BOOLEAN
  <2>1. MobileTypeOK'
    BY <1>0 DEF MobileTypeOK, PhoneTypeOK
  <2>2. PhoneTypeOK' /\ IosTypeOK'
    BY <1>0 DEF PhoneTypeOK, IosTypeOK, appVars, workVars, iosVars
  <2>3. phone' \in Phones /\ sessions' \in 0 .. SessionLimit[phone']
    BY <1>0, SessionAssumption
  <2> QED
    BY <1>0, <2>1, <2>2, <2>3
<1>2. LinkTypeOK'
  BY <1>0 DEF LinkTypeOK
<1>3. CASE Connect
  <2>1. appActive \in StreamProfile /\ appAvail \subseteq StreamProfile
    BY DEF PhoneTypeOK
  <2>2. DesktopTypeOK'
    BY <1>3, <2>1 DEF Connect, BeginStream, DesktopTypeOK, Call, Idle
  <2> QED
    BY <1>1, <1>2, <2>2
<1>4. CASE ConnectFails
  <2>1. DesktopTypeOK'
    BY <1>4 DEF ConnectFails, DesktopTypeOK, dVars, streamVars
  <2> QED
    BY <1>1, <1>2, <2>1
<1> QED
  BY <1>3, <1>4

\* Initially every variable has its type.
LEMMA InitType == Init => TypeOK
<1> SUFFICES ASSUME Init PROVE TypeOK
  OBVIOUS
<1> USE DEF Init
<1>1. LinkTypeOK
  BY DEF LinkInit, LinkTypeOK
<1>2. PhoneTypeOK /\ IosTypeOK
  <2>1. PhoneProfiles[phone] \subseteq StreamProfile
    BY PhoneAssumption
  <2>2. PhoneTypeOK
    BY <2>1 DEF PhoneInit, PhoneTypeOK, Work
  <2>3. IosTypeOK
    <3>1. iosConnected \in BOOLEAN /\ iosRestoring \in BOOLEAN
      BY Zenon DEF IosInit
    <3>2. iosChoices \in 0 .. ChoiceLimit
      BY ChoiceAssumption DEF IosInit
    <3>3. appPc = "idle"
      BY DEF PhoneInit
    <3> QED
      BY <3>1, <3>2, <3>3 DEF IosTypeOK
  <2> QED
    BY <2>2, <2>3
<1>3. MobileTypeOK
  BY <1>2 DEF MobileTypeOK, PhoneTypeOK
<1>4. DesktopTypeOK
  BY <1>2 DEF DesktopTypeOK, PhoneTypeOK, Call, Idle
<1>5. phone \in Phones /\ sessions \in 0 .. SessionLimit[phone]
  BY SessionAssumption
<1>6. expired \in BOOLEAN /\ refused \in BOOLEAN /\ crossed \in BOOLEAN
  BY Zenon
<1> QED
  BY <1>1, <1>2, <1>3, <1>4, <1>5, <1>6, Zenon DEF TypeOK

\* Every step of the system keeps the types.
LEMMA NextType == TypeOK /\ [Next]_vars => TypeOK'
<1> SUFFICES ASSUME TypeOK, [Next]_vars PROVE TypeOK'
  OBVIOUS
<1> DEFINE Others == /\ phone \in Phones /\ sessions \in 0 .. SessionLimit[phone]
                     /\ expired \in BOOLEAN /\ refused \in BOOLEAN /\ crossed \in BOOLEAN
<1>1. CASE Connect \/ ConnectFails
  BY <1>1, HandshakenType
<1>2. ASSUME DesktopWorks \/ DesktopDisturbed \/ Expire,
             UNCHANGED <<phoneVars, phone, sessions, refused>>,
             expired' \in BOOLEAN, crossed' \in BOOLEAN
      PROVE  TypeOK'
  <2>1. DTypeOK'
    BY <1>2, DesktopStepType DEF TypeOK, DTypeOK
  <2>2. MobileTypeOK' /\ PhoneTypeOK' /\ IosTypeOK'
    BY <1>2 DEF TypeOK, MobileTypeOK, PhoneTypeOK, IosTypeOK, phoneVars, mcVars, appVars,
       workVars, iosVars
  <2> QED
    BY <1>2, <2>1, <2>2 DEF TypeOK, DTypeOK
<1>3. CASE AppStep \/ IosSide
  <2>1. MTypeOK' /\ PhoneTypeOK' /\ IosTypeOK'
    <3>1. CASE AndroidWorks /\ UNCHANGED iosVars
      BY <3>1, AndroidStepType, AndroidKeepsIos DEF TypeOK, MTypeOK
    <3>2. CASE IosWorks \/ IosUser \/ RefreshStatus
      BY <3>2, IosStepType DEF TypeOK, MTypeOK, ITypeOK
    <3> QED
      BY <1>3, <3>1, <3>2 DEF AppStep, IosSide
  <2>2. DesktopTypeOK'
    BY <1>3 DEF AppStep, IosSide, TypeOK, DesktopTypeOK, dVars, streamVars
  <2>3. Others'
    BY <1>3 DEF AppStep, IosSide, TypeOK, historyVars
  <2> QED
    BY <2>1, <2>2, <2>3 DEF TypeOK, MTypeOK
<1>4. CASE Frames
  <2>1. PICK keyframe \in FrameFlags : EncodeFrame(keyframe)
    BY <1>4 DEF Frames
  <2>2. VideoFrame(KindOf(appActive), keyframe) \in PhoneMessage
    BY <2>1, FrameFlagsAssumption, SizeOfAssumption
    DEF VideoFrame, PhoneMessage, KindOf, FrameKind, TypeOK, PhoneTypeOK, StreamProfile
  <2>3. LinkTypeOK'
    BY <2>1, <2>2 DEF EncodeFrame, SendVideoFrame, TypeOK, LinkTypeOK
  <2>4. DesktopTypeOK' /\ MobileTypeOK'
    BY <1>4, <2>1 DEF Frames, EncodeFrame, SendVideoFrame, TypeOK, DesktopTypeOK,
       MobileTypeOK, dVars, streamVars, mcVars
  <2>5. PhoneTypeOK' /\ IosTypeOK'
    BY <1>4, <2>1 DEF Frames, EncodeFrame, TypeOK, PhoneTypeOK, IosTypeOK, appVars, workVars,
       iosVars
  <2> QED
    BY <1>4, <2>3, <2>4, <2>5 DEF Frames, TypeOK, historyVars
<1>5. CASE LinkDrop /\ UNCHANGED <<dVars, phoneVars, phone, sessions, historyVars>>
  <2>1. LinkTypeOK'
    BY <1>5, RemainsType DEF LinkDrop, TypeOK, LinkTypeOK
  <2>2. DesktopTypeOK' /\ MobileTypeOK'
    BY <1>5 DEF TypeOK, DesktopTypeOK, MobileTypeOK, dVars, streamVars, phoneVars, mcVars
  <2>3. PhoneTypeOK' /\ IosTypeOK'
    BY <1>5 DEF TypeOK, PhoneTypeOK, IosTypeOK, phoneVars, appVars, workVars, iosVars
  <2> QED
    BY <1>5, <2>1, <2>2, <2>3 DEF TypeOK, historyVars
<1>6. CASE CloseClient /\ UNCHANGED <<dVars, appVars, iosVars, phone, sessions, historyVars>>
  <2>1. MTypeOK'
    BY <1>6, CloseClientType DEF TypeOK, MTypeOK
  <2>2. DesktopTypeOK'
    BY <1>6 DEF TypeOK, DesktopTypeOK, dVars, streamVars
  <2>3. PhoneTypeOK' /\ IosTypeOK'
    BY <1>6 DEF TypeOK, PhoneTypeOK, IosTypeOK, appVars, workVars, iosVars
  <2> QED
    BY <1>6, <2>1, <2>2, <2>3 DEF TypeOK, MTypeOK, historyVars
<1>7. CASE UNCHANGED vars
  <2>1. LinkTypeOK' /\ DesktopTypeOK' /\ MobileTypeOK'
    BY <1>7 DEF vars, linkVars, TypeOK, LinkTypeOK, DesktopTypeOK, MobileTypeOK, dVars,
       streamVars, phoneVars, mcVars
  <2>2. PhoneTypeOK' /\ IosTypeOK'
    BY <1>7 DEF vars, TypeOK, PhoneTypeOK, IosTypeOK, phoneVars, appVars, workVars, iosVars
  <2> QED
    BY <1>7, <2>1, <2>2 DEF vars, TypeOK, historyVars
<1>8. CASE DesktopStep \/ DesktopOnly(DesktopDisturbed)
  <2>1. crossed' \in BOOLEAN
    BY <1>8 DEF DesktopStep, DesktopOnly
  <2> QED
    BY <1>2, <1>8, <2>1 DEF DesktopStep, DesktopOnly, TypeOK
<1>9. CASE DesktopExpires
  BY <1>2, <1>9 DEF DesktopExpires, TypeOK
<1> QED
  BY <1>1, <1>3, <1>4, <1>5, <1>6, <1>7, <1>8, <1>9 DEF Next, Disturbance

\* Every variable keeps its type, in every behaviour of the specification:
\* in particular every message on the link is well formed and request ids
\* stay within their range.
THEOREM TypeCorrect == Spec => []TypeOK
  BY InitType, NextType, PTL DEF Spec

-----------------------------------------------------------------------------
(* The desktop's safety.  OutputFollowsActive and DecodedFramesFit are not *)
(* inductive alone: that a compensation ends at the active profile needs   *)
(* PriorIsActive, and frames enter the decoder by the active profile while *)
(* they are judged by the output's.                                        *)

DesktopInv ==
  OneReplyHolder /\ PriorIsActive /\ OutputFollowsActive /\ DecodedFramesFit

\* What the invariant says once the stream has ended, or has just begun.
LEMMA EndStreamInv ==
  ASSUME DTypeOK, EndStream
  PROVE  DesktopInv'
<1>1. call.status \in {"idle", "waiting", "ok", "err"}
  BY DEF DTypeOK, DesktopTypeOK, Call
<1>2. call'.status # "waiting"
  BY <1>1 DEF EndStream, Err
<1> QED
  BY <1>2 DEF EndStream, DesktopInv, OneReplyHolder, PriorIsActive, OutputFollowsActive,
     DecodedFramesFit, Streaming

\* No command is the absence of one, and no pending request is its absence.
LEMMA Absences ==
  /\ NoCommand \notin PipelineCommand
  /\ \A mode, preference : preference \in Preferences =>
       [mode |-> mode, preference |-> preference] # NoCommand
  /\ \A p \in PendingConfiguration : p # NoPending /\ p.kind # "none"
  /\ NoPending.kind = "none"
<1>1. \A c \in PipelineCommand : c.preference \in Preferences
  BY DEF PipelineCommand
<1>2. NoCommand.preference \notin Preferences /\ NoPending.kind = "none"
  BY DEF NoCommand, NoPending, Preferences
<1>3. \A p \in PendingConfiguration : p.kind \in {"configure", "compensation"}
  BY DEF PendingConfiguration
<1>4. \A mode, preference : [mode |-> mode, preference |-> preference].preference = preference
  OBVIOUS
<1> QED
  BY <1>1, <1>2, <1>3, <1>4

\* Every branch of the stream task preserves the invariant.
LEMMA DesktopStepInv ==
  ASSUME DTypeOK, DesktopInv,
         DesktopWorks \/ DesktopDisturbed \/ Expire
  PROVE  DesktopInv'
<1> USE DEF DesktopInv
<1>0. /\ dPending \in PendingConfiguration \cup {NoPending}
      /\ cmd \in PipelineCommand \cup {NoCommand}
  BY DEF DTypeOK, DesktopTypeOK
<1>1. ASSUME SeeDisconnect \/ ExpireCompensation \/ Shutdown \/ DecoderOrOutputFails
             \/ CompensationFails \/ \E kind \in dDecoding : FrameRefused(kind)
      PROVE  DesktopInv'
  <2>1. EndStream
    BY <1>1 DEF SeeDisconnect, ExpireCompensation, Shutdown, DecoderOrOutputFails,
                CompensationFails, FrameRefused
  <2> QED
    BY <2>1, EndStreamInv
<1>2. CASE Expire
  <2>1. OneReplyHolder'
    BY <1>0, <1>2, Absences DEF Expire, OneReplyHolder, Err
  <2> QED
    BY <1>0, <1>2, <2>1, Absences DEF Expire, PriorIsActive, OutputFollowsActive,
       DecodedFramesFit, Streaming, streamVars
<1>3. CASE CommandUnsupported \/ CommandPreflightFails \/ CommandAlreadyActive
  <2>1. /\ dPending = NoPending /\ cmd' = NoCommand /\ call'.status # "waiting"
        /\ UNCHANGED <<dPending, dPhase, streamVars, dDecoding>>
    BY <1>3 DEF CommandUnsupported, CommandPreflightFails, CommandAlreadyActive, RejectCommand,
       CommandReady, Err, Ok
  <2> QED
    BY <2>1 DEF OneReplyHolder, PriorIsActive, OutputFollowsActive, DecodedFramesFit, Streaming,
       streamVars
<1>4. CASE CommandSent
  <2>1. /\ dPending = NoPending /\ cmd # NoCommand /\ cmd' = NoCommand
        /\ dPending'.kind = "configure" /\ dPending'.prior = dActive /\ dPending'.reply
        /\ UNCHANGED <<dPhase, streamVars, dDecoding, call>>
    BY <1>4 DEF CommandSent, CommandReady, SendConfiguration
  <2> QED
    BY <2>1, Absences DEF OneReplyHolder, PriorIsActive, OutputFollowsActive, DecodedFramesFit,
       Streaming, streamVars
<1>5. ASSUME NEW mode \in Modes, NEW preference \in Preferences, UiConfigure(mode, preference)
      PROVE  DesktopInv'
  <2>1. /\ cmd' # NoCommand /\ call'.status = "waiting" /\ call.status # "waiting"
        /\ UNCHANGED <<dPending, dPhase, streamVars, dDecoding>>
    BY <1>5, Absences DEF UiConfigure, Waiting
  <2> QED
    BY <2>1 DEF OneReplyHolder, PriorIsActive, OutputFollowsActive, DecodedFramesFit, Streaming,
       streamVars
<1>6. ASSUME UiSwitchCamera \/ FinishSend \/ RecoveryRequired \/ DropFrame \/ FrameBacklog
             \/ ReceiveCapabilities \/ IgnoreResult \/ UnsolicitedDropped
             \/ \E kind \in dDecoding : WriteFrame(kind)
      PROVE  DesktopInv'
  <2>1. /\ UNCHANGED <<dPending, dPhase, dActive, dOut, cmd, call>>
        /\ dDecoding' \subseteq dDecoding
    <3>1. CASE FrameBacklog
      BY <3>1 DEF FrameBacklog, streamVars
    <3>2. CASE \E kind \in dDecoding : WriteFrame(kind)
      BY <3>2 DEF WriteFrame, streamVars
    <3>3. CASE RecoveryRequired \/ FinishSend
      BY <3>3 DEF RecoveryRequired, FinishSend, streamVars
    <3>4. CASE UiSwitchCamera \/ DropFrame \/ ReceiveCapabilities \/ IgnoreResult
               \/ UnsolicitedDropped
      BY <3>4 DEF UiSwitchCamera, DropFrame, ReceiveCapabilities, IgnoreResult,
         UnsolicitedDropped, dVars
    <3> QED
      BY <1>6, <3>1, <3>2, <3>3, <3>4
  <2> QED
    BY <2>1 DEF OneReplyHolder, PriorIsActive, OutputFollowsActive, DecodedFramesFit, Streaming
<1>7. CASE AcceptFrame
  <2>1. /\ UNCHANGED <<dPending, dPhase, dActive, dOut, cmd, call>>
        /\ dDecoding' = dDecoding \cup {KindOf(dActive)} /\ Streaming
    BY <1>7 DEF AcceptFrame, FrameValid, Receiving, Selecting, streamVars
  <2> QED
    BY <2>1 DEF OneReplyHolder, PriorIsActive, OutputFollowsActive, DecodedFramesFit, Streaming
<1>8. CASE UnsolicitedAdopted
  <2>1. /\ UNCHANGED <<dPending, dPhase, cmd, call>> /\ dPending = NoPending
        /\ dOut' = dActive' /\ dDecoding' = {}
    BY <1>8 DEF UnsolicitedAdopted, Unsolicited, Adopt
  <2> QED
    BY <2>1 DEF OneReplyHolder, PriorIsActive, OutputFollowsActive, DecodedFramesFit, Streaming
<1>9. CASE UnsolicitedCompensated
  <2>1. /\ UNCHANGED <<dActive, cmd, call>> /\ dPending = NoPending
        /\ dPending'.kind = "compensation" /\ dPending'.prior = dActive /\ ~dPending'.reply
    BY <1>9 DEF UnsolicitedCompensated, Unsolicited, CommitFails, SendConfiguration
  <2> QED
    BY <2>1 DEF OneReplyHolder, PriorIsActive, OutputFollowsActive, DecodedFramesFit
<1>10. CASE ConfigureApplied \/ CompensationApplied
  <2>1. /\ dPending # NoPending /\ dPending' = NoPending /\ UNCHANGED <<dPhase, cmd>>
        /\ dOut' = dActive' /\ dDecoding' = {}
        /\ dPending.reply => call'.status # "waiting"
        /\ ~dPending.reply => UNCHANGED call
    BY <1>10, Absences DEF ConfigureApplied, CompensationApplied, AnswersPending, Adopt, Ok, Err
  <2> QED
    BY <2>1 DEF OneReplyHolder, PriorIsActive, OutputFollowsActive, DecodedFramesFit, Streaming
<1>11. CASE ConfigureCompensated
  <2>1. /\ dPending # NoPending /\ UNCHANGED <<dActive, cmd, call>>
        /\ dPending'.kind = "compensation" /\ dPending'.prior = dPending.prior
        /\ dPending'.reply = dPending.reply
    BY <1>11, Absences DEF ConfigureCompensated, AnswersPending, CommitFails, SendConfiguration
  <2>2. dPending' # NoPending
    BY <2>1, Absences
  <2> QED
    BY <2>1, <2>2 DEF OneReplyHolder, PriorIsActive, OutputFollowsActive, DecodedFramesFit
<1>12. CASE ConfigureRejected
  <2>1. /\ dPending # NoPending /\ dPending' = NoPending
        /\ dPending.kind = "configure"
        /\ UNCHANGED <<dPhase, cmd, dActive, dOut, dDecoding>>
        /\ dPending.reply => call'.status # "waiting"
        /\ ~dPending.reply => UNCHANGED call
    BY <1>12, Absences DEF ConfigureRejected, AnswersPending, Err, streamVars
  <2> QED
    BY <2>1, Absences DEF OneReplyHolder, PriorIsActive, OutputFollowsActive, DecodedFramesFit,
       Streaming
<1> QED
  BY <1>1, <1>2, <1>3, <1>4, <1>5, <1>6, <1>7, <1>8, <1>9, <1>10, <1>11, <1>12
  DEF DesktopWorks, DesktopDisturbed, DesktopCommands, DesktopDecodes, DesktopReceives

\* Every step of the system preserves it: the others leave the desktop alone,
\* or start it afresh.
LEMMA NextInv == TypeOK /\ DesktopInv /\ [Next]_vars => DesktopInv'
<1> SUFFICES ASSUME TypeOK, DesktopInv, [Next]_vars PROVE DesktopInv'
  OBVIOUS
<1>1. CASE DesktopWorks \/ DesktopDisturbed \/ Expire
  BY <1>1, DesktopStepInv DEF TypeOK, DTypeOK
<1>2. CASE UNCHANGED dVars
  BY <1>2 DEF dVars, streamVars, DesktopInv, OneReplyHolder, PriorIsActive,
     OutputFollowsActive, DecodedFramesFit, Streaming
<1>3. CASE Connect
  BY <1>3 DEF Connect, BeginStream, Idle, DesktopInv, OneReplyHolder, PriorIsActive,
     OutputFollowsActive, DecodedFramesFit
<1> QED
  BY <1>1, <1>2, <1>3 DEF Next, Disturbance, DesktopStep, DesktopOnly, DesktopExpires, AppStep,
     IosSide, Frames, ConnectFails, vars

\* In every behaviour: each waiting caller has exactly one place that owes it
\* an answer; the output device runs at the active profile unless the phone
\* is being asked to undo a change the output could not follow; and no frame
\* of a replaced profile is left in the decoder to end the stream.
THEOREM DesktopSafe == Spec => [](OneReplyHolder /\ PriorIsActive /\ OutputFollowsActive
                                  /\ DecodedFramesFit)
<1>1. Init => DesktopInv
  BY DEF Init, Idle, DesktopInv, OneReplyHolder, PriorIsActive, OutputFollowsActive,
     DecodedFramesFit, Streaming
<1>2. TypeOK /\ DesktopInv /\ [Next]_vars => DesktopInv'
  BY NextInv
<1>3. DesktopInv => OneReplyHolder /\ PriorIsActive /\ OutputFollowsActive /\ DecodedFramesFit
  BY DEF DesktopInv
<1> QED
  BY <1>1, <1>2, <1>3, TypeCorrect, PTL DEF Spec

\* A caller of configure_stream waits exactly while one place holds the sender
\* of its reply (PipelineManager::configure_stream, stream_connection).
COROLLARY OneHolder == Spec => []OneReplyHolder
<1> QED BY DesktopSafe, PTL

\* Nothing changes the active profile while a request is pending: the one the
\* request would go back to is the active one (stream_connection).
COROLLARY GoesBackToActive == Spec => []PriorIsActive
<1> QED BY DesktopSafe, PTL

\* Outside a compensation the output device runs at the active profile
\* (stream_connection, OutputDevice::commit).
COROLLARY OutputAtActive == Spec => []OutputFollowsActive
<1> QED BY DesktopSafe, PTL

-----------------------------------------------------------------------------
(* An acknowledged change stays.  An applied result changes the active      *)
(* profile while its caller is still waiting: that needs OneReplyHolder and *)
(* that a request made for a command always owes a reply.                  *)

ConfigureOwesReply == dPending.kind = "configure" => dPending.reply

LEMMA OwesReplyStep ==
  ASSUME DTypeOK, ConfigureOwesReply,
         DesktopWorks \/ DesktopDisturbed \/ Expire
  PROVE  ConfigureOwesReply'
<1>1. CASE EndStream \/ dPending' = NoPending
  BY <1>1, Absences DEF EndStream, ConfigureOwesReply
<1>2. CASE UNCHANGED dPending
  BY <1>2 DEF ConfigureOwesReply
<1>3. CASE CommandSent \/ UnsolicitedCompensated \/ ConfigureCompensated
  BY <1>3 DEF CommandSent, UnsolicitedCompensated, ConfigureCompensated, SendConfiguration,
     ConfigureOwesReply
<1>4. CASE Expire \/ DesktopCommands \/ DesktopDisturbed
  BY <1>1, <1>2, <1>3, <1>4 DEF Expire, DesktopCommands, CommandUnsupported,
     CommandAlreadyActive, RejectCommand, DesktopDisturbed, Shutdown, DecoderOrOutputFails,
     UiSwitchCamera, CommandPreflightFails, UiConfigure, dVars
<1>5. CASE SeeDisconnect \/ ExpireCompensation \/ FinishSend \/ DesktopDecodes
  BY <1>1, <1>2, <1>5 DEF SeeDisconnect, ExpireCompensation, FinishSend, DesktopDecodes,
     WriteFrame, FrameRefused, RecoveryRequired
<1>6. CASE DesktopReceives
  BY <1>1, <1>2, <1>3, <1>6 DEF DesktopReceives, DropFrame, AcceptFrame, FrameBacklog,
     ReceiveCapabilities, IgnoreResult, ConfigureApplied, ConfigureRejected,
     CompensationApplied, CompensationFails, UnsolicitedDropped, UnsolicitedAdopted, dVars
<1> QED
  BY <1>4, <1>5, <1>6 DEF DesktopWorks

\* What one step of the stream task may do to an acknowledged profile.
Stays ==
  Streaming /\ Streaming' =>
    /\ call' # call /\ call'.status = "ok" => call'.profile = dActive'
    /\ call.status = "ok" /\ dActive' # dActive => Unsolicited

LEMMA DesktopStepStays ==
  ASSUME DTypeOK, DesktopInv, ConfigureOwesReply,
         DesktopWorks \/ DesktopDisturbed \/ Expire
  PROVE  Stays
<1>1. CASE EndStream
  BY <1>1 DEF EndStream, Stays, Streaming
<1>2. CASE UNCHANGED dActive /\ (UNCHANGED call \/ call'.status # "ok")
  BY <1>2 DEF Stays
<1>3. CASE CommandAlreadyActive
  BY <1>3 DEF CommandAlreadyActive, Ok, Stays, streamVars
<1>4. CASE UnsolicitedAdopted
  BY <1>4 DEF UnsolicitedAdopted, Stays
<1>5. CASE ConfigureApplied
  <2>1. dPending.kind = "configure" /\ dPending # NoPending
    BY <1>5, Absences DEF ConfigureApplied, AnswersPending
  <2>2. dPending.reply /\ call.status = "waiting"
    BY <2>1 DEF ConfigureOwesReply, DesktopInv, OneReplyHolder
  <2>3. call'.profile = dActive'
    BY <1>5, <2>2 DEF ConfigureApplied, Adopt, Ok
  <2> QED
    BY <2>2, <2>3 DEF Stays
<1>6. CASE CompensationApplied
  <2>1. dPending # NoPending /\ dActive' = dPending.prior
        /\ (UNCHANGED call \/ call'.status # "ok")
    BY <1>6, Absences DEF CompensationApplied, AnswersPending, Adopt, Err
  <2>2. dActive' = dActive
    BY <2>1 DEF DesktopInv, PriorIsActive
  <2> QED
    BY <2>1, <2>2, <1>2
<1>7. CASE Expire \/ CommandUnsupported \/ CommandPreflightFails \/ CommandSent
  <2>1. UNCHANGED dActive
    BY <1>7 DEF Expire, CommandUnsupported, CommandPreflightFails, RejectCommand, CommandSent,
       streamVars
  <2>2. UNCHANGED call \/ call'.status # "ok"
    <3>1. CASE Expire
      BY <3>1 DEF Expire, Err
    <3>2. CASE CommandSent
      BY <3>2 DEF CommandSent
    <3>3. CASE CommandUnsupported \/ CommandPreflightFails
      BY <3>3 DEF CommandUnsupported, CommandPreflightFails, RejectCommand, Err
    <3> QED
      BY <1>7, <3>1, <3>2, <3>3
  <2> QED
    BY <2>1, <2>2, <1>2
<1>10. ASSUME NEW mode \in Modes, NEW preference \in Preferences, UiConfigure(mode, preference)
       PROVE  Stays
  <2>1. UNCHANGED dActive /\ call'.status # "ok"
    BY <1>10 DEF UiConfigure, Waiting, streamVars
  <2> QED
    BY <2>1, <1>2
<1>11. CASE Shutdown \/ DecoderOrOutputFails \/ UiSwitchCamera
  BY <1>1, <1>2, <1>11 DEF Shutdown, DecoderOrOutputFails, UiSwitchCamera, dVars
<1>8. CASE SeeDisconnect \/ ExpireCompensation \/ FinishSend \/ DesktopDecodes
  BY <1>1, <1>2, <1>8 DEF SeeDisconnect, ExpireCompensation, FinishSend, DesktopDecodes,
     WriteFrame, FrameRefused, RecoveryRequired, streamVars
<1>9. CASE DropFrame \/ AcceptFrame \/ FrameBacklog \/ ReceiveCapabilities \/ IgnoreResult
           \/ UnsolicitedDropped
  <2>1. UNCHANGED <<dActive, call>>
    BY <1>9 DEF DropFrame, AcceptFrame, FrameBacklog, ReceiveCapabilities, IgnoreResult,
       UnsolicitedDropped, dVars, streamVars
  <2> QED
    BY <2>1, <1>2
<1>12. CASE ConfigureCompensated \/ UnsolicitedCompensated
  <2>1. UNCHANGED <<dActive, call>>
    BY <1>12 DEF ConfigureCompensated, UnsolicitedCompensated, CommitFails
  <2> QED
    BY <2>1, <1>2
<1>13. CASE ConfigureRejected
  <2>1. UNCHANGED dActive /\ (UNCHANGED call \/ call'.status # "ok")
    BY <1>13 DEF ConfigureRejected, Err, streamVars
  <2> QED
    BY <2>1, <1>2
<1>14. CASE CompensationFails
  BY <1>14, <1>1 DEF CompensationFails
<1> QED
  BY <1>3, <1>4, <1>5, <1>6, <1>7, <1>8, <1>9, <1>10, <1>11, <1>12, <1>13, <1>14
  DEF DesktopWorks, DesktopDisturbed, DesktopCommands, DesktopReceives

\* The profile a caller of configure_stream was told is applied is the active
\* one, and nothing but a change the user makes on the phone moves the stream
\* away from it before the next command (stream_connection).
THEOREM AcknowledgedIsKept == Spec => AcknowledgedStays
<1>1. Init => ConfigureOwesReply
  BY Absences DEF Init, ConfigureOwesReply
<1>2. ASSUME TypeOK, DesktopInv, ConfigureOwesReply, [Next]_vars
      PROVE  ConfigureOwesReply' /\ Stays
  <2>1. CASE DesktopWorks \/ DesktopDisturbed \/ Expire
    BY <1>2, <2>1, OwesReplyStep, DesktopStepStays DEF TypeOK, DTypeOK
  <2>2. CASE UNCHANGED dVars
    BY <1>2, <2>2 DEF dVars, streamVars, ConfigureOwesReply, Stays
  <2>3. CASE Connect
    BY <2>3, Absences DEF Connect, Handshaken, BeginStream, ConfigureOwesReply, Stays, Streaming
  <2> QED
    BY <1>2, <2>1, <2>2, <2>3 DEF Next, Disturbance, DesktopStep, DesktopOnly, DesktopExpires,
       AppStep, IosSide, Frames, ConnectFails, vars
<1>3. Init => DesktopInv
  BY DEF Init, Idle, DesktopInv, OneReplyHolder, PriorIsActive, OutputFollowsActive,
     DecodedFramesFit, Streaming
<1>4. TypeOK /\ DesktopInv /\ [Next]_vars => DesktopInv'
  BY NextInv
<1>5. TypeOK /\ DesktopInv /\ ConfigureOwesReply /\ [Next]_vars => ConfigureOwesReply'
  BY <1>2
<1>6. TypeOK /\ DesktopInv /\ ConfigureOwesReply /\ [Next]_vars => [Stays]_vars
  BY <1>2
<1>7. [Stays]_vars <=>
      [Streaming /\ Streaming' =>
         /\ call' # call /\ call'.status = "ok" => call'.profile = dActive'
         /\ call.status = "ok" /\ dActive' # dActive => Unsolicited]_vars
  BY DEF Stays
<1> QED
  BY <1>1, <1>3, <1>4, <1>5, <1>6, <1>7, TypeCorrect, PTL DEF Spec, AcknowledgedStays

-----------------------------------------------------------------------------
(* Queues.  What follows is said of the set of messages a queue holds, its  *)
(* range, and of the order of the ids in it.                               *)

Above(id, messages) == \A m \in messages : id < m.id
Below(messages, id) == \A m \in messages : m.id < id

\* The numbered messages of a type among others.
Ids(messages, type) == {m \in messages : m.type = type /\ m.id # 0}

\* What a queue holds after a message is appended, and in which order.
LEMMA AppendRange ==
  ASSUME NEW S, NEW queue \in Seq(S), NEW m \in S
  PROVE  Range(Append(queue, m)) = Range(queue) \cup {m}
<1>1. \A i \in DOMAIN queue : i \in DOMAIN Append(queue, m) /\ Append(queue, m)[i] = queue[i]
  OBVIOUS
<1>2. /\ Len(queue) + 1 \in DOMAIN Append(queue, m)
      /\ Append(queue, m)[Len(queue) + 1] = m
  OBVIOUS
<1>3. \A i \in DOMAIN Append(queue, m) : i \in DOMAIN queue \/ i = Len(queue) + 1
  OBVIOUS
<1> QED
  BY <1>1, <1>2, <1>3, Zenon DEF Range

LEMMA AppendAscending ==
  ASSUME NEW S, NEW queue \in Seq(S), NEW m \in S, NEW type,
         Ascending(queue, type),
         m.type = type /\ m.id # 0 => Below(Ids(Range(queue), type), m.id)
  PROVE  Ascending(Append(queue, m), type)
<1> DEFINE longer == Append(queue, m)
<1> SUFFICES ASSUME NEW i \in Numbered(longer, type), NEW j \in Numbered(longer, type), i < j
             PROVE  longer[i].id < longer[j].id
  BY DEF Ascending
<1>1. i \in DOMAIN queue /\ longer[i] = queue[i] /\ i \in Numbered(queue, type)
  BY DEF Numbered
<1>2. CASE j \in DOMAIN queue
  <2>1. longer[j] = queue[j] /\ j \in Numbered(queue, type)
    BY <1>2 DEF Numbered
  <2> QED
    BY <1>1, <2>1 DEF Ascending
<1>3. CASE j \notin DOMAIN queue
  <2>1. longer[j] = m
    BY <1>3 DEF Numbered
  <2>2. queue[i] \in Ids(Range(queue), type)
    BY <1>1 DEF Ids, Range, Numbered
  <2>3. m.type = type /\ m.id # 0
    BY <2>1 DEF Numbered
  <2> QED
    BY <1>1, <2>1, <2>2, <2>3 DEF Below
<1> QED
  BY <1>2, <1>3

\* The head of a queue comes before the rest of it.
LEMMA TailRange ==
  ASSUME NEW S, NEW queue \in Seq(S), queue # <<>>
  PROVE  Range(queue) = {Head(queue)} \cup Range(Tail(queue))
<1>1. \A i \in DOMAIN Tail(queue) : i + 1 \in DOMAIN queue /\ Tail(queue)[i] = queue[i + 1]
  OBVIOUS
<1>2. ASSUME NEW i \in DOMAIN queue, i # 1
      PROVE  i - 1 \in DOMAIN Tail(queue) /\ Tail(queue)[i - 1] = queue[i]
  <2>1. i \in 1 .. Len(queue) /\ i - 1 \in 1 .. Len(queue) - 1
    BY <1>2
  <2> QED
    BY <2>1
<1>3. 1 \in DOMAIN queue /\ Head(queue) = queue[1]
  OBVIOUS
<1>4. Range(queue) \subseteq {Head(queue)} \cup Range(Tail(queue))
  BY <1>2, <1>3, Zenon DEF Range
<1>5. Head(queue) \in Range(queue) /\ \A i \in DOMAIN Tail(queue) : Tail(queue)[i] \in Range(queue)
  BY <1>1, <1>3 DEF Range
<1>6. Range(Tail(queue)) \subseteq Range(queue)
  BY <1>5 DEF Range
<1> QED
  BY <1>4, <1>5, <1>6

LEMMA TailAscending ==
  ASSUME NEW S, NEW queue \in Seq(S), queue # <<>>, NEW type, Ascending(queue, type)
  PROVE  /\ Ascending(Tail(queue), type)
         /\ Head(queue).type = type /\ Head(queue).id # 0 =>
              Above(Head(queue).id, Ids(Range(Tail(queue)), type))
<1> DEFINE rest == Tail(queue)
<1>1. \A i \in DOMAIN rest : i \in 1 .. Len(rest) /\ i + 1 \in DOMAIN queue /\ rest[i] = queue[i + 1]
  OBVIOUS
<1>2. \A i \in Numbered(rest, type) : i + 1 \in Numbered(queue, type) /\ i \in 1 .. Len(rest)
  BY <1>1 DEF Numbered
<1>3. Ascending(rest, type)
  <2> SUFFICES ASSUME NEW i \in Numbered(rest, type), NEW j \in Numbered(rest, type), i < j
               PROVE  rest[i].id < rest[j].id
    BY DEF Ascending
  <2>1. i + 1 \in Numbered(queue, type) /\ j + 1 \in Numbered(queue, type) /\ i + 1 < j + 1
    BY <1>2
  <2>2. queue[i + 1].id < queue[j + 1].id
    BY <2>1 DEF Ascending
  <2> QED
    BY <1>1, <2>2 DEF Numbered
<1>4. ASSUME Head(queue).type = type, Head(queue).id # 0, NEW m \in Ids(Range(rest), type)
      PROVE  Head(queue).id < m.id
  <2>1. PICK i \in DOMAIN rest : m = rest[i]
    BY <1>4 DEF Ids, Range
  <2>2. i \in Numbered(rest, type)
    BY <1>4, <2>1 DEF Ids, Numbered
  <2>3. 1 \in Numbered(queue, type) /\ Head(queue) = queue[1]
    BY <1>4 DEF Numbered
  <2>4. i + 1 \in Numbered(queue, type) /\ 1 < i + 1
    BY <1>2, <2>2
  <2> QED
    BY <1>1, <2>1, <2>3, <2>4 DEF Ascending
<1> QED
  BY <1>3, <1>4 DEF Above

-----------------------------------------------------------------------------
(* The requests of a connection, from the desktop's queue over the phone to *)
(* the queue back.                                                         *)

Configures == Ids(Range(d2p) \cup {dSending}, "configure")
Handed == {mcPending} \ {NoRequest}
Results == Ids(Range(p2d), "result")
InFlight == {m.id : m \in Configures \cup Handed \cup Results}

OutOrder ==
  /\ Ascending(d2p, "configure")
  /\ dSending.type = "configure" => Below(Ids(Range(d2p), "configure"), dSending.id)

Counted == \A id \in InFlight : id \in 1 .. dCounter

\* What the desktop puts on its way keeps the order.
LEMMA PostOrder ==
  ASSUME DTypeOK, OutOrder, dSending = NoMessage,
         NEW m \in DesktopMessage, Post(m), Below(Ids(Configures, "configure"), m.id) \/ m.type # "configure"
  PROVE  OutOrder' /\ Configures' = Configures \cup Ids({m}, "configure")
<1>1. d2p \in Seq(DesktopMessage) /\ NoMessage.type # "configure"
  BY DEF DTypeOK, LinkTypeOK, NoMessage
<1>2. Configures = Ids(Range(d2p), "configure")
  BY <1>1 DEF Configures, Ids
<1>3. m.type = "configure" => Below(Ids(Range(d2p), "configure"), m.id)
  BY <1>2 DEF Ids
<1>4. CASE DesktopCanSend
  <2>1. d2p' = Append(d2p, m) /\ dSending' = NoMessage
    BY <1>4 DEF Post
  <2>2. Range(d2p') = Range(d2p) \cup {m}
    BY <1>1, <2>1, AppendRange
  <2>3. Ascending(d2p', "configure")
    BY <1>1, <1>3, <2>1, AppendAscending DEF OutOrder
  <2> QED
    BY <1>1, <2>1, <2>2, <2>3 DEF OutOrder, Configures, Ids
<1>5. CASE ~DesktopCanSend
  <2>1. d2p' = d2p /\ dSending' = m
    BY <1>5 DEF Post
  <2> QED
    BY <1>1, <1>2, <1>3, <2>1 DEF OutOrder, Configures, Ids
<1> QED
  BY <1>4, <1>5

\* What a step of the stream task does to the requests in flight.
Keeps == Configures' = Configures /\ OutOrder' /\ dCounter' = dCounter
Asks ==
  /\ dCounter' = dCounter + 1
  /\ dPending' \in PendingConfiguration /\ dPending'.id = dCounter'
  /\ Configures' = Configures \cup {ConfigureStream(dCounter', dPending'.requested)}
  /\ OutOrder'
Reads == p2d # <<>> /\ p2d' = Tail(p2d)
Answer == dPending # NoPending /\ Head(p2d).type = "result" /\ Head(p2d).id = dPending.id

DesktopMoves ==
  \/ Keeps /\ dPending' = dPending /\ (UNCHANGED p2d \/ (Reads /\ ~Answer))
  \/ Keeps /\ dPending' = NoPending /\ Reads /\ Answer
  \/ Asks /\ dPending = NoPending /\ (UNCHANGED p2d \/ Reads)
  \/ Asks /\ Reads /\ Answer

\* A new request is above all that are in flight.
LEMMA SendConfigurationAsks ==
  ASSUME DTypeOK, OutOrder, Counted, dSending = NoMessage,
         NEW kind \in {"configure", "compensation"},
         NEW requested \in StreamProfile, NEW prior \in StreamProfile,
         NEW reply \in BOOLEAN,
         SendConfiguration(kind, requested, prior, reply)
  PROVE  Asks
<1>1. dCounter \in Nat /\ dCounter < RequestLimit
  BY RequestLimitAssumption DEF DTypeOK, DesktopTypeOK, RequestIds, SendConfiguration
<1>2. dCounter' = dCounter + 1
  <2>1. dCounter' = NextRequestId(dCounter, RequestLimit)
    BY DEF SendConfiguration
  <2>2. (dCounter + 1) % (RequestLimit + 1) = dCounter + 1
    BY <1>1, RequestLimitAssumption
  <2> QED
    BY <1>1, <2>1, <2>2 DEF NextRequestId
<1>3. dPending' \in PendingConfiguration
  BY SendConfigurationType
<1>4. dPending'.id = dCounter' /\ dPending'.requested = requested
  BY DEF SendConfiguration
<1> DEFINE m == ConfigureStream(dCounter', requested)
<1>5. m \in DesktopMessage
  BY <1>1, <1>2, RequestLimitAssumption DEF ConfigureStream, DesktopMessage, RequestIds
<1>6. m.id = dCounter' /\ m.type = "configure" /\ m.id # 0
  BY <1>1, <1>2 DEF ConfigureStream
<1>7. Below(Ids(Configures, "configure"), m.id)
  BY <1>1, <1>2, <1>6 DEF Counted, InFlight, Below, Ids
<1>8. Post(m)
  BY DEF SendConfiguration
<1> HIDE DEF m
<1>9. OutOrder' /\ Configures' = Configures \cup Ids({m}, "configure")
  BY <1>5, <1>7, <1>8, PostOrder
<1>10. Ids({m}, "configure") = {m}
  BY <1>6 DEF Ids
<1> QED
  BY <1>2, <1>3, <1>4, <1>9, <1>10 DEF Asks, m

\* Whatever is not a request keeps the requests as they are.
LEMMA PostKeeps ==
  ASSUME DTypeOK, OutOrder, dSending = NoMessage, Post(RequestKeyframe), UNCHANGED dCounter
  PROVE  Keeps
<1>1. RequestKeyframe \in DesktopMessage /\ RequestKeyframe.type # "configure"
  BY DEF DesktopMessage, RequestKeyframe
<1>2. Ids({RequestKeyframe}, "configure") = {}
  BY <1>1 DEF Ids
<1> QED
  BY <1>1, <1>2, PostOrder DEF Keeps

LEMMA StillKeeps ==
  ASSUME OutOrder, UNCHANGED <<d2p, dSending, dCounter>>
  PROVE  Keeps
  BY DEF Keeps, OutOrder, Configures

\* Every branch of the stream task that does not end it.
LEMMA DesktopQueues ==
  ASSUME DTypeOK, OutOrder, Counted,
         DesktopWorks \/ DesktopDisturbed,
         Streaming'
  PROVE  DesktopMoves
<1>0. /\ d2p \in Seq(DesktopMessage)
      /\ dPending \in PendingConfiguration \cup {NoPending}
      /\ dSending \in DesktopMessage \cup {NoMessage}
  BY DEF DTypeOK, LinkTypeOK, DesktopTypeOK
<1>1. ASSUME EndStream
      PROVE  FALSE
  BY <1>1 DEF EndStream, Streaming
<1>3. CASE CommandUnsupported \/ CommandPreflightFails \/ CommandAlreadyActive
  <2>1. UNCHANGED <<d2p, p2d, dSending, dCounter, dPending>>
    BY <1>3 DEF CommandUnsupported, CommandPreflightFails, CommandAlreadyActive, RejectCommand,
       CommandReady, linkVars
  <2> QED
    BY <2>1, StillKeeps DEF DesktopMoves
<1>4. CASE CommandSent
  <2>1. Requested \in StreamProfile /\ dActive \in StreamProfile
    BY <1>4, DesktopValues DEF CommandSent, DTypeOK, DesktopTypeOK
  <2>2. /\ dSending = NoMessage /\ dPending = NoPending
        /\ UNCHANGED p2d
        /\ SendConfiguration("configure", Requested, dActive, TRUE)
    BY <1>4 DEF CommandSent, CommandReady, Selecting
  <2>3. Asks
    BY <2>1, <2>2, SendConfigurationAsks
  <2> QED
    BY <2>2, <2>3 DEF DesktopMoves
<1>5. CASE UiSwitchCamera
  <2>1. /\ d2p' = Append(d2p, SwitchCamera)
        /\ UNCHANGED <<p2d, dSending, dCounter, dPending>>
    BY <1>5 DEF UiSwitchCamera, dVars
  <2>2. SwitchCamera \in DesktopMessage /\ SwitchCamera.type # "configure"
    BY DEF DesktopMessage, SwitchCamera
  <2>3. Range(d2p') = Range(d2p) \cup {SwitchCamera}
    BY <1>0, <2>1, <2>2, AppendRange
  <2>4. Ascending(d2p', "configure")
    BY <1>0, <2>1, <2>2, AppendAscending DEF OutOrder
  <2>5. Keeps
    BY <2>1, <2>2, <2>3, <2>4 DEF Keeps, OutOrder, Configures, Ids
  <2> QED
    BY <2>1, <2>5 DEF DesktopMoves
<1>6. ASSUME NEW mode \in Modes, NEW preference \in Preferences, UiConfigure(mode, preference)
      PROVE  DesktopMoves
  <2>1. UNCHANGED <<d2p, p2d, dSending, dCounter, dPending>>
    BY <1>6 DEF UiConfigure, linkVars
  <2> QED
    BY <2>1, StillKeeps DEF DesktopMoves
<1>7. ASSUME NEW kind \in dDecoding, WriteFrame(kind)
      PROVE  DesktopMoves
  <2>1. UNCHANGED <<d2p, p2d, dSending, dCounter, dPending>>
    BY <1>7 DEF WriteFrame, linkVars
  <2> QED
    BY <2>1, StillKeeps DEF DesktopMoves
<1>8. CASE RecoveryRequired
  <2>1. /\ UNCHANGED <<p2d, dCounter, dPending>>
        /\ dSending = NoMessage /\ Post(RequestKeyframe)
    BY <1>8 DEF RecoveryRequired, Selecting
  <2> QED
    BY <2>1, PostKeeps DEF DesktopMoves
<1>9. CASE FinishSend
  <2>1. /\ d2p' = Append(d2p, dSending) /\ dSending' = NoMessage
        /\ UNCHANGED <<p2d, dCounter, dPending>> /\ dSending \in DesktopMessage
    BY <1>0, <1>9 DEF FinishSend
  <2>2. Range(d2p') = Range(d2p) \cup {dSending}
    BY <1>0, <2>1, AppendRange
  <2>3. Ascending(d2p', "configure")
    BY <1>0, <2>1, AppendAscending DEF OutOrder
  <2>4. NoMessage.type # "configure"
    BY DEF NoMessage
  <2>5. Keeps
    BY <2>1, <2>2, <2>3, <2>4 DEF Keeps, OutOrder, Configures, Ids
  <2> QED
    BY <2>1, <2>5 DEF DesktopMoves
<1>10. CASE DropFrame \/ AcceptFrame \/ ReceiveCapabilities
  <2>1. /\ UNCHANGED <<d2p, dSending, dCounter, dPending>>
        /\ Reads /\ Head(p2d).type # "result"
    BY <1>10 DEF DropFrame, AcceptFrame, ReceiveCapabilities, Receiving, Selecting, Reads, dVars
  <2> QED
    BY <2>1, StillKeeps DEF DesktopMoves, Answer
<1>11. CASE FrameBacklog
  <2>1. /\ dSending = NoMessage
        /\ UNCHANGED <<dCounter, dPending>>
        /\ Reads /\ Head(p2d).type # "result"
    BY <1>11 DEF FrameBacklog, Receiving, Selecting, Reads
  <2>2. Post(RequestKeyframe) \/ UNCHANGED <<d2p, dSending>>
    BY <1>11, Zenon DEF FrameBacklog
  <2>3. Keeps
    BY <2>1, <2>2, PostKeeps, StillKeeps
  <2> QED
    BY <2>1, <2>3 DEF DesktopMoves, Answer
<1>12. CASE IgnoreResult \/ UnsolicitedDropped \/ UnsolicitedAdopted
  <2>1. /\ UNCHANGED <<d2p, dSending, dCounter, dPending>>
        /\ Reads /\ ~Answer
    BY <1>12 DEF IgnoreResult, UnsolicitedDropped, UnsolicitedAdopted, Unsolicited, Receiving,
       Selecting, Reads, Answer, Result, dVars
  <2> QED
    BY <2>1, StillKeeps DEF DesktopMoves
<1>13. CASE UnsolicitedCompensated
  <2>1. /\ dSending = NoMessage /\ dPending = NoPending
        /\ Reads /\ SendConfiguration("compensation", dActive, dActive, FALSE)
    BY <1>13 DEF UnsolicitedCompensated, Unsolicited, Receiving, Selecting, Reads
  <2>2. Asks
    BY <2>1, SendConfigurationAsks DEF DTypeOK, DesktopTypeOK
  <2> QED
    BY <2>1, <2>2 DEF DesktopMoves
<1>14. CASE ConfigureApplied \/ ConfigureRejected \/ CompensationApplied
  <2>1. /\ UNCHANGED <<d2p, dSending, dCounter>>
        /\ dPending' = NoPending /\ Reads /\ Answer
    BY <1>14, Absences DEF ConfigureApplied, ConfigureRejected, CompensationApplied,
       AnswersPending, Receiving, Selecting, Reads, Answer, Result
  <2> QED
    BY <2>1, StillKeeps DEF DesktopMoves
<1>15. CASE ConfigureCompensated
  <2>1. /\ dSending = NoMessage
        /\ Reads /\ Answer
        /\ SendConfiguration("compensation", dPending.prior, dPending.prior, dPending.reply)
    BY <1>15, Absences DEF ConfigureCompensated, AnswersPending, Receiving, Selecting, Reads,
       Answer, Result
  <2>2. dPending.prior \in StreamProfile /\ dPending.reply \in BOOLEAN
    BY <1>0, <2>1 DEF Answer, PendingConfiguration
  <2>3. Asks
    BY <2>1, <2>2, SendConfigurationAsks
  <2> QED
    BY <2>1, <2>3 DEF DesktopMoves
<1>16. CASE SeeDisconnect \/ ExpireCompensation \/ Shutdown \/ DecoderOrOutputFails
            \/ CompensationFails \/ \E kind \in dDecoding : FrameRefused(kind)
  BY <1>1, <1>16 DEF SeeDisconnect, ExpireCompensation, Shutdown, DecoderOrOutputFails,
     CompensationFails, FrameRefused
<1>17. CASE DesktopReceives
  BY <1>10, <1>11, <1>12, <1>13, <1>14, <1>15, <1>16, <1>17 DEF DesktopReceives
<1>18. CASE DesktopDecodes
  BY <1>7, <1>8, <1>16, <1>18 DEF DesktopDecodes
<1>19. CASE DesktopDisturbed
  BY <1>3, <1>5, <1>6, <1>16, <1>19 DEF DesktopDisturbed
<1> QED
  BY <1>3, <1>4, <1>9, <1>16, <1>17, <1>18, <1>19 DEF DesktopWorks, DesktopCommands

-----------------------------------------------------------------------------
(* Requests keep their order, and the pending one is somewhere.            *)

InOrder ==
  /\ OutOrder /\ Ascending(p2d, "result")
  /\ \A r \in Results : Above(r.id, Handed \cup Configures)
  /\ \A h \in Handed : Above(h.id, Configures)

Underway == dPending # NoPending => dPending.id \in InFlight

\* Until a deadline passes there is one request at a time.
Single == ~expired => \A id \in InFlight : dPending # NoPending /\ id = dPending.id

\* What the phone works on is what was asked for, and what it answers keeps
\* the mode.
Fits ==
  dPending # NoPending =>
    /\ \A m \in Configures \cup Handed : m.id = dPending.id => m.profile = dPending.requested
    /\ \A m \in Results : m.id = dPending.id /\ m.profile # NoProfile =>
         m.profile.mode = dPending.requested.mode

RequestsInv == InOrder /\ Counted /\ Underway /\ Single /\ Fits

\* Ids of messages are numbers.
LEMMA InFlightType ==
  ASSUME TypeOK
  PROVE  /\ \A m \in Configures : m \in DesktopMessage /\ m.id \in Nat \ {0}
         /\ \A m \in Handed : m \in Request /\ m.id \in Nat \ {0}
         /\ \A m \in Results : m \in PhoneMessage /\ m.id \in Nat \ {0}
         /\ dPending # NoPending => dPending.id \in Nat \ {0}
         /\ dCounter \in Nat
<1>1. \A m \in Range(d2p) : m \in DesktopMessage
  BY DEF TypeOK, LinkTypeOK, Range
<1>2. \A m \in Range(p2d) : m \in PhoneMessage
  BY DEF TypeOK, LinkTypeOK, Range
<1>3. /\ dSending \in DesktopMessage \cup {NoMessage} /\ NoMessage.type = "none"
      /\ mcPending \in Request \cup {NoRequest}
      /\ dPending \in PendingConfiguration \cup {NoPending}
      /\ dCounter \in RequestIds \cup {0}
  BY DEF TypeOK, DesktopTypeOK, MobileTypeOK, NoMessage
<1>4. RequestIds \subseteq Nat \ {0}
  BY RequestLimitAssumption DEF RequestIds
<1>5. \A m \in DesktopMessage : m.type = "configure" => m.id \in RequestIds
  BY DEF DesktopMessage, RequestKeyframe, SwitchCamera
<1>6. \A m \in PhoneMessage : m.type = "result" => m.id \in RequestIds \cup {0}
  BY DEF PhoneMessage
<1>7. \A m \in Request : m.id \in RequestIds
  BY DEF Request
<1>8. \A m \in PendingConfiguration : m.id \in RequestIds
  BY DEF PendingConfiguration
<1>9. \A m \in Configures : m \in DesktopMessage /\ m.type = "configure"
  BY <1>1, <1>3 DEF Configures, Ids
<1>10. \A m \in Results : m \in PhoneMessage /\ m.type = "result" /\ m.id # 0
  BY <1>2 DEF Results, Ids
<1>11. \A m \in Configures : m \in DesktopMessage /\ m.id \in Nat \ {0}
  BY <1>4, <1>5, <1>9
<1>12. \A m \in Handed : m \in Request /\ m.id \in Nat \ {0}
  BY <1>3, <1>4, <1>7 DEF Handed
<1>13. \A m \in Results : m \in PhoneMessage /\ m.id \in Nat \ {0}
  BY <1>4, <1>6, <1>10
<1>14. dPending # NoPending => dPending.id \in Nat \ {0}
  BY <1>3, <1>4, <1>8
<1>15. dCounter \in Nat
  BY <1>3, RequestLimitAssumption DEF RequestIds
<1> QED
  BY <1>11, <1>12, <1>13, <1>14, <1>15

\* Reading takes one message off the queue; the answer taken off is below
\* whatever is left.
LEMMA ReadsResults ==
  ASSUME TypeOK, InOrder, Reads
  PROVE  /\ Ascending(p2d', "result")
         /\ Results' \subseteq Results
         /\ ~Answer => \A m \in Results : m \in Results' \/ dPending = NoPending \/ m.id # dPending.id
         /\ Answer => /\ Head(p2d) \in Results
                      /\ Above(dPending.id, Results' \cup Handed \cup Configures)
<1>1. p2d \in Seq(PhoneMessage) /\ p2d # <<>> /\ p2d' = Tail(p2d)
  BY DEF TypeOK, LinkTypeOK, Reads
<1>2. Range(p2d) = {Head(p2d)} \cup Range(p2d')
  BY <1>1, TailRange
<1>3. Ascending(p2d', "result")
  BY <1>1, TailAscending DEF InOrder
<1>4. Results' \subseteq Results
  BY <1>2 DEF Results, Ids
<1>5. ASSUME ~Answer, NEW m \in Results, dPending # NoPending
      PROVE  m \in Results' \/ m.id # dPending.id
  BY <1>2, <1>5 DEF Results, Ids, Answer
<1>6. ASSUME Answer
      PROVE  /\ Head(p2d) \in Results
             /\ Above(dPending.id, Results' \cup Handed \cup Configures)
  <2>1. Head(p2d).type = "result" /\ Head(p2d).id = dPending.id /\ Head(p2d).id # 0
    BY <1>6, InFlightType DEF Answer
  <2>2. Head(p2d) \in Results
    BY <1>2, <2>1 DEF Results, Ids
  <2>3. Above(dPending.id, Results')
    BY <1>1, <2>1, TailAscending DEF InOrder, Results
  <2>4. Above(dPending.id, Handed \cup Configures)
    BY <2>1, <2>2 DEF InOrder
  <2> QED
    BY <2>2, <2>3, <2>4 DEF Above
<1> QED
  BY <1>3, <1>4, <1>5, <1>6

\* The stream task's part.
LEMMA DesktopMovesInv ==
  ASSUME TypeOK, RequestsInv, DesktopMoves, UNCHANGED <<mcPending, expired>>
  PROVE  RequestsInv'
<1> USE DEF RequestsInv
<1>1. /\ \A m \in Configures \cup Handed \cup Results : m.id \in Nat \ {0} /\ m.id <= dCounter
      /\ dPending # NoPending => dPending.id \in Nat \ {0}
      /\ dCounter \in Nat
      /\ Handed' = Handed
  BY InFlightType DEF Counted, InFlight, Handed
<1>2. /\ Ascending(p2d', "result") /\ Results' \subseteq Results
      /\ UNCHANGED p2d \/ Reads
  BY ReadsResults DEF DesktopMoves, InOrder, Results
<1>3. CASE Keeps
  <2>1. Configures' = Configures /\ OutOrder' /\ dCounter' = dCounter
    BY <1>3 DEF Keeps
  <2>2. InFlight' \subseteq InFlight
    BY <1>1, <1>2, <2>1 DEF InFlight
  <2>3. InOrder' /\ Counted'
    BY <1>1, <1>2, <2>1, <2>2 DEF InOrder, Above, Counted
  <2>4. CASE dPending' = dPending /\ (UNCHANGED p2d \/ (Reads /\ ~Answer))
    <3>1. Underway'
      <4>1. \A m \in Results : m \in Results' \/ dPending = NoPending \/ m.id # dPending.id
        BY <2>4, ReadsResults DEF Results
      <4> QED
        BY <1>1, <2>1, <2>4, <4>1 DEF Underway, InFlight
    <3>2. Single' /\ Fits'
      BY <1>1, <1>2, <2>1, <2>2, <2>4 DEF Single, Fits
    <3> QED
      BY <2>3, <3>1, <3>2
  <2>5. CASE dPending' = NoPending /\ Reads /\ Answer
    <3>1. Above(dPending.id, Results' \cup Handed \cup Configures) /\ dPending # NoPending
      BY <2>5, ReadsResults DEF Answer
    <3>2. \A m \in Configures' \cup Handed' \cup Results' : m.id # dPending.id
      BY <1>1, <1>2, <2>1, <3>1 DEF Above
    <3>3. Single'
      BY <2>2, <3>2 DEF Single, InFlight
    <3> QED
      BY <2>3, <2>5, <3>3 DEF Underway, Fits
  <2>6. CASE Asks
    BY <1>1, <2>1, <2>6 DEF Asks
  <2> QED
    BY <1>3, <2>4, <2>5, <2>6 DEF DesktopMoves
<1>4. CASE Asks
  <2> DEFINE new == ConfigureStream(dCounter', dPending'.requested)
  <2>1. /\ dCounter' = dCounter + 1 /\ dPending'.id = dCounter' /\ dPending' # NoPending
        /\ Configures' = Configures \cup {new} /\ OutOrder'
        /\ new.id = dCounter' /\ new.profile = dPending'.requested
    BY <1>4, Absences DEF Asks, ConfigureStream
  <2> HIDE DEF new
  <2>2. InOrder'
    BY <1>1, <1>2, <2>1 DEF InOrder, Above
  <2>3. Counted'
    BY <1>1, <1>2, <2>1 DEF Counted, InFlight
  <2>4. Underway'
    BY <2>1 DEF Underway, InFlight
  <2>5. Fits'
    BY <1>1, <1>2, <2>1 DEF Fits
  <2>6. Single'
    <3>1. ASSUME ~expired
          PROVE  Configures = {} /\ Handed = {} /\ Results' = {}
      <4>1. CASE dPending = NoPending
        BY <1>2, <3>1, <4>1 DEF Single, InFlight
      <4>2. CASE dPending # NoPending
        <5>1. Above(dPending.id, Results' \cup Handed \cup Configures)
          BY <1>1, <1>4, <4>2, ReadsResults DEF DesktopMoves, Keeps, Asks
        <5>2. \A m \in Configures \cup Handed \cup Results' : m.id # dPending.id
          BY <1>1, <1>2, <5>1 DEF Above
        <5>3. \A m \in Configures \cup Handed \cup Results' : m.id = dPending.id
          BY <1>2, <3>1 DEF Single, InFlight
        <5> QED
          BY <5>2, <5>3
      <4> QED
        BY <4>1, <4>2
    <3> QED
      BY <1>1, <2>1, <3>1 DEF Single, InFlight
  <2> QED
    BY <2>2, <2>3, <2>4, <2>5, <2>6
<1> QED
  BY <1>3, <1>4 DEF DesktopMoves

\* With the queues and the client's request as they were, nothing is lost.
LEMMA SameRequests ==
  ASSUME RequestsInv, UNCHANGED <<d2p, p2d, dSending, mcPending, dPending, dCounter, expired>>
  PROVE  RequestsInv'
<1>1. /\ Configures' = Configures /\ Handed' = Handed /\ Results' = Results
      /\ UNCHANGED <<dPending, dCounter, expired>>
  BY DEF Configures, Handed, Results
<1>2. OutOrder' /\ Ascending(p2d', "result")
  BY DEF RequestsInv, InOrder, OutOrder
<1> QED
  BY <1>1, <1>2 DEF RequestsInv, InOrder, Counted, Underway, Single, Fits, InFlight, Above

\* A deadline forgets the request and nothing else.
LEMMA ExpireRequests ==
  ASSUME RequestsInv, Expire, expired' = TRUE, UNCHANGED mcPending
  PROVE  RequestsInv'
<1>1. UNCHANGED <<d2p, p2d, dSending, dCounter>> /\ dPending' = NoPending
  BY DEF Expire, linkVars
<1> QED
  BY <1>1 DEF RequestsInv, InOrder, OutOrder, Counted, Underway, Single, Fits, InFlight, Configures,
     Handed, Results

\* What a phone does to its client and the queues, both managers alike.
PhoneMoves ==
  \/ UNCHANGED <<linkVars, mcVars>>
  \/ CanPoll /\ d2p # <<>> /\ PollControl
  \/ \E profiles \in SUBSET StreamProfile : UpdateCapabilities(profiles)
  \/ \E keyframe \in BOOLEAN, kind \in FrameKind : SendVideoFrame(kind, keyframe)
  \/ ReportConfiguration(0, NoProfile)
  \/ appPc = "report" /\ ReportConfiguration(appRequest.id, appApplied)
  \/ CloseClient

LEMMA AndroidMoves ==
  ASSUME PhoneTypeOK, AndroidWorks
  PROVE  PhoneMoves
<1>1. CASE TakeConfigure \/ TakeKeyframeRequest \/ TakeSwitchCamera
  BY <1>1 DEF TakeConfigure, TakeKeyframeRequest, TakeSwitchCamera, NextControl, PhoneMoves
<1>2. CASE NoticeDisconnect
  BY <1>2 DEF NoticeDisconnect, PollDisconnected, PhoneMoves
<1>3. CASE CandidateApplied \/ CandidatesExhausted
  BY <1>3 DEF CandidateApplied, CandidatesExhausted, PhoneMoves
<1>4. CASE CandidateFails
  <2>1. appAvail \ {Candidate} \in SUBSET StreamProfile
    BY DEF PhoneTypeOK
  <2> QED
    BY <1>4, <2>1 DEF CandidateFails, PhoneMoves
<1>5. CASE Report
  BY <1>5 DEF Report, ReportDone, PhoneMoves
<1> QED
  BY <1>1, <1>2, <1>3, <1>4, <1>5 DEF AndroidWorks, Poll, Configure

LEMMA IosMoves ==
  ASSUME PhoneTypeOK, IosWorks \/ IosUser \/ RefreshStatus
  PROVE  PhoneMoves
<1>1. CASE HandleConfigure \/ HandleKeyframeRequest \/ HandleSwitchCamera
  BY <1>1 DEF HandleConfigure, HandleKeyframeRequest, HandleSwitchCamera, NextControl, PhoneMoves
<1>2. CASE HandleDisconnect
  BY <1>2 DEF HandleDisconnect, PollDisconnected, PhoneMoves
<1>3. CASE SwitchCompletes
  BY <1>3, CamerasAssumption DEF SwitchCompletes, PhoneMoves
<1>4. CASE PrepareSucceeds \/ ApplySucceeds \/ RefreshStatus
  BY <1>4 DEF PrepareSucceeds, ApplySucceeds, RefreshStatus, PhoneMoves
<1>5. CASE PrepareFails \/ ApplyFails
  <2>1. appAvail \ {appRequest.profile} \in SUBSET StreamProfile
    BY DEF PhoneTypeOK
  <2> QED
    BY <1>5, <2>1 DEF PrepareFails, ApplyFails, Withdraw, PhoneMoves
<1>6. CASE IosReport
  BY <1>6 DEF IosReport, ReportDone, Tell, PhoneMoves
<1>7. CASE RestoreCompletes
  BY <1>7 DEF RestoreCompletes, PhoneMoves, linkVars, mcVars
<1>8. CASE IosUser
  BY <1>8 DEF IosUser, ChoiceRefused, ChooseProfile, Tell, PhoneMoves
<1> QED
  BY <1>1, <1>2, <1>3, <1>4, <1>5, <1>6, <1>7, <1>8 DEF IosWorks

-----------------------------------------------------------------------------
(* What a manager works on, and what its client has handed out.            *)

\* What is reported as applied is what the encoder runs at.
ReportsActive == appPc = "report" /\ appApplied # NoProfile => appApplied = appActive

\* The client's profile is the encoder's, or the encoder is one report ahead.
ClientFollows ==
  ~refused => mcActive = appActive \/ (appPc = "report" /\ appApplied # NoProfile)

\* The numbered request in work is the one the client has handed out, and one
\* that is handed out is worked on.
WorkIsHanded == mcPending # NoRequest /\ appRequest.id # 0 => appRequest = mcPending
HandedIsWork ==
  mcPending # NoRequest /\ ~refused =>
    appRequest = mcPending /\ appPc \in {"apply", "prepare", "configure", "report"}

\* Whatever is tried or applied has the mode that was asked for.
AppliedFits ==
  appApplied # NoProfile =>
    appRequest # NoRequest /\ appApplied.mode = appRequest.profile.mode
CandidatesFit ==
  appPc = "apply" =>
    /\ appRequest # NoRequest /\ appApplied = NoProfile
    /\ \A i \in DOMAIN appLeft : appLeft[i].mode = appRequest.profile.mode

WorkInv ==
  ReportsActive /\ ClientFollows /\ WorkIsHanded /\ HandedIsWork /\ AppliedFits /\ CandidatesFit

\* A message that is no numbered result leaves the results as they are.
LEMMA AppendOther ==
  ASSUME TypeOK, InOrder, NEW m \in PhoneMessage, m.type # "result" \/ m.id = 0,
         p2d' = Append(p2d, m)
  PROVE  Ascending(p2d', "result") /\ Results' = Results
<1>1. p2d \in Seq(PhoneMessage)
  BY DEF TypeOK, LinkTypeOK
<1>2. Range(p2d') = Range(p2d) \cup {m}
  BY <1>1, AppendRange
<1>3. Ascending(p2d', "result")
  BY <1>1, AppendAscending DEF InOrder
<1> QED
  BY <1>2, <1>3 DEF Results, Ids

\* A request goes from the queue into the phone's hands.
LEMMA HearsInv ==
  ASSUME TypeOK, RequestsInv, CanPoll, d2p # <<>>, PollControl, UNCHANGED <<dVars, expired>>
  PROVE  RequestsInv'
<1> USE DEF RequestsInv
<1> DEFINE m == Head(d2p)
<1>1. /\ d2p \in Seq(DesktopMessage) /\ d2p' = Tail(d2p) /\ p2d' = p2d
      /\ Handed = {} /\ UNCHANGED <<dSending, dPending, dCounter, expired>>
  BY DEF TypeOK, LinkTypeOK, CanPoll, PollControl, dVars, Handed
<1>2. /\ Range(d2p) = {m} \cup Range(d2p')
      /\ Ascending(d2p', "configure")
      /\ m.type = "configure" /\ m.id # 0 => Above(m.id, Ids(Range(d2p'), "configure"))
      /\ m \in DesktopMessage
  BY <1>1, TailRange, TailAscending, QueueType DEF InOrder, OutOrder
<1>3. Results' = Results
  BY <1>1 DEF Results
<1>4. OutOrder'
  BY <1>1, <1>2 DEF InOrder, OutOrder, Below, Ids
<1> HIDE DEF m
<1>5. CASE m.type # "configure"
  <2>1. Configures' = Configures
    BY <1>1, <1>2, <1>5 DEF Configures, Ids
  <2>2. Handed' = Handed
    BY <1>1, <1>5 DEF PollControl, Handed, m
  <2>3. InFlight' = InFlight
    BY <1>3, <2>1, <2>2 DEF InFlight
  <2>4. InOrder'
    BY <1>1, <1>3, <1>4, <2>1, <2>2 DEF InOrder, Above
  <2> QED
    BY <1>1, <1>3, <2>1, <2>2, <2>3, <2>4 DEF Counted, Underway, Single, Fits
<1>6. CASE m.type = "configure"
  <2> DEFINE handed == [id |-> m.id, profile |-> m.profile]
  <2>1. m.id # 0 /\ m \in Configures
    BY <1>2, <1>6, RequestLimitAssumption
    DEF Configures, Ids, DesktopMessage, RequestIds, RequestKeyframe, SwitchCamera
  <2>2. Configures = {m} \cup Configures' /\ Above(m.id, Configures')
    <3>1. Configures = {m} \cup Configures'
      BY <1>1, <1>2, <1>6, <2>1 DEF Configures, Ids
    <3>2. ASSUME NEW c \in Configures'
          PROVE  m.id < c.id
      <4>1. CASE c \in Range(d2p')
        BY <1>2, <1>6, <2>1, <3>2, <4>1 DEF Configures, Ids, Above
      <4>2. CASE c = dSending
        <5>1. m \in Ids(Range(d2p), "configure") /\ dSending.type = "configure"
          BY <1>1, <1>2, <1>6, <2>1, <3>2, <4>2 DEF Configures, Ids
        <5> QED
          BY <4>2, <5>1 DEF InOrder, OutOrder, Below
      <4> QED
        BY <1>1, <3>2, <4>1, <4>2 DEF Configures, Ids
    <3> QED
      BY <3>1, <3>2 DEF Above
  <2>3. Handed' = {handed} /\ handed.id = m.id /\ handed.profile = m.profile
    BY <1>6, <2>1 DEF PollControl, Handed, m, NoRequest
  <2> HIDE DEF handed
  <2>4. InFlight' = InFlight
    BY <1>1, <1>3, <2>2, <2>3 DEF InFlight
  <2>5. InOrder'
    BY <1>1, <1>3, <1>4, <2>1, <2>2, <2>3 DEF InOrder, Above
  <2>6. Fits'
    BY <1>1, <1>3, <2>1, <2>2, <2>3 DEF Fits
  <2> QED
    BY <1>1, <2>4, <2>5, <2>6 DEF Counted, Underway, Single
<1> QED
  BY <1>5, <1>6

\* A request goes from the phone's hands into the queue back, as a result.
LEMMA ReportsInv ==
  ASSUME TypeOK, RequestsInv, WorkInv, UNCHANGED <<dVars, expired>>,
         NEW id \in RequestIds \cup {0}, NEW applied \in StreamProfile \cup {NoProfile},
         id # 0 => id = appRequest.id /\ applied = appApplied,
         ReportConfiguration(id, applied)
  PROVE  RequestsInv'
<1> USE DEF RequestsInv
<1> DEFINE m == ConfigurationResult(id, applied)
<1>0. /\ m \in PhoneMessage /\ m.type = "result" /\ m.id = id /\ m.profile = applied
      /\ UNCHANGED <<dSending, dPending, dCounter, expired>>
      /\ p2d \in Seq(PhoneMessage)
  BY DEF ConfigurationResult, PhoneMessage, dVars, TypeOK, LinkTypeOK
<1> HIDE DEF m
<1>1. CASE ~ReportAccepted(id, applied)
  <2>1. UNCHANGED <<d2p, p2d, mcPending>>
    BY <1>1 DEF ReportConfiguration, linkVars, mcVars
  <2> QED
    BY <1>0, <2>1, SameRequests
<1>2. CASE ReportAccepted(id, applied)
  <2>1. /\ p2d' = Append(p2d, m) /\ d2p' = d2p
        /\ mcPending' = IF id = 0 THEN mcPending ELSE NoRequest
        /\ id # 0 => id = mcPending.id
    BY <1>2 DEF ReportConfiguration, ReportAccepted, m
  <2>2. Configures' = Configures /\ OutOrder'
    BY <1>0, <2>1 DEF Configures, InOrder, OutOrder
  <2>3. CASE id = 0
    <3>1. Ascending(p2d', "result") /\ Results' = Results /\ Handed' = Handed
      BY <1>0, <2>1, <2>3, AppendOther DEF Handed
    <3> QED
      BY <1>0, <2>2, <3>1 DEF InOrder, Counted, Underway, Single, Fits, InFlight, Above
  <2>4. CASE id # 0
    <3>1. mcPending # NoRequest /\ Handed = {mcPending} /\ Handed' = {}
      BY <2>1, <2>4 DEF NoRequest, Handed
    <3>2. Range(p2d') = Range(p2d) \cup {m}
      BY <1>0, <2>1, AppendRange
    <3>3. Results' = Results \cup {m}
      BY <1>0, <2>4, <3>2 DEF Results, Ids
    <3>4. Below(Results, m.id)
      BY <1>0, <2>1, <2>4, <3>1 DEF InOrder, Above, Below
    <3>5. Ascending(p2d', "result")
      BY <1>0, <2>1, <3>4, AppendAscending DEF InOrder, Results
    <3>6. InFlight' = InFlight
      BY <1>0, <2>1, <2>2, <2>4, <3>1, <3>3 DEF InFlight
    <3>7. InOrder'
      BY <1>0, <2>1, <2>2, <2>4, <3>1, <3>3, <3>5 DEF InOrder, Above
    <3>8. Fits'
      <4>1. appRequest = mcPending /\ (applied # NoProfile => applied.mode = mcPending.profile.mode)
        BY <2>1, <2>4, <3>1 DEF WorkInv, WorkIsHanded, AppliedFits
      <4> QED
        BY <1>0, <2>1, <2>2, <2>4, <3>1, <3>3, <4>1 DEF Fits
    <3> QED
      BY <1>0, <3>6, <3>7, <3>8 DEF Counted, Underway, Single
  <2> QED
    BY <2>3, <2>4
<1> QED
  BY <1>1, <1>2

\* The phone's part, as long as it stays connected.
LEMMA PhoneMovesInv ==
  ASSUME TypeOK, RequestsInv, WorkInv, PhoneMoves, UNCHANGED <<dVars, expired>>, mcOpen'
  PROVE  RequestsInv'
<1> USE DEF RequestsInv
<1>0. UNCHANGED <<dSending, dPending, dCounter, expired>>
  BY DEF dVars
<1>1. CASE UNCHANGED <<d2p, p2d, mcPending>>
  BY <1>0, <1>1, SameRequests
<1>2. ASSUME NEW m \in PhoneMessage, m.type # "result", p2d' = Append(p2d, m),
             UNCHANGED <<d2p, mcPending>>
      PROVE  RequestsInv'
  <2>1. /\ Ascending(p2d', "result") /\ Results' = Results /\ Handed' = Handed
        /\ Configures' = Configures /\ OutOrder'
    BY <1>0, <1>2, AppendOther DEF Handed, Configures, InOrder, OutOrder
  <2> QED
    BY <1>0, <2>1 DEF InOrder, Counted, Underway, Single, Fits, InFlight
<1>3. CASE CanPoll /\ d2p # <<>> /\ PollControl
  BY <1>3, HearsInv
<1>4. ASSUME NEW profiles \in SUBSET StreamProfile, UpdateCapabilities(profiles)
      PROVE  RequestsInv'
  <2>1. CapabilitiesUpdate(profiles) \in PhoneMessage /\ CapabilitiesUpdate(profiles).type # "result"
    BY DEF CapabilitiesUpdate, PhoneMessage
  <2> QED
    BY <1>1, <1>2, <1>4, <2>1 DEF UpdateCapabilities, linkVars, mcVars
<1>5. ASSUME NEW keyframe \in BOOLEAN, NEW kind \in FrameKind, SendVideoFrame(kind, keyframe)
      PROVE  RequestsInv'
  <2>1. VideoFrame(kind, keyframe) \in PhoneMessage /\ VideoFrame(kind, keyframe).type # "result"
    BY DEF VideoFrame, PhoneMessage
  <2> QED
    BY <1>2, <1>5, <2>1 DEF SendVideoFrame, mcVars
<1>6. CASE ReportConfiguration(0, NoProfile)
  BY <1>6, ReportsInv
<1>7. CASE ReportConfiguration(appRequest.id, appApplied)
  <2>1. appRequest.id \in RequestIds \cup {0} /\ appApplied \in StreamProfile \cup {NoProfile}
    BY WorkType DEF TypeOK, PhoneTypeOK
  <2> QED
    BY <1>7, <2>1, ReportsInv
<1>8. CASE CloseClient
  BY <1>8 DEF CloseClient
<1> QED
  BY <1>1, <1>3, <1>4, <1>5, <1>6, <1>7, <1>8 DEF PhoneMoves, linkVars, mcVars

\* The end of a piece of work.  A report that says something and is lost is
\* what refused remembers.
LEMMA ReportWork ==
  ASSUME MobileTypeOK, WorkInv, ReportDone,
         \/ ReportAccepted(appRequest.id, appApplied)
            /\ ReportConfiguration(appRequest.id, appApplied)
         \/ UNCHANGED mcVars /\ (refused' \/ (appRequest.id = 0 /\ appApplied = NoProfile)),
         ~refused' => ~refused
  PROVE  WorkInv'
<1> USE DEF WorkInv, ReportDone
<1>1. ReportsActive' /\ WorkIsHanded' /\ AppliedFits' /\ CandidatesFit'
  BY DEF ReportsActive, WorkIsHanded, AppliedFits, CandidatesFit, NoRequest
<1>2. ASSUME ~refused'
      PROVE  mcPending' = NoRequest
  <2>1. mcPending # NoRequest => appRequest = mcPending
    BY <1>2 DEF HandedIsWork
  <2>2. appRequest.id = 0 => mcPending = NoRequest
    BY <2>1, RequestLimitAssumption DEF MobileTypeOK, Request, RequestIds
  <2>3. CASE ReportAccepted(appRequest.id, appApplied)
             /\ ReportConfiguration(appRequest.id, appApplied)
    BY <2>3, <2>2 DEF ReportConfiguration, ReportAccepted, mcVars
  <2>4. CASE UNCHANGED mcVars /\ appRequest.id = 0
    BY <2>4, <2>2 DEF mcVars
  <2> QED
    BY <1>2, <2>3, <2>4
<1>3. HandedIsWork'
  BY <1>2 DEF HandedIsWork
<1>4. ASSUME ~refused'
      PROVE  mcActive' = appActive'
  <2>1. appApplied = NoProfile => mcActive = appActive
    BY <1>4 DEF ClientFollows
  <2>2. appApplied # NoProfile => appApplied = appActive
    BY DEF ReportsActive
  <2> QED
    BY <1>4, <2>1, <2>2 DEF ReportConfiguration, mcVars
<1> QED
  BY <1>1, <1>3, <1>4 DEF ClientFollows

\* Candidates keep the mode that was asked for.
LEMMA CandidatesMode ==
  ASSUME NEW requested \in StreamProfile, NEW supported,
         NEW i \in DOMAIN ConfigurationCandidates(requested, supported)
  PROVE  ConfigurationCandidates(requested, supported)[i].mode = requested.mode
<1> DEFINE twin == [requested EXCEPT !.codec = "h264"]
<1>1. twin.mode = requested.mode
  BY DEF StreamProfile
<1> HIDE DEF twin
<1>2. \/ ConfigurationCandidates(requested, supported) = <<requested, twin>>
      \/ ConfigurationCandidates(requested, supported) = <<requested>>
  BY DEF ConfigurationCandidates, twin
<1> QED
  BY <1>1, <1>2

\* What the client does when it is told of new profiles, or of nothing.
LEMMA CapabilitiesKeep ==
  ASSUME NEW profiles, UpdateCapabilities(profiles)
  PROVE  UNCHANGED <<mcOpen, mcActive, mcPending>>
  BY DEF UpdateCapabilities, mcVars

LEMMA AndroidWork ==
  ASSUME TypeOK, WorkInv, AndroidWorks, phone = "android",
         refused' = (refused \/ ReportLost)
  PROVE  WorkInv'
<1> USE DEF WorkInv
<1>0. /\ ~refused' => ~refused /\ ~ReportLost
      /\ MobileTypeOK /\ PhoneTypeOK
  BY Zenon DEF TypeOK
<1>1. CASE TakeConfigure
  <2> DEFINE wanted == Head(d2p).profile
             request == [id |-> Head(d2p).id, profile |-> wanted]
  <2>1. /\ appPc = "idle" /\ mcPending' = request /\ appRequest' = request
        /\ UNCHANGED <<mcActive, appActive, appAvail>>
    BY <1>1 DEF TakeConfigure, PollerReady, NextControl, PollControl
  <2>2. wanted \in StreamProfile /\ request \in Request /\ request # NoRequest
    <3>1. MTypeOK
      BY DEF TypeOK, MTypeOK
    <3>2. Head(d2p).id \in RequestIds /\ wanted \in StreamProfile
      BY <1>1, <3>1, PollControlType DEF TakeConfigure
    <3> QED
      BY <3>2, RequestLimitAssumption DEF Request, NoRequest, RequestIds
  <2> HIDE DEF request
  <2>3. /\ ~refused' => mcActive = appActive
        /\ request.profile = wanted
    BY <1>0, <2>1 DEF ClientFollows, request
  <2>4. CASE wanted \notin appAvail \/ wanted = appActive
    <3>1. appPc' = "report" /\ appApplied' = IF wanted \in appAvail THEN wanted ELSE NoProfile
      BY <1>1, <2>4 DEF TakeConfigure
    <3> QED
      BY <1>0, <2>1, <2>2, <2>3, <2>4, <3>1 DEF ReportsActive, ClientFollows, WorkIsHanded, HandedIsWork,
         AppliedFits, CandidatesFit
  <2>5. CASE ~(wanted \notin appAvail \/ wanted = appActive)
    <3>1. /\ appPc' = "apply" /\ appApplied' = NoProfile
          /\ appLeft' = ConfigurationCandidates(wanted, appAvail)
      BY <1>1, <2>5 DEF TakeConfigure
    <3>2. \A i \in DOMAIN appLeft' : appLeft'[i].mode = wanted.mode
      BY <2>2, <3>1, CandidatesMode
    <3> QED
      BY <1>0, <2>1, <2>2, <2>3, <3>1, <3>2 DEF ReportsActive, ClientFollows, WorkIsHanded, HandedIsWork,
         AppliedFits, CandidatesFit
  <2> QED
    BY <2>4, <2>5
<1>2. CASE TakeKeyframeRequest \/ TakeSwitchCamera
  <2>1. /\ Head(d2p).type # "configure" /\ PollControl
        /\ UNCHANGED <<workVars, appActive>>
    BY <1>2 DEF TakeKeyframeRequest, TakeSwitchCamera, NextControl, appVars
  <2>2. UNCHANGED <<mcActive, mcPending, appPc, appRequest, appLeft, appApplied, appActive>>
    BY <2>1 DEF PollControl, workVars
  <2> QED
    BY <1>0, <2>2 DEF ReportsActive, ClientFollows, WorkIsHanded, HandedIsWork, AppliedFits,
       CandidatesFit
<1>3. CASE NoticeDisconnect
  <2>1. /\ UNCHANGED <<mcActive, appPc, appRequest, appLeft, appApplied, appActive>>
        /\ mcPending' = NoRequest
    BY <1>3 DEF NoticeDisconnect, PollDisconnected, CloseClient, appVars, workVars
  <2> QED
    BY <1>0, <2>1 DEF ReportsActive, ClientFollows, WorkIsHanded, HandedIsWork, AppliedFits,
       CandidatesFit
<1>4. CASE CandidateApplied
  <2>1. /\ appPc = "apply" /\ appLeft # <<>>
        /\ appPc' = "report" /\ appActive' = Candidate /\ appApplied' = Candidate
        /\ UNCHANGED <<mcPending, appRequest>>
    BY <1>4 DEF CandidateApplied, Trying, mcVars
  <2>2. Candidate \in StreamProfile /\ Candidate = appLeft[1] /\ 1 \in DOMAIN appLeft
    BY <1>0, <2>1 DEF Candidate, PhoneTypeOK
  <2>3. Candidate # NoProfile
    BY <2>2, ProfileIsNotNone
  <2> QED
    BY <1>0, <2>1, <2>2, <2>3 DEF ReportsActive, ClientFollows, WorkIsHanded, HandedIsWork,
       AppliedFits, CandidatesFit
<1>5. CASE CandidateFails
  <2>1. /\ appPc = "apply" /\ appLeft # <<>> /\ appLeft' = Tail(appLeft)
        /\ UNCHANGED <<appPc, appRequest, appApplied, appActive, mcActive, mcPending>>
    BY <1>5, CapabilitiesKeep DEF CandidateFails, Trying
  <2>2. \A i \in DOMAIN appLeft' : i + 1 \in DOMAIN appLeft /\ appLeft'[i] = appLeft[i + 1]
    BY <1>0, <2>1 DEF PhoneTypeOK
  <2>3. CandidatesFit'
    BY <2>1, <2>2 DEF CandidatesFit
  <2> QED
    BY <1>0, <2>1, <2>3 DEF ReportsActive, ClientFollows, WorkIsHanded, HandedIsWork, AppliedFits
<1>6. CASE CandidatesExhausted
  <2>1. /\ appPc = "apply" /\ appPc' = "report"
        /\ UNCHANGED <<appRequest, appApplied, appActive, mcActive, mcPending>>
    BY <1>6 DEF CandidatesExhausted, mcVars
  <2> QED
    BY <1>0, <2>1 DEF ReportsActive, ClientFollows, WorkIsHanded, HandedIsWork, AppliedFits,
       CandidatesFit
<1>7. CASE Report
  <2>1. ReportDone /\ ReportConfiguration(appRequest.id, appApplied)
    BY <1>7 DEF Report
  <2>2. CASE ReportAccepted(appRequest.id, appApplied)
    BY <1>0, <2>1, <2>2, ReportWork
  <2>3. CASE ~ReportAccepted(appRequest.id, appApplied)
    <3>1. UNCHANGED mcVars
      BY <2>1, <2>3 DEF ReportConfiguration
    <3>2. refused' \/ (appRequest.id = 0 /\ appApplied = NoProfile)
      BY <1>0, <2>1, <2>3 DEF ReportLost, ReportDone
    <3> QED
      BY <1>0, <2>1, <3>1, <3>2, ReportWork
  <2> QED
    BY <2>2, <2>3
<1> QED
  BY <1>1, <1>2, <1>3, <1>4, <1>5, <1>6, <1>7 DEF AndroidWorks, Poll, Configure

\* A new piece of work: reported at once only when it is active already.
LEMMA BeginWorkWork ==
  ASSUME TypeOK, WorkInv, appPc = "idle", ~refused' => ~refused,
         NEW id \in RequestIds \cup {0}, NEW wanted \in StreamProfile,
         BeginWork(id, wanted), UNCHANGED mcActive,
         \/ id = 0 /\ UNCHANGED mcPending
         \/ mcPending' = [id |-> id, profile |-> wanted]
  PROVE  WorkInv'
<1> DEFINE request == [id |-> id, profile |-> wanted]
<1>1. /\ appRequest' = request /\ request.id = id /\ request.profile = wanted
      /\ UNCHANGED <<appActive, mcActive>>
      /\ request # NoRequest /\ wanted # NoProfile
      /\ \/ appPc' = "report" /\ appApplied' = NoProfile
         \/ appPc' = "report" /\ appApplied' = wanted /\ wanted = appActive
         \/ appPc' = "prepare" /\ appApplied' = NoProfile
  BY ProfileIsNotNone DEF BeginWork, NoRequest
<1>2. ~refused' => mcActive = appActive
  BY DEF WorkInv, ClientFollows
<1>3. mcPending' # NoRequest /\ ~refused' => mcPending' = request
  BY DEF WorkInv, HandedIsWork
<1>4. id # 0 => mcPending' = request
  OBVIOUS
<1> HIDE DEF request
<1> QED
  BY <1>1, <1>2, <1>3, <1>4 DEF WorkInv, ReportsActive, ClientFollows, WorkIsHanded, HandedIsWork,
     AppliedFits, CandidatesFit

\* Withdrawing a profile ends the work with a report of failure.
LEMMA WithdrawWork ==
  ASSUME WorkInv, appPc \in {"prepare", "configure"}, ~refused' => ~refused, Withdraw
  PROVE  WorkInv'
<1>1. /\ UNCHANGED <<mcActive, mcPending, appRequest, appActive>>
      /\ appPc' = "report" /\ appApplied' = NoProfile
  BY CapabilitiesKeep DEF Withdraw
<1> QED
  BY <1>1 DEF WorkInv, ReportsActive, ClientFollows, WorkIsHanded, HandedIsWork,
     AppliedFits, CandidatesFit

LEMMA IosWork ==
  ASSUME TypeOK, WorkInv, phone = "ios",
         \/ IosWorks /\ refused' = (refused \/ ReportLost)
         \/ (IosUser \/ RefreshStatus) /\ UNCHANGED refused
  PROVE  WorkInv'
<1>0. /\ ~refused' => ~refused
      /\ MTypeOK /\ PhoneTypeOK /\ IosTypeOK /\ MobileTypeOK
      /\ 0 \in RequestIds \cup {0}
  BY Zenon DEF TypeOK, MTypeOK
<1>1. CASE HandleConfigure
  <2>1. /\ appPc = "idle" /\ PollControl /\ BeginWork(Head(d2p).id, Head(d2p).profile)
        /\ Head(d2p).id \in RequestIds /\ Head(d2p).profile \in StreamProfile
        /\ Head(d2p).type = "configure"
    BY <1>0, <1>1, PollControlType DEF HandleConfigure, PollerReady, NextControl
  <2> QED
    BY <1>0, <2>1, BeginWorkWork DEF PollControl
<1>2. CASE HandleKeyframeRequest \/ HandleSwitchCamera
  <2>1. /\ appPc = "idle" /\ PollControl /\ Head(d2p).type # "configure"
        /\ UNCHANGED <<appRequest, appApplied, appActive>> /\ appPc' \in {"idle", "switch"}
        /\ CanPoll
    BY <1>2 DEF HandleKeyframeRequest, HandleSwitchCamera, PollerReady, NextControl, appVars,
       workVars
  <2> QED
    BY <1>0, <2>1 DEF PollControl, CanPoll, WorkInv, ReportsActive, ClientFollows, WorkIsHanded,
       HandedIsWork, AppliedFits, CandidatesFit
<1>3. CASE HandleDisconnect \/ RestoreCompletes
  <2>1. /\ UNCHANGED <<mcActive, workVars, appActive>>
        /\ mcPending' = NoRequest \/ UNCHANGED mcPending
    BY <1>3 DEF HandleDisconnect, PollDisconnected, RestoreCompletes, CloseClient, appVars, mcVars
  <2> QED
    BY <1>0, <2>1 DEF workVars, WorkInv, ReportsActive, ClientFollows, WorkIsHanded, HandedIsWork,
       AppliedFits, CandidatesFit
<1>4. CASE SwitchCompletes
  <2>1. /\ appPc = "switch" /\ appPc' = "idle"
        /\ UNCHANGED <<mcActive, mcPending, appRequest, appApplied, appActive>>
    BY <1>4, CapabilitiesKeep DEF SwitchCompletes
  <2> QED
    BY <1>0, <2>1 DEF WorkInv, ReportsActive, ClientFollows, WorkIsHanded, HandedIsWork,
       AppliedFits, CandidatesFit
<1>5. CASE PrepareSucceeds
  <2> DEFINE candidates == ConfigurationCandidates(appRequest.profile, appAvail)
  <2>1. /\ appPc = "prepare" /\ appPc' = "configure"
        /\ UNCHANGED <<mcActive, mcPending, appRequest, appActive>>
    BY <1>5 DEF PrepareSucceeds, mcVars
  <2>2. appRequest # NoRequest /\ appRequest.profile \in StreamProfile
    BY <1>0, <2>1 DEF PhoneTypeOK, IosTypeOK, Work, Request
  <2>3. PICK i \in DOMAIN candidates : appApplied' = candidates[i]
    BY <1>5 DEF PrepareSucceeds
  <2>4. appApplied'.mode = appRequest.profile.mode
    BY <2>2, <2>3, CandidatesMode
  <2> QED
    BY <1>0, <2>1, <2>2, <2>4 DEF WorkInv, ReportsActive, ClientFollows, WorkIsHanded, HandedIsWork,
       AppliedFits, CandidatesFit
<1>6. CASE PrepareFails \/ ApplyFails
  BY <1>0, <1>6, WithdrawWork DEF PrepareFails, ApplyFails
<1>7. CASE ApplySucceeds
  <2>1. /\ appPc = "configure" /\ appPc' = "report" /\ appActive' = appApplied
        /\ UNCHANGED <<mcPending, appRequest, appApplied>> /\ appApplied # NoProfile
    BY <1>0, <1>7 DEF ApplySucceeds, IosTypeOK, mcVars
  <2> QED
    BY <1>0, <2>1 DEF WorkInv, ReportsActive, ClientFollows, WorkIsHanded, HandedIsWork,
       AppliedFits, CandidatesFit
<1>8. CASE IosReport /\ refused' = (refused \/ ReportLost)
  <2>1. /\ ReportDone /\ Tell(appRequest.id, appApplied)
        /\ ~refused' => ~ReportLost
    BY <1>8, Zenon DEF IosReport
  <2>2. CASE ReportAccepted(appRequest.id, appApplied) /\ iosConnected
    BY <1>0, <2>1, <2>2, ReportWork DEF Tell
  <2>3. CASE ~(ReportAccepted(appRequest.id, appApplied) /\ iosConnected)
    <3>1. UNCHANGED mcVars
      BY <2>1, <2>3 DEF Tell, ReportConfiguration
    <3>2. refused' \/ (appRequest.id = 0 /\ appApplied = NoProfile)
      BY <2>1, <2>3 DEF ReportLost, ReportDone
    <3> QED
      BY <1>0, <2>1, <3>1, <3>2, ReportWork
  <2> QED
    BY <2>2, <2>3
<1>9. ASSUME NEW wanted \in StreamProfile, ChooseProfile(wanted)
      PROVE  WorkInv'
  <2>1. appPc = "idle" /\ BeginWork(0, wanted) /\ UNCHANGED <<mcActive, mcPending>>
    BY <1>9 DEF ChooseProfile, PollerReady, mcVars
  <2> QED
    BY <1>0, <2>1, BeginWorkWork
<1>10. CASE ChoiceRefused \/ RefreshStatus
  <2>1. /\ UNCHANGED <<appPc, appRequest, appLeft, appApplied, appActive>>
        /\ UNCHANGED <<mcActive, mcPending>>
    BY <1>10 DEF ChoiceRefused, RefreshStatus, Tell, ReportConfiguration, appVars, workVars, mcVars
  <2> QED
    BY <1>0, <2>1 DEF WorkInv, ReportsActive, ClientFollows, WorkIsHanded, HandedIsWork,
       AppliedFits, CandidatesFit
<1> QED
  BY <1>1, <1>2, <1>3, <1>4, <1>5, <1>6, <1>7, <1>8, <1>9, <1>10 DEF IosWorks, IosUser

-----------------------------------------------------------------------------
(* The whole system. *)

\* The stream task ends its connection or leaves it as it is.
LEMMA DesktopStays ==
  ASSUME DesktopWorks \/ DesktopDisturbed \/ Expire, Streaming'
  PROVE  UNCHANGED <<link, dPhase>>
<1>1. ~EndStream
  BY DEF EndStream, Streaming
<1>2. CASE Expire \/ DesktopCommands \/ DesktopDisturbed
  BY <1>1, <1>2 DEF Expire, DesktopCommands, CommandUnsupported, CommandSent,
     CommandAlreadyActive, RejectCommand, DesktopDisturbed, Shutdown, DecoderOrOutputFails,
     UiSwitchCamera, CommandPreflightFails, UiConfigure, linkVars, dVars
<1>3. CASE SeeDisconnect \/ ExpireCompensation \/ FinishSend \/ DesktopDecodes
  BY <1>1, <1>3 DEF SeeDisconnect, ExpireCompensation, FinishSend, DesktopDecodes,
     WriteFrame, FrameRefused, RecoveryRequired, linkVars
<1>4. CASE DesktopReceives
  BY <1>1, <1>4 DEF DesktopReceives, DropFrame, AcceptFrame, FrameBacklog, ReceiveCapabilities,
     IgnoreResult, ConfigureApplied, ConfigureCompensated, ConfigureRejected,
     CompensationApplied, CompensationFails, UnsolicitedDropped, UnsolicitedAdopted,
     UnsolicitedCompensated, dVars
<1> QED
  BY <1>2, <1>3, <1>4 DEF DesktopWorks

\* What a step may be when the connection holds after it: a new connection,
\* or a step of one side with the connection held before it.
Begins == Connect
Desktops ==
  /\ Connected
  /\ DesktopWorks \/ DesktopDisturbed
  /\ crossed' = (crossed \/ Crossing)
  /\ UNCHANGED <<phoneVars, expired>>
Expires == Connected /\ Expire /\ expired' = TRUE /\ UNCHANGED phoneVars
PhonesTurn == Connected /\ PhoneMoves /\ UNCHANGED <<dVars, expired, crossed>>

LEMMA ConnectedStep ==
  ASSUME TypeOK, [Next]_vars, Connected'
  PROVE  Begins \/ Desktops \/ Expires \/ PhonesTurn
<1>0. PhoneTypeOK /\ Streaming' /\ mcOpen' /\ link' = "up"
  BY DEF TypeOK, Connected
<1>1. CASE Connect
  BY <1>1 DEF Begins
<1>2. CASE ConnectFails \/ LinkDrop \/ CloseClient
  BY <1>0, <1>2 DEF ConnectFails, LinkDrop, CloseClient
<1>3. CASE DesktopStep \/ DesktopOnly(DesktopDisturbed)
  <2>1. /\ DesktopWorks \/ DesktopDisturbed
        /\ crossed' = (crossed \/ Crossing)
        /\ UNCHANGED <<phoneVars, expired>>
    BY <1>3, Zenon DEF DesktopStep, DesktopOnly
  <2>2. UNCHANGED <<link, dPhase, mcOpen>>
    BY <1>0, <2>1, DesktopStays DEF phoneVars, mcVars
  <2> QED
    BY <1>0, <2>1, <2>2 DEF Connected, Streaming, Desktops
<1>4. CASE DesktopExpires
  <2>1. Expire /\ expired' = TRUE /\ UNCHANGED phoneVars
    BY <1>4 DEF DesktopExpires
  <2>2. UNCHANGED <<link, dPhase, mcOpen>>
    BY <1>0, <2>1, DesktopStays DEF phoneVars, mcVars
  <2> QED
    BY <1>0, <2>1, <2>2 DEF Connected, Streaming, Expires
<1>5. ASSUME PhoneMoves, UNCHANGED <<dVars, expired, crossed>>
      PROVE  PhonesTurn
  <2>1. UNCHANGED <<link, mcOpen>>
    BY <1>0, <1>5 DEF PhoneMoves, linkVars, mcVars, PollControl, UpdateCapabilities,
       SendVideoFrame, ReportConfiguration, CloseClient
  <2> QED
    BY <1>0, <1>5, <2>1 DEF Connected, Streaming, PhonesTurn, dVars
<1>6. CASE AppStep
  <2>1. AndroidWorks \/ IosWorks
    BY <1>6 DEF AppStep
  <2> QED
    BY <1>0, <1>5, <1>6, <2>1, AndroidMoves, IosMoves DEF AppStep
<1>7. CASE IosSide
  BY <1>0, <1>5, <1>7, IosMoves DEF IosSide, historyVars
<1>8. CASE Frames
  <2>1. PICK keyframe \in FrameFlags : SendVideoFrame(KindOf(appActive), keyframe)
    BY <1>8 DEF Frames, EncodeFrame
  <2>2. keyframe \in BOOLEAN /\ KindOf(appActive) \in FrameKind
    BY <1>0, FrameFlagsAssumption, SizeOfAssumption DEF PhoneTypeOK, KindOf, FrameKind, StreamProfile
  <2> QED
    BY <1>5, <1>8, <2>1, <2>2 DEF Frames, PhoneMoves, historyVars
<1>9. CASE UNCHANGED vars
  BY <1>5, <1>9 DEF vars, phoneVars, PhoneMoves, historyVars
<1> QED
  BY <1>1, <1>2, <1>3, <1>4, <1>6, <1>7, <1>8, <1>9 DEF Next, Disturbance

\* The managers' work.
LEMMA NextWork == TypeOK /\ WorkInv /\ [Next]_vars => WorkInv'
<1> SUFFICES ASSUME TypeOK, WorkInv, [Next]_vars PROVE WorkInv'
  OBVIOUS
<1> USE DEF WorkInv, ReportsActive, ClientFollows, WorkIsHanded, HandedIsWork, AppliedFits,
        CandidatesFit
<1>1. CASE Connect \/ ConnectFails
  BY <1>1 DEF Connect, ConnectFails, Handshaken, OpenClient, appVars, workVars
<1>2. CASE DesktopStep \/ DesktopOnly(DesktopDisturbed) \/ DesktopExpires
  <2>1. UNCHANGED <<phoneVars, refused>>
    BY <1>2 DEF DesktopStep, DesktopOnly, DesktopExpires
  <2> QED
    BY <2>1 DEF phoneVars, mcVars, appVars, workVars
<1>3. CASE AppStep
  BY <1>3, AndroidWork, IosWork DEF AppStep
<1>4. CASE IosSide
  BY <1>4, IosWork DEF IosSide, historyVars
<1>5. CASE Frames
  BY <1>5 DEF Frames, EncodeFrame, SendVideoFrame, mcVars, appVars, workVars, historyVars
<1>6. CASE LinkDrop /\ UNCHANGED <<dVars, phoneVars, phone, sessions, historyVars>>
  BY <1>6 DEF phoneVars, mcVars, appVars, workVars, historyVars
<1>7. CASE CloseClient /\ UNCHANGED <<dVars, appVars, iosVars, phone, sessions, historyVars>>
  BY <1>7 DEF CloseClient, appVars, workVars, historyVars
<1>8. CASE UNCHANGED vars
  BY <1>8 DEF vars, phoneVars, mcVars, appVars, workVars, historyVars
<1> QED
  BY <1>1, <1>2, <1>3, <1>4, <1>5, <1>6, <1>7, <1>8 DEF Next, Disturbance

\* A new connection has nothing in flight.
LEMMA ConnectRequests ==
  ASSUME Connect
  PROVE  RequestsInv'
<1>1. /\ d2p' = <<>> /\ p2d' = <<>> /\ dSending' = NoMessage /\ mcPending' = NoRequest
      /\ dPending' = NoPending
  BY DEF Connect, Handshaken, OpenClient, BeginStream
<1>2. Range(d2p') = {} /\ Range(p2d') = {} /\ NoMessage.type = "none"
  BY <1>1 DEF Range, NoMessage
<1>3. Configures' = {} /\ Handed' = {} /\ Results' = {}
  BY <1>1, <1>2 DEF Configures, Handed, Results, Ids
<1>4. Ascending(d2p', "configure") /\ Ascending(p2d', "result")
  BY <1>1 DEF Ascending, Numbered
<1> QED
  BY <1>1, <1>2, <1>3, <1>4 DEF RequestsInv, InOrder, OutOrder, Counted, Underway, Single, Fits,
     InFlight

Negotiation == Connected => RequestsInv

LEMMA NextNegotiation == TypeOK /\ WorkInv /\ Negotiation /\ [Next]_vars => Negotiation'
<1> SUFFICES ASSUME TypeOK, WorkInv, Negotiation, [Next]_vars, Connected' PROVE RequestsInv'
  BY DEF Negotiation
<1>0. Streaming' /\ mcOpen'
  BY DEF Connected
<1>1. CASE Begins
  BY <1>1, ConnectRequests DEF Begins
<1>2. CASE Desktops
  <2>1. RequestsInv /\ UNCHANGED <<mcPending, expired>>
    BY <1>2 DEF Negotiation, Desktops, phoneVars, mcVars
  <2>2. DTypeOK /\ OutOrder /\ Counted
    BY <2>1 DEF TypeOK, DTypeOK, RequestsInv, InOrder
  <2>3. DesktopMoves
    BY <1>0, <1>2, <2>2, DesktopQueues DEF Desktops
  <2> QED
    BY <2>1, <2>3, DesktopMovesInv
<1>3. CASE Expires
  BY <1>3, ExpireRequests DEF Negotiation, Expires, phoneVars, mcVars
<1>4. CASE PhonesTurn
  BY <1>0, <1>4, PhoneMovesInv DEF Negotiation, PhonesTurn
<1> QED
  BY <1>1, <1>2, <1>3, <1>4, ConnectedStep

LEMMA InitNegotiation == Init => WorkInv /\ Negotiation
  BY DEF Init, PhoneInit, WorkInv, ReportsActive, ClientFollows, WorkIsHanded, HandedIsWork,
     AppliedFits, CandidatesFit, Negotiation, Connected

LEMMA NegotiationInvariant == Spec => [](TypeOK /\ WorkInv /\ Negotiation)
<1>1. TypeOK /\ WorkInv /\ Negotiation /\ [Next]_vars => WorkInv' /\ Negotiation'
  BY NextWork, NextNegotiation
<1> QED
  BY <1>1, InitNegotiation, TypeCorrect, PTL DEF Spec

\* Numbers by their places in a queue are numbers of the messages it holds.
LEMMA NumbersByPlace ==
  /\ Requests = {m.id : m \in Ids(Range(d2p), "configure")}
  /\ Answers = {m.id : m \in Results}
<1>1. Requests = {m.id : m \in Ids(Range(d2p), "configure")}
  BY DEF Requests, Numbered, Ids, Range
<1>2. Answers = {m.id : m \in Results}
  BY DEF Answers, Numbered, Results, Ids, Range
<1> QED
  BY <1>1, <1>2

\* On the way from the desktop's queue over the phone to the queue back, ids
\* only grow, and none is above the desktop's counter: requests are answered
\* in their order and at most once (send_configuration, the client's single
\* pending_configuration).
THEOREM AnsweredInOrder == Spec => []RequestsInOrder
<1>1. TypeOK /\ Negotiation => RequestsInOrder
  <2> SUFFICES ASSUME TypeOK, Connected, RequestsInv
               PROVE  /\ Ascending(d2p, "configure") /\ Ascending(p2d, "result")
                      /\ \A old \in Answers, new \in Requests : old < new
                      /\ mcPending # NoRequest =>
                           /\ \A old \in Answers : old < mcPending.id
                           /\ \A new \in Requests : mcPending.id < new
                      /\ \A id \in Answers \cup Requests \cup {mcPending.id} : id <= dCounter
    BY DEF Negotiation, RequestsInOrder
  <2> USE DEF RequestsInv
  <2>1. Ascending(d2p, "configure") /\ Ascending(p2d, "result")
    BY DEF InOrder, OutOrder
  <2>2. \A m \in Ids(Range(d2p), "configure") : m \in Configures
    BY DEF Configures, Ids
  <2>3. \A old \in Answers, new \in Requests : old < new
    BY <2>2, NumbersByPlace DEF InOrder, Above
  <2>4. mcPending # NoRequest =>
          /\ \A old \in Answers : old < mcPending.id
          /\ \A new \in Requests : mcPending.id < new
    BY <2>2, NumbersByPlace DEF InOrder, Above, Handed
  <2>5. \A id \in Answers \cup Requests : id <= dCounter
    BY <2>2, NumbersByPlace, InFlightType DEF Counted, InFlight
  <2>6. mcPending.id <= dCounter
    BY InFlightType DEF Counted, InFlight, Handed, NoRequest
  <2> QED
    BY <2>1, <2>3, <2>4, <2>5, <2>6
<1> QED
  BY <1>1, NegotiationInvariant, PTL

\* While the desktop waits for a result its request is waiting to be sent, on
\* its way, worked on by the phone, or answered on the way back; only a
\* refused report leaves it with nobody (stream_connection,
\* phonecam_report_stream_configuration).
THEOREM PendingIsSomewhere == Spec => []PendingIsUnderway
<1>1. TypeOK /\ WorkInv /\ Negotiation => PendingIsUnderway
  <2> SUFFICES ASSUME TypeOK, WorkInv, Connected, RequestsInv, dPending # NoPending
               PROVE  \/ dPending.id \in Requests \cup Answers
                      \/ dSending = ConfigureStream(dPending.id, dPending.requested)
                      \/ /\ dPending.id = mcPending.id
                         /\ refused \/ (appRequest = mcPending /\ appPc \notin {"idle", "switch"})
    BY DEF Negotiation, PendingIsUnderway
  <2>1. PICK m \in Configures \cup Handed \cup Results : dPending.id = m.id
    BY DEF RequestsInv, Underway, InFlight
  <2>2. CASE m \in Results \cup Ids(Range(d2p), "configure")
    BY <2>1, <2>2, NumbersByPlace
  <2>3. CASE m \in Handed
    BY <2>1, <2>3 DEF Handed, WorkInv, HandedIsWork
  <2>4. CASE m \in Configures /\ m = dSending
    <3>1. m \in DesktopMessage /\ m.type = "configure" /\ m.profile = dPending.requested
      BY <2>1, <2>4, InFlightType DEF RequestsInv, Fits, Configures, Ids
    <3>2. m \in [type : {"configure"}, id : RequestIds, profile : StreamProfile]
      BY <3>1 DEF DesktopMessage, RequestKeyframe, SwitchCamera
    <3>3. m = [type |-> "configure", id |-> m.id, profile |-> m.profile]
      BY <3>2
    <3> QED
      BY <2>1, <2>4, <3>1, <3>3 DEF ConfigureStream
  <2> QED
    BY <2>1, <2>2, <2>3, <2>4 DEF Configures, Ids
<1> QED
  BY <1>1, NegotiationInvariant, PTL

-----------------------------------------------------------------------------
(* What the phone has said, replayed.  The messages on their way to the    *)
(* desktop lead from what it has heard so far to the client's own state:   *)
(* the history of a queue gives the client's profile and offer before each *)
(* of its messages, and in the end.                                        *)

ClientState == [active : StreamProfile, supported : SUBSET StreamProfile]
Client == [active |-> mcActive, supported |-> mcSupported]

\* What a message says of the client when it was sent, and what it changes.
Follows(s, m, t) ==
  /\ m.type = "frame" => t = s /\ m.kind = KindOf(s.active)
  /\ m.type = "capabilities" =>
       s.active \in m.profiles /\ t.active = s.active /\ t.supported = m.profiles
  /\ m.type = "result" =>
       /\ t.supported = s.supported
       /\ m.profile = NoProfile => t.active = s.active
       /\ m.profile # NoProfile =>
            t.active = m.profile /\ m.profile \in s.supported \cap PeerProfiles

Silent(queue, k) == \A i \in DOMAIN queue : i > k => queue[i].type # "result"

\* The last conjunct follows from the others along the queue; here it is kept
\* step by step.
History(h, queue, last) ==
  /\ h \in [0 .. Len(queue) -> ClientState]
  /\ h[Len(queue)] = last
  /\ \A k \in DOMAIN queue : Follows(h[k - 1], queue[k], h[k])
  /\ \A k \in 0 .. Len(queue) : Silent(queue, k) => h[k].active = last.active

Leads(first, queue, last) == \E h : History(h, queue, last) /\ h[0] = first

LEMMA LeadsEmpty ==
  ASSUME NEW s \in ClientState
  PROVE  Leads(s, <<>>, s)
<1> DEFINE h == [k \in 0 .. 0 |-> s]
<1>1. h \in [0 .. Len(<<>>) -> ClientState] /\ h[0] = s /\ Len(<<>>) = 0 /\ DOMAIN <<>> = {}
  OBVIOUS
<1>2. \A k \in 0 .. Len(<<>>) : h[k] = s
  BY <1>1
<1> HIDE DEF h
<1>3. History(h, <<>>, s)
  BY <1>1, <1>2 DEF History
<1> QED
  BY <1>1, <1>3 DEF Leads

\* The phone says one thing more.
LEMMA LeadsAppend ==
  ASSUME NEW first, NEW queue \in Seq(PhoneMessage), NEW last \in ClientState,
         NEW m \in PhoneMessage, NEW next \in ClientState,
         Leads(first, queue, last), Follows(last, m, next)
  PROVE  Leads(first, Append(queue, m), next)
<1> DEFINE longer == Append(queue, m)
           n == Len(queue)
<1>1. PICK h : History(h, queue, last) /\ h[0] = first
  BY DEF Leads
<1> DEFINE g == [k \in 0 .. n + 1 |-> IF k = n + 1 THEN next ELSE h[k]]
<1>2. /\ n \in Nat /\ Len(longer) = n + 1 /\ longer[n + 1] = m
      /\ \A k \in DOMAIN queue : longer[k] = queue[k] /\ k \in 1 .. n
      /\ DOMAIN longer = 1 .. n + 1
  OBVIOUS
<1>3. \A k \in 0 .. n : h[k] \in ClientState /\ g[k] = h[k]
  BY <1>1, <1>2 DEF History
<1>4. g \in [0 .. n + 1 -> ClientState] /\ g[n + 1] = next
  BY <1>2, <1>3
<1> HIDE DEF g
<1>5. g[n] = last /\ g[0] = first
  BY <1>1, <1>2, <1>3 DEF History
<1>6. ASSUME NEW k \in DOMAIN longer
      PROVE  Follows(g[k - 1], longer[k], g[k])
  <2>1. CASE k \in DOMAIN queue
    <3>1. k - 1 \in 0 .. n /\ k \in 0 .. n
      BY <1>2, <2>1
    <3>2. Follows(h[k - 1], queue[k], h[k])
      BY <1>1, <2>1 DEF History
    <3> QED
      BY <1>2, <1>3, <2>1, <3>1, <3>2
  <2>2. CASE k = n + 1
    BY <1>2, <1>4, <1>5, <2>2
  <2> QED
    BY <1>2, <2>1, <2>2
<1>7. ASSUME NEW k \in 0 .. n + 1, Silent(longer, k)
      PROVE  g[k].active = next.active
  <2>1. CASE k = n + 1
    BY <1>4, <2>1
  <2>2. CASE k # n + 1
    <3>1. k \in 0 .. n /\ m.type # "result"
      BY <1>2, <1>7, <2>2 DEF Silent
    <3>2. Silent(queue, k)
      BY <1>2, <1>7 DEF Silent
    <3>3. h[k].active = last.active
      BY <1>1, <3>1, <3>2 DEF History
    <3>4. m.type \in {"frame", "capabilities"}
      BY <3>1 DEF PhoneMessage
    <3>5. next.active = last.active
      BY <3>4 DEF Follows
    <3> QED
      BY <1>3, <3>1, <3>3, <3>5
  <2> QED
    BY <2>1, <2>2
<1>8. History(g, longer, next)
  BY <1>2, <1>4, <1>6, <1>7 DEF History
<1> QED
  BY <1>5, <1>8 DEF Leads

\* The desktop hears one thing more.
LEMMA LeadsTail ==
  ASSUME NEW first, NEW queue \in Seq(PhoneMessage), NEW last,
         queue # <<>>, Leads(first, queue, last)
  PROVE  \E second \in ClientState :
           Follows(first, Head(queue), second) /\ Leads(second, Tail(queue), last)
<1> DEFINE rest == Tail(queue)
           n == Len(rest)
<1>1. PICK h : History(h, queue, last) /\ h[0] = first
  BY DEF Leads
<1> DEFINE g == [k \in 0 .. n |-> h[k + 1]]
<1>2. n \in Nat /\ Len(queue) = n + 1 /\ DOMAIN queue = 1 .. n + 1 /\ DOMAIN rest = 1 .. n
  OBVIOUS
<1>3. \A k \in DOMAIN rest : rest[k] = queue[k + 1]
  OBVIOUS
<1>4. queue[1] = Head(queue)
  OBVIOUS
<1> HIDE DEF n, rest
<1>5. \A k \in 0 .. n : g[k] = h[k + 1] /\ k + 1 \in 0 .. n + 1
  BY <1>2
<1>6. g \in [0 .. n -> ClientState]
  BY <1>1, <1>2, <1>5 DEF History
<1> HIDE DEF g
<1>7. g[n] = last /\ g[0] = h[1] /\ h[1] \in ClientState
  BY <1>1, <1>2, <1>5 DEF History
<1>8. Follows(first, Head(queue), h[1])
  BY <1>1, <1>2, <1>4 DEF History
<1>9. ASSUME NEW k \in DOMAIN rest
      PROVE  Follows(g[k - 1], rest[k], g[k])
  <2>1. k \in 1 .. n /\ k - 1 \in 0 .. n /\ k + 1 \in 1 .. n + 1
    BY <1>2, <1>9
  <2>2. g[k - 1] = h[k] /\ g[k] = h[k + 1] /\ rest[k] = queue[k + 1]
    BY <1>2, <1>3, <1>5, <1>9, <2>1
  <2>3. Follows(h[k + 1 - 1], queue[k + 1], h[k + 1])
    BY <1>1, <1>2, <2>1 DEF History
  <2>4. k + 1 - 1 = k
    BY <2>1
  <2> QED
    BY <2>2, <2>3, <2>4
<1>10. ASSUME NEW k \in 0 .. n, Silent(rest, k)
       PROVE  g[k].active = last.active
  <2>1. ASSUME NEW i \in DOMAIN queue, i > k + 1
        PROVE  queue[i].type # "result"
    <3>1. i - 1 \in DOMAIN rest /\ i - 1 > k /\ i - 1 + 1 = i
      BY <1>2, <2>1
    <3> QED
      BY <1>3, <1>10, <3>1 DEF Silent
  <2>2. Silent(queue, k + 1) /\ k + 1 \in 0 .. n + 1
    BY <1>2, <2>1 DEF Silent
  <2> QED
    BY <1>1, <1>2, <1>5, <2>2 DEF History
<1>11. History(g, rest, last)
  BY <1>6, <1>7, <1>9, <1>10 DEF History, n
<1> QED
  BY <1>7, <1>8, <1>11 DEF Leads, rest

LEMMA LeadsSilently ==
  ASSUME NEW first, NEW queue \in Seq(PhoneMessage), NEW last, Leads(first, queue, last),
         \A i \in DOMAIN queue : queue[i].type # "result"
  PROVE  first.active = last.active
<1>1. PICK h : History(h, queue, last) /\ h[0] = first
  BY DEF Leads
<1>2. 0 \in 0 .. Len(queue) /\ Silent(queue, 0)
  BY DEF Silent
<1> QED
  BY <1>1, <1>2 DEF History

\* What the desktop takes for the phone's profile and offer is what it has
\* heard of them, until a deadline passes or a change made on the phone meets
\* a request.  While the phone is asked to go back, only the offer counts, and
\* only if the profile to go back to is part of it.
DesktopFollows(s) ==
  ~expired /\ ~crossed =>
    /\ dPending.kind = "compensation" /\ dPending.prior \in s.supported => dPeer = s.supported
    /\ dPending.kind # "compensation" => dActive = s.active /\ dPeer = s.supported

Replayed == \E heard \in ClientState : Leads(heard, p2d, Client) /\ DesktopFollows(heard)

\* A message is read: what the stream task does with it keeps it in step.
LEMMA ReceivesFollows ==
  ASSUME TypeOK, DesktopInv, RequestsInv, DesktopReceives, Streaming',
         ~expired, ~crossed, ~Crossing,
         NEW heard \in ClientState, NEW second \in ClientState,
         DesktopFollows(heard), Follows(heard, Head(p2d), second)
  PROVE  DesktopFollows(second)'
<1> DEFINE m == Head(p2d)
<1>0. /\ dPending \in PendingConfiguration \cup {NoPending}
      /\ p2d \in Seq(PhoneMessage)
      /\ Common = {p \in Local : p \in dPeer} /\ Local \subseteq StreamProfile
  BY LocalAssumption DEF TypeOK, LinkTypeOK, DesktopTypeOK, Common, CommonProfiles
<1>1. /\ dPending.kind = "compensation" /\ dPending.prior \in heard.supported =>
           dPeer = heard.supported
      /\ dPending.kind # "compensation" => dActive = heard.active /\ dPeer = heard.supported
  BY DEF DesktopFollows
<1>2. dPending = NoPending => dPending.kind = "none"
  BY Absences
\* A profile the phone says it switched to is one the desktop has in common.
<1>3. m.type = "result" /\ m.profile # NoProfile /\ dPending.kind # "compensation" =>
        m.profile \in Common
  BY <1>0, <1>1, HandshakeAssumption DEF Follows
<1>5. CASE DropFrame \/ AcceptFrame \/ FrameBacklog
  <2>1. m.type = "frame" /\ UNCHANGED <<dActive, dPeer, dPending>>
    BY <1>5 DEF DropFrame, AcceptFrame, FrameBacklog, Receiving, dVars, streamVars
  <2> QED
    BY <1>1, <2>1 DEF Follows, DesktopFollows
<1>6. CASE ReceiveCapabilities
  <2>1. /\ m.type = "capabilities" /\ UNCHANGED <<dActive, dPending>>
        /\ dPeer' = IF dActive \in m.profiles THEN m.profiles ELSE dPeer
    BY <1>6 DEF ReceiveCapabilities, Receiving
  <2>2. second.supported = m.profiles /\ second.active = heard.active /\ heard.active \in m.profiles
    BY <2>1 DEF Follows
  <2>3. dPending.kind = "compensation" => dPending.prior = dActive
    BY <1>2 DEF DesktopInv, PriorIsActive
  <2> QED
    BY <1>1, <2>1, <2>2, <2>3 DEF DesktopFollows
<1>7. CASE IgnoreResult
  <2>1. /\ m.type = "result" /\ UNCHANGED <<dActive, dPeer, dPending>>
        /\ dPending = NoPending \/ m.id # dPending.id
        /\ dPending = NoPending => m.id # 0
        /\ Receiving("result") /\ p2d' = Tail(p2d) /\ p2d # <<>>
    BY <1>7 DEF IgnoreResult, Receiving, Result, dVars
  <2>2. m.id = 0
    <3>1. m \in Range(p2d)
      BY <1>0, <2>1, TailRange
    <3>2. m.id # 0 => m.id \in InFlight
      BY <2>1, <3>1 DEF Results, Ids, InFlight
    <3> QED
      BY <2>1, <3>2 DEF RequestsInv, Single
  <2>3. m.profile = NoProfile
    BY <2>1, <2>2 DEF Crossing, Result
  <2> QED
    BY <1>1, <2>1, <2>3 DEF Follows, DesktopFollows
<1>8. CASE UnsolicitedDropped
  <2>1. /\ m.type = "result" /\ UNCHANGED <<dActive, dPeer, dPending>>
        /\ dPending = NoPending /\ m.profile \notin Common
    BY <1>8 DEF UnsolicitedDropped, Unsolicited, Receiving, Result, dVars
  <2>2. m.profile = NoProfile
    BY <1>2, <1>3, <2>1, Absences
  <2> QED
    BY <1>1, <2>1, <2>2 DEF Follows, DesktopFollows
<1>9. CASE UnsolicitedAdopted \/ ConfigureApplied
  <2>1. /\ m.type = "result" /\ UNCHANGED dPeer /\ dActive' = m.profile
        /\ m.profile \in Common /\ dPending.kind # "compensation" /\ dPending' = NoPending
    BY <1>2, <1>9 DEF UnsolicitedAdopted, Unsolicited, ConfigureApplied, AnswersPending, Accepted,
       AcceptsAppliedProfile, Adopt, Receiving, Result
  <2>2. m.profile # NoProfile
    BY <1>0, <2>1, ProfileIsNotNone
  <2> QED
    BY <1>1, <2>1, <2>2, Absences DEF Follows, DesktopFollows
<1>10. CASE UnsolicitedCompensated \/ ConfigureCompensated
  <2>1. /\ m.type = "result" /\ UNCHANGED dPeer
        /\ dPending.kind # "compensation" /\ dPending'.kind = "compensation"
    BY <1>2, <1>10 DEF UnsolicitedCompensated, Unsolicited, ConfigureCompensated, AnswersPending,
       SendConfiguration, Receiving, Result
  <2> QED
    BY <1>1, <2>1 DEF Follows, DesktopFollows
<1>11. CASE ConfigureRejected
  <2>1. /\ m.type = "result" /\ UNCHANGED <<dActive, dPeer>> /\ p2d # <<>>
        /\ dPending.kind = "configure" /\ dPending' = NoPending
        /\ m.id = dPending.id
        /\ ~(m.profile \in Common /\ m.profile.mode = dPending.requested.mode)
    BY <1>11 DEF ConfigureRejected, AnswersPending, Receiving, Result, Accepted,
       AcceptsAppliedProfile, streamVars
  <2>2. dPending # NoPending /\ m.id # 0
    BY <1>2, <2>1, InFlightType
  <2>3. m \in Results
    <3>1. m \in Range(p2d)
      BY <1>0, <2>1, TailRange
    <3> QED
      BY <2>1, <2>2, <3>1 DEF Results, Ids
  <2>4. m.profile = NoProfile
    BY <1>3, <2>1, <2>2, <2>3 DEF RequestsInv, Fits
  <2> QED
    BY <1>1, <2>1, <2>4, Absences DEF Follows, DesktopFollows
<1>12. CASE CompensationApplied
  <2>1. /\ m.type = "result" /\ UNCHANGED dPeer /\ dActive' = m.profile
        /\ m.profile = dPending.prior /\ dPending.kind = "compensation" /\ dPending' = NoPending
    BY <1>12 DEF CompensationApplied, AnswersPending, Adopt, Receiving, Result
  <2>2. m.profile # NoProfile
    BY <1>0, <1>2, <2>1, ProfileIsNotNone DEF PendingConfiguration
  <2> QED
    BY <1>1, <2>1, <2>2, Absences DEF Follows, DesktopFollows
<1>13. CASE CompensationFails
  BY <1>13 DEF CompensationFails, EndStream, Streaming
<1> QED
  BY <1>5, <1>6, <1>7, <1>8, <1>9, <1>10, <1>11, <1>12, <1>13 DEF DesktopReceives

\* Nothing is read: what the desktop knows of the phone stays.
LEMMA WorksFollow ==
  ASSUME DesktopWorks \/ DesktopDisturbed, ~DesktopReceives, Streaming'
  PROVE  /\ UNCHANGED <<p2d, dActive, dPeer>>
         /\ UNCHANGED dPending \/ (dPending = NoPending /\ dPending'.kind = "configure")
<1>1. ~EndStream
  BY DEF EndStream, Streaming
<1>2. CASE DesktopCommands
  BY <1>2 DEF DesktopCommands, CommandUnsupported, CommandSent, CommandReady, SendConfiguration,
     CommandAlreadyActive, RejectCommand, linkVars, streamVars
<1>3. CASE DesktopDisturbed
  BY <1>1, <1>3 DEF DesktopDisturbed, Shutdown, DecoderOrOutputFails, RejectCommand,
     UiSwitchCamera, CommandPreflightFails, UiConfigure, linkVars, dVars, streamVars
<1>4. CASE SeeDisconnect \/ ExpireCompensation \/ FinishSend \/ DesktopDecodes
  BY <1>1, <1>4 DEF SeeDisconnect, ExpireCompensation, FinishSend, DesktopDecodes,
     WriteFrame, FrameRefused, RecoveryRequired, linkVars, streamVars
<1> QED
  BY <1>2, <1>3, <1>4 DEF DesktopWorks

\* The stream task's part.
LEMMA DesktopReplays ==
  ASSUME TypeOK, DesktopInv, RequestsInv, Replayed, Desktops, Streaming'
  PROVE  Replayed'
<1>0. /\ DesktopWorks \/ DesktopDisturbed
      /\ Client' = Client /\ UNCHANGED expired
      /\ p2d \in Seq(PhoneMessage)
  BY DEF Desktops, phoneVars, mcVars, Client, TypeOK, LinkTypeOK
<1>1. ~crossed' => ~crossed /\ ~Crossing
  BY Zenon DEF Desktops
<1>2. PICK heard \in ClientState : Leads(heard, p2d, Client) /\ DesktopFollows(heard)
  BY DEF Replayed
<1>3. CASE DesktopReceives
  <2>1. CASE p2d # <<>> /\ p2d' = Tail(p2d)
    <3>1. PICK second \in ClientState :
            Follows(heard, Head(p2d), second) /\ Leads(second, p2d', Client)
      BY <1>0, <1>2, <2>1, LeadsTail
    <3>2. DesktopFollows(second)'
      <4>1. CASE ~expired' /\ ~crossed'
        BY <1>0, <1>1, <1>2, <1>3, <3>1, <4>1, ReceivesFollows
      <4>2. CASE ~(~expired' /\ ~crossed')
        BY <4>2 DEF DesktopFollows
      <4> QED
        BY <4>1, <4>2
    <3>3. Leads(second, p2d', Client')
      BY <1>0, <3>1
    <3> QED
      BY <3>2, <3>3 DEF Replayed
  <2>2. p2d # <<>> /\ p2d' = Tail(p2d)
    <3>1. ~CompensationFails
      BY DEF CompensationFails, EndStream, Streaming
    <3> QED
      BY <1>3, <3>1 DEF DesktopReceives, DropFrame, AcceptFrame, FrameBacklog, ReceiveCapabilities,
         IgnoreResult, ConfigureApplied, ConfigureCompensated, ConfigureRejected,
         CompensationApplied, UnsolicitedDropped, UnsolicitedAdopted, UnsolicitedCompensated,
         Unsolicited, AnswersPending, Receiving
  <2> QED
    BY <2>1, <2>2
<1>4. CASE ~DesktopReceives
  <2>1. /\ UNCHANGED <<p2d, dActive, dPeer>>
        /\ UNCHANGED dPending \/ (dPending = NoPending /\ dPending'.kind = "configure")
    BY <1>0, <1>4, WorksFollow
  <2>2. Leads(heard, p2d', Client')
    BY <1>0, <1>2, <2>1
  <2>3. DesktopFollows(heard)'
    BY <1>0, <1>1, <1>2, <2>1, Absences DEF DesktopFollows
  <2> QED
    BY <2>2, <2>3 DEF Replayed
<1> QED
  BY <1>3, <1>4

\* The phone's part: what it adds to the queue leads to its client's new state.
LEMMA PhoneReplays ==
  ASSUME TypeOK, TypeOK', Replayed, PhonesTurn, mcOpen'
  PROVE  Replayed'
<1>0. /\ UNCHANGED <<dActive, dPeer, dPending, expired, crossed>>
      /\ p2d \in Seq(PhoneMessage)
      /\ Client \in ClientState /\ Client' \in ClientState
      /\ PhoneMoves
  BY DEF PhonesTurn, dVars, Client, ClientState, TypeOK, LinkTypeOK, MobileTypeOK
<1>1. PICK heard \in ClientState : Leads(heard, p2d, Client) /\ DesktopFollows(heard)
  BY DEF Replayed
<1>2. DesktopFollows(heard)'
  BY <1>0, <1>1 DEF DesktopFollows
<1>3. CASE UNCHANGED <<p2d, mcActive, mcSupported>>
  <2>1. Leads(heard, p2d', Client')
    BY <1>1, <1>3 DEF Client
  <2> QED
    BY <1>2, <2>1 DEF Replayed
<1>4. ASSUME NEW m \in PhoneMessage, p2d' = Append(p2d, m), Follows(Client, m, Client')
      PROVE  Replayed'
  <2>1. Leads(heard, p2d', Client')
    BY <1>0, <1>1, <1>4, LeadsAppend
  <2> QED
    BY <1>2, <2>1 DEF Replayed
<1>5. ASSUME NEW profiles \in SUBSET StreamProfile, UpdateCapabilities(profiles)
      PROVE  Replayed'
  <2>1. CASE mcOpen /\ mcActive \in profiles /\ PhoneCanEnqueue
    <3>1. CapabilitiesUpdate(profiles) \in PhoneMessage
      BY DEF CapabilitiesUpdate, PhoneMessage
    <3>2. Follows(Client, CapabilitiesUpdate(profiles), Client')
      BY <1>5, <2>1 DEF UpdateCapabilities, CapabilitiesUpdate, Follows, Client
    <3> QED
      BY <1>4, <1>5, <2>1, <3>1, <3>2 DEF UpdateCapabilities
  <2>2. CASE ~(mcOpen /\ mcActive \in profiles /\ PhoneCanEnqueue)
    BY <1>3, <1>5, <2>2 DEF UpdateCapabilities, linkVars, mcVars
  <2> QED
    BY <2>1, <2>2
<1>6. ASSUME NEW keyframe \in BOOLEAN, NEW kind \in FrameKind, SendVideoFrame(kind, keyframe)
      PROVE  Replayed'
  <2>1. VideoFrame(kind, keyframe) \in PhoneMessage
    BY DEF VideoFrame, PhoneMessage
  <2>2. Follows(Client, VideoFrame(kind, keyframe), Client')
    BY <1>6 DEF SendVideoFrame, VideoFrame, Follows, Client, mcVars
  <2> QED
    BY <1>4, <1>6, <2>1, <2>2 DEF SendVideoFrame
<1>7. ASSUME NEW id \in RequestIds \cup {0}, NEW applied \in StreamProfile \cup {NoProfile},
             ReportConfiguration(id, applied)
      PROVE  Replayed'
  <2>1. CASE ReportAccepted(id, applied)
    <3>1. ConfigurationResult(id, applied) \in PhoneMessage
      BY DEF ConfigurationResult, PhoneMessage
    <3>2. Follows(Client, ConfigurationResult(id, applied), Client')
      BY <1>7, <2>1 DEF ReportConfiguration, ReportAccepted, ConfigurationResult, Follows, Client
    <3> QED
      BY <1>4, <1>7, <2>1, <3>1, <3>2 DEF ReportConfiguration
  <2>2. CASE ~ReportAccepted(id, applied)
    BY <1>3, <1>7, <2>2 DEF ReportConfiguration, linkVars, mcVars
  <2> QED
    BY <2>1, <2>2
<1>8. appRequest.id \in RequestIds \cup {0} /\ appApplied \in StreamProfile \cup {NoProfile}
  BY WorkType DEF TypeOK, PhoneTypeOK
<1>9. CASE PollControl
  BY <1>3, <1>9 DEF PollControl
<1>10. ~CloseClient
  BY DEF CloseClient
<1> QED
  BY <1>0, <1>3, <1>5, <1>6, <1>7, <1>8, <1>9, <1>10 DEF PhoneMoves, linkVars, mcVars

Replay == Connected => Replayed

LEMMA NextReplay ==
  TypeOK /\ TypeOK' /\ DesktopInv /\ Negotiation /\ Replay /\ [Next]_vars => Replay'
<1> SUFFICES ASSUME TypeOK, TypeOK', DesktopInv, Negotiation, Replay, [Next]_vars, Connected'
             PROVE  Replayed'
  BY DEF Replay
<1>0. Streaming' /\ mcOpen'
  BY DEF Connected
<1>1. CASE Begins
  <2>1. /\ p2d' = <<>> /\ Client' = [active |-> appActive, supported |-> appAvail]
        /\ dActive' = appActive /\ dPeer' = appAvail /\ dPending' = NoPending
    BY <1>1 DEF Begins, Connect, Handshaken, OpenClient, BeginStream, Client
  <2>2. Client' \in ClientState
    BY DEF TypeOK, MobileTypeOK, Client, ClientState
  <2>3. PICK heard \in ClientState : heard = Client'
    BY <2>2
  <2>4. Leads(heard, p2d', Client')
    BY <2>1, <2>3, LeadsEmpty
  <2>5. heard.active = appActive /\ heard.supported = appAvail
    BY <2>1, <2>3
  <2>6. DesktopFollows(heard)'
    BY <2>1, <2>5, Absences DEF DesktopFollows
  <2> QED
    BY <2>4, <2>6 DEF Replayed
<1>2. CASE Desktops
  BY <1>0, <1>2, DesktopReplays DEF Desktops, Negotiation, Replay
<1>3. CASE Expires
  <2>1. PICK heard \in ClientState : Leads(heard, p2d, Client)
    BY <1>3 DEF Expires, Replay, Replayed
  <2>2. p2d' = p2d /\ Client' = Client /\ expired'
    BY <1>3 DEF Expires, Expire, linkVars, phoneVars, mcVars, Client
  <2>3. Leads(heard, p2d', Client') /\ DesktopFollows(heard)'
    BY <2>1, <2>2 DEF DesktopFollows
  <2> QED
    BY <2>3 DEF Replayed
<1>4. CASE PhonesTurn
  BY <1>0, <1>4, PhoneReplays DEF PhonesTurn, Replay
<1> QED
  BY <1>1, <1>2, <1>3, <1>4, ConnectedStep

LEMMA ReplayInvariant ==
  Spec => [](TypeOK /\ WorkInv /\ Replay)
<1>1. Init => Replay
  BY DEF Init, Replay, Connected
<1>2. TypeOK /\ TypeOK' /\ DesktopInv /\ Negotiation /\ Replay /\ [Next]_vars => Replay'
  BY NextReplay
<1>3. OneReplyHolder /\ PriorIsActive /\ OutputFollowsActive /\ DecodedFramesFit <=> DesktopInv
  BY DEF DesktopInv
<1> QED
  BY <1>1, <1>2, <1>3, NegotiationInvariant, DesktopSafe, PTL DEF Spec

\* Unless a deadline passed or a change made on the phone met a request,
\* desktop and phone are on the same profile whenever nothing is being
\* negotiated, and the phone's encoder too unless a report was refused
\* (stream_connection with the client's report_stream_configuration).
THEOREM QuietMeansAgreed == Spec => []AgreementWhenQuiet
<1>1. TypeOK /\ WorkInv /\ Replay => AgreementWhenQuiet
  <2> SUFFICES ASSUME TypeOK, WorkInv, Replay, Quiet, ~expired, ~crossed
               PROVE  /\ dActive = mcActive
                      /\ ~refused => mcActive = appActive /\ mcPending = NoRequest
    BY DEF AgreementWhenQuiet
  <2>1. /\ Connected /\ dPending = NoPending /\ appPc = "idle"
        /\ \A i \in DOMAIN p2d : p2d[i].type # "result"
        /\ p2d \in Seq(PhoneMessage)
    BY DEF Quiet, TypeOK, LinkTypeOK
  <2>2. PICK heard \in ClientState : Leads(heard, p2d, Client) /\ DesktopFollows(heard)
    BY <2>1 DEF Replay, Replayed
  <2>3. heard.active = mcActive
    BY <2>1, <2>2, LeadsSilently DEF Client
  <2>4. dActive = heard.active
    BY <2>1, <2>2, Absences DEF DesktopFollows
  <2>5. ~refused => mcActive = appActive /\ mcPending = NoRequest
    BY <2>1 DEF WorkInv, ClientFollows, HandedIsWork
  <2> QED
    BY <2>3, <2>4, <2>5
<1> QED
  BY <1>1, ReplayInvariant, PTL

\* In the same circumstances no frame is dropped for its kind: one that
\* arrives before a report is of the old profile, one after it of the new
\* (stream_connection's check of a frame, phonecam_send_video_frame).
THEOREM FramesFitTheProfile == Spec => []NoFrameLostToNegotiation
<1>1. TypeOK /\ Replay => NoFrameLostToNegotiation
  <2> SUFFICES ASSUME TypeOK, Replay, Connected, ~expired, ~crossed,
                      dPending.kind # "compensation", Receiving("frame")
               PROVE  FrameValid
    BY DEF NoFrameLostToNegotiation
  <2>1. p2d \in Seq(PhoneMessage) /\ p2d # <<>> /\ Head(p2d).type = "frame"
    BY DEF TypeOK, LinkTypeOK, Receiving
  <2>2. PICK heard \in ClientState : Leads(heard, p2d, Client) /\ DesktopFollows(heard)
    BY DEF Replay, Replayed
  <2>3. PICK second \in ClientState : Follows(heard, Head(p2d), second)
    BY <2>1, <2>2, LeadsTail
  <2>4. dActive = heard.active
    BY <2>2 DEF DesktopFollows
  <2> QED
    BY <2>1, <2>3, <2>4 DEF FrameValid, Follows
<1> QED
  BY <1>1, ReplayInvariant, PTL
=============================================================================
