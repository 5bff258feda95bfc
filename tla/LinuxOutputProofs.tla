-------------------------- MODULE LinuxOutputProofs --------------------------
(***************************************************************************)
(* What LinuxOutput promises, for any sizes and rates, any number of       *)
(* pictures inside the decoder and any number of changes.                  *)
(***************************************************************************)
EXTENDS LinuxOutput, TLAPS

\* Before the first profile is adopted nothing is committed or decoded.
NothingBefore == mode = "starting" => committed = NoProfile /\ decoded = <<>>

\* Once the task streams, or asks the phone back, it has an active profile.
ActiveIsProfile == mode \in {"streaming", "compensating"} => {active, committed} \subseteq Profiles

Safe == OutputAgrees /\ NothingBefore /\ ActiveIsProfile

LEMMA InitSafe == Init => Safe
<1> SUFFICES ASSUME Init PROVE Safe
  OBVIOUS
<1>1. decoded \in Seq(Profiles) /\ Len(decoded) = 0 /\ DOMAIN decoded = {}
  BY DEF Init
<1>2. TypeOK
  <2>1. {misfit, refused} \subseteq BOOLEAN /\ {committed, active} \subseteq {NoProfile}
    BY DEF Init
  <2>2. changes \in 0 .. ChangeLimit /\ Len(decoded) <= DecodedLimit
    BY <1>1, BoundAssumption DEF Init
  <2> QED BY <1>1, <2>1, <2>2 DEF Init, TypeOK
<1> QED
  BY <1>1, <1>2, NoProfileAssumption
     DEF Init, Safe, OutputAgrees, StreamingAgrees, ConverterFits, DecodedAreActive,
         NothingBefore, ActiveIsProfile

\* What a commit leaves, whether it fails or not.
LEMMA CommitKeeps ==
  ASSUME Safe, NEW p \in Profiles, CommitFails(p) \/ CommitSucceeds(p)
  PROVE  /\ device' \in Profiles /\ converter' \in Sizes \cup {NoProfile}
         /\ committed' \in {committed, p} /\ committed' \in Profiles \cup {NoProfile}
         /\ ConverterFits'
<1>1. p.size \in Sizes /\ device.fps \in Rates /\ p # NoProfile
  BY NoProfileAssumption DEF Safe, OutputAgrees, TypeOK, Profiles
<1>2. CASE CommitFails(p)
  BY <1>1, <1>2
     DEF CommitFails, Safe, OutputAgrees, TypeOK, ConverterFits, Profiles
<1>3. CASE CommitSucceeds(p)
  BY <1>1, <1>3
     DEF CommitSucceeds, Safe, OutputAgrees, TypeOK, ConverterFits
<1> QED BY <1>2, <1>3

\* A profile that is adopted is the device's, the output's and the task's, and
\* the decoder is empty.
LEMMA AdoptSafe ==
  ASSUME Safe, NEW p \in Profiles, Adopt(p), changes' \in 0 .. ChangeLimit,
         UNCHANGED <<misfit, refused>>
  PROVE  Safe'
<1>1. p.size \in Sizes /\ p # NoProfile
  BY NoProfileAssumption DEF Profiles
<1>2. decoded' \in Seq(Profiles) /\ Len(decoded') = 0 /\ DOMAIN decoded' = {}
  BY DEF Adopt
<1>3. TypeOK'
  BY <1>1, <1>2, BoundAssumption DEF Adopt, CommitSucceeds, Safe, OutputAgrees, TypeOK
<1> QED
  BY <1>1, <1>2, <1>3
     DEF Adopt, CommitSucceeds, Safe, OutputAgrees, StreamingAgrees, ConverterFits,
         DecodedAreActive, NothingBefore, ActiveIsProfile

\* After a failure the task no longer streams; the decoder keeps its pictures.
LEMMA FailsSafe ==
  ASSUME Safe, NEW p \in Profiles, NEW next \in {"compensating", "ended"}, Fails(p, next),
         next = "compensating" => mode = "streaming",
         changes' \in 0 .. ChangeLimit, UNCHANGED <<misfit, refused>>
  PROVE  Safe'
<1>1. TypeOK'
  BY CommitKeeps DEF Fails, Safe, OutputAgrees, TypeOK
<1> QED
  BY <1>1, CommitKeeps
     DEF Fails, Safe, OutputAgrees, StreamingAgrees, DecodedAreActive, NothingBefore,
         ActiveIsProfile

LEMMA DecodeSafe ==
  ASSUME Safe, Decode
  PROVE  Safe'
<1>1. active \in Profiles /\ decoded' = Append(decoded, active) /\ Len(decoded) < DecodedLimit
  BY DEF Decode, Safe, ActiveIsProfile
<1>2. /\ decoded' \in Seq(Profiles) /\ Len(decoded') = Len(decoded) + 1
      /\ \A i \in DOMAIN decoded' :
           decoded'[i] = IF i = Len(decoded) + 1 THEN active ELSE decoded[i]
      /\ \A i \in DOMAIN decoded' : i # Len(decoded) + 1 => i \in DOMAIN decoded
  BY <1>1 DEF Safe, OutputAgrees, TypeOK
<1>3. TypeOK'
  BY <1>1, <1>2, BoundAssumption DEF Decode, outputVars, taskVars, Safe, OutputAgrees, TypeOK
<1> QED
  BY <1>1, <1>2, <1>3
     DEF Decode, outputVars, taskVars, Safe, OutputAgrees, StreamingAgrees, ConverterFits,
         DecodedAreActive, NothingBefore, ActiveIsProfile

LEMMA WriteFrameSafe ==
  ASSUME Safe, WriteFrame
  PROVE  Safe'
<1>1. /\ mode \in {"streaming", "compensating"} /\ mode' \in {mode, "ended"}
      /\ decoded # <<>> /\ decoded' = Tail(decoded)
      /\ UNCHANGED <<device, converter, committed, active, changes>>
      /\ misfit' \in BOOLEAN /\ refused' \in BOOLEAN
  BY DEF WriteFrame, outputVars, Safe, OutputAgrees, TypeOK
<1>2. /\ decoded' \in Seq(Profiles) /\ Len(decoded') <= DecodedLimit
      /\ \A i \in DOMAIN decoded' : i + 1 \in DOMAIN decoded /\ decoded'[i] = decoded[i + 1]
  BY <1>1, BoundAssumption DEF Safe, OutputAgrees, TypeOK
<1>3. TypeOK'
  BY <1>1, <1>2 DEF Safe, OutputAgrees, TypeOK
<1> QED
  BY <1>1, <1>2, <1>3
     DEF Safe, OutputAgrees, StreamingAgrees, ConverterFits,
         DecodedAreActive, NothingBefore, ActiveIsProfile

LEMMA NextSafe == Safe /\ [Next]_vars => Safe'
<1> SUFFICES ASSUME Safe, [Next]_vars PROVE Safe'
  OBVIOUS
<1>0. changes \in 0 .. ChangeLimit
  BY DEF Safe, OutputAgrees, TypeOK
<1>1. ASSUME NEW p \in Profiles, Start(p) PROVE Safe'
  BY <1>0, <1>1, AdoptSafe, FailsSafe DEF Start
<1>2. ASSUME NEW p \in Profiles, Change(p) PROVE Safe'
  <2>1. changes' \in 0 .. ChangeLimit
    BY <1>0, <1>2, BoundAssumption DEF Change
  <2> QED BY <1>2, <2>1, AdoptSafe, FailsSafe DEF Change
<1>3. CASE Restore
  <2>1. active \in Profiles /\ changes' \in 0 .. ChangeLimit
    BY <1>0, <1>3 DEF Restore, Safe, ActiveIsProfile
  <2> QED BY <1>3, <2>1, AdoptSafe, FailsSafe DEF Restore
<1>4. CASE Leave
  BY <1>4
     DEF Leave, outputVars, Safe, OutputAgrees, TypeOK, StreamingAgrees, ConverterFits,
         DecodedAreActive, NothingBefore, ActiveIsProfile
<1>5. CASE Decode
  BY <1>5, DecodeSafe
<1>6. CASE WriteFrame
  BY <1>6, WriteFrameSafe
<1>7. CASE UNCHANGED vars
  BY <1>7
     DEF vars, outputVars, taskVars, Safe, OutputAgrees, TypeOK, StreamingAgrees,
         ConverterFits, DecodedAreActive, NothingBefore, ActiveIsProfile
<1> QED BY <1>1, <1>2, <1>3, <1>4, <1>5, <1>6, <1>7 DEF Next

\* While the task streams, the device, the converter, the output and the task
\* agree, and only pictures of the active profile are in the decoder, whatever
\* failed before (OutputDevice::commit, Device::set_format, stream_connection).
THEOREM OutputAlwaysAgrees == Spec => []OutputAgrees
<1> QED BY InitSafe, NextSafe, PTL DEF Spec, Safe

\* A picture that is written while the task streams fits the output and the
\* device.
LEMMA StreamingFits ==
  ASSUME Safe, WriteFrame, mode = "streaming"
  PROVE  UNCHANGED <<misfit, refused>>
<1>1. Head(decoded) = active
  <2>1. decoded # <<>> /\ decoded \in Seq(Profiles)
    BY DEF WriteFrame, Safe, OutputAgrees, TypeOK
  <2>2. Head(decoded) = decoded[1] /\ 1 \in DOMAIN decoded
    BY <2>1
  <2> QED BY <2>2 DEF Safe, OutputAgrees, DecodedAreActive
<1>2. device = active /\ committed = active
  BY DEF Safe, OutputAgrees, StreamingAgrees
<1>3. misfit \in BOOLEAN
  BY DEF Safe, OutputAgrees, TypeOK
<1> QED BY <1>1, <1>2, <1>3 DEF WriteFrame

\* A picture is refused, or reaches a device of another format, only while a
\* failed change is being compensated (OutputDevice::write_frame).
THEOREM TroubleIsCompensated == Spec => TroubleNeedsFailure
<1>1. Safe /\ [Next]_vars => [(misfit' # misfit \/ refused' # refused) => mode = "compensating"]_vars
  <2> SUFFICES ASSUME Safe, [Next]_vars, misfit' # misfit \/ refused' # refused
               PROVE  mode = "compensating"
    OBVIOUS
  <2>1. WriteFrame
    BY DEF Next, Start, Change, Restore, Leave, Decode, vars
  <2> QED BY <2>1, StreamingFits DEF WriteFrame
<1> QED
  BY <1>1, InitSafe, NextSafe, PTL DEF Spec, TroubleNeedsFailure
=============================================================================
