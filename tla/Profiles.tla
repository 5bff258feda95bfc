------------------------------ MODULE Profiles ------------------------------
(***************************************************************************)
(* Stream profiles and the pure rules both ends of PhoneCam apply to them  *)
(* (phonecam-protocol, the desktop pipeline, the Android StreamManager).   *)
(*                                                                         *)
(* A StreamProfile of the code is a codec, a width, a height and a frame   *)
(* rate.  Codecs are kept; the other three fields, always compared         *)
(* together, are one abstract "mode".  SizeOf gives the picture size of a  *)
(* mode: frames carry the size and not the rate, so two modes may share it.*)
(***************************************************************************)
EXTENDS Naturals, Sequences

CONSTANTS Modes,    \* width x height x fps combinations that validate
          Sizes,    \* width x height
          SizeOf    \* the size of each mode

ASSUME SizeOfAssumption == SizeOf \in [Modes -> Sizes]

Codecs == {"h264", "hevc"}
StreamProfile == [codec : Codecs, mode : Modes]

\* Stands for the absence of a profile: Option::None, or an outcome other
\* than Applied.
NoProfile == [codec |-> "none"]

\* What a VideoFrame says of itself, and what the check of a frame against
\* the active profile compares: codec, width and height, but not the rate.
FrameKind == [codec : Codecs, size : Sizes]
KindOf(p) == [codec |-> p.codec, size |-> SizeOf[p.mode]]

CommonProfiles(local, peer) == {p \in local : p \in peer}

-----------------------------------------------------------------------------

Preferences == {"auto", "h264", "hevc"}

CodecOrder(preference) ==
  IF preference = "auto" THEN <<"hevc", "h264">> ELSE <<preference>>

\* The first codec of the preference order that has the mode in common.
ResolveProfile(common, mode, preference) ==
  LET order == CodecOrder(preference)
      offered == {i \in DOMAIN order : [codec |-> order[i], mode |-> mode] \in common}
  IN  IF offered = {} THEN NoProfile
      ELSE [codec |-> order[CHOOSE i \in offered : \A j \in offered : i <= j],
            mode  |-> mode]

\* A phone may answer with another codec, never with another mode.
AcceptsAppliedProfile(common, requested, applied) ==
  /\ applied \in common
  /\ applied.mode = requested.mode

\* A u32 counter that skips zero, the id of unsolicited results.
NextRequestId(counter, maxId) ==
  LET next == (counter + 1) % (maxId + 1) IN IF next = 0 THEN 1 ELSE next

\* What Android tries for a request, in order: the profile itself, then its
\* H.264 twin when the phone offers it.
ConfigurationCandidates(requested, supported) ==
  LET twin == [requested EXCEPT !.codec = "h264"]
  IN  IF requested.codec = "hevc" /\ twin \in supported
      THEN <<requested, twin>> ELSE <<requested>>
=============================================================================
