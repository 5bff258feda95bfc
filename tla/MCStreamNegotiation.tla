------------------------- MODULE MCStreamNegotiation -------------------------
(***************************************************************************)
(* Values for model checking StreamNegotiation.  Changes of codec, of size *)
(* and of rate alone are all possible.                                     *)
(***************************************************************************)
EXTENDS StreamNegotiation

MCSizes == {"hd", "fhd"}

H264(m) == [codec |-> "h264", mode |-> m]
Hevc(m) == [codec |-> "hevc", mode |-> m]

SmallModes == {"hd30", "fhd30"}
SmallSizeOf == [m \in SmallModes |-> IF m = "fhd30" THEN "fhd" ELSE "hd"]
SmallLocal == {H264("hd30"), Hevc("hd30"), H264("fhd30")}

\* A desktop that takes both codecs everywhere; an Android phone that has no
\* H.264 at fhd; an iPhone with one mode and both codecs, the second of which
\* its front camera has no encoder for.
BothLocal == SmallLocal \cup {Hevc("fhd30")}
Android == {H264("hd30"), Hevc("hd30"), Hevc("fhd30")}
Iphone == {H264("hd30"), Hevc("hd30")}
IphoneCameras == {Iphone, {H264("hd30")}}

BothPhones == {"android", "ios"}
BothOffer == [x \in BothPhones |-> IF x = "ios" THEN Iphone ELSE Android]
SmallPhones == [x \in {"android"} |-> SmallLocal]

\* Two profiles of one codec and different sizes, for frames in flight.
PairLocal == {H264("hd30"), H264("fhd30")}
PairPhones == [x \in {"android"} |-> PairLocal]

OneConnection == [x \in {"android"} |-> 1]
\* An Android phone may come back after a loss.
Reconnecting == [x \in BothPhones |-> IF x = "android" THEN 2 ELSE 1]
=============================================================================
