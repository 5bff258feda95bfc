----------------------------- MODULE LinuxOutput -----------------------------
(***************************************************************************)
(* The V4L2 output of the desktop (output.rs, phonecam-driver-linux's      *)
(* device.rs) while the stream task (pipeline.rs) moves it from profile to *)
(* profile: the format of the device, the one the output has committed and *)
(* the one the task believes in change one after the other, every step may *)
(* fail, and pictures of the old profile are still coming out of the       *)
(* decoder.                                                                *)
(***************************************************************************)
EXTENDS Naturals, Sequences

CONSTANTS Sizes, Rates,     \* what tells output profiles apart
          DecodedLimit,     \* bound on the pictures inside the decoder
          ChangeLimit,      \* bound on the changes of profile
          NoProfile

Profiles == [size : Sizes, fps : Rates]

ASSUME BoundAssumption == DecodedLimit \in Nat /\ ChangeLimit \in Nat
ASSUME NoProfileAssumption == NoProfile \notin Profiles

VARIABLES device,     \* the format the device has
          converter,  \* size the converter was made for
          committed,  \* committed_profile
          active,     \* the task's active profile
          decoded,    \* pictures in the decoder's queues
          mode,       \* "starting", "streaming", "compensating" or "ended"
          changes,    \* changes of profile so far
          misfit,     \* history: a picture was written to a device of another format
          refused     \* history: write_frame refused a picture

outputVars == <<device, converter, committed>>
taskVars == <<active, mode, changes>>
vars == <<outputVars, taskVars, decoded, misfit, refused>>

TypeOK ==
  /\ device \in Profiles
  /\ converter \in Sizes \cup {NoProfile}
  /\ {committed, active} \subseteq Profiles \cup {NoProfile}
  /\ decoded \in Seq(Profiles) /\ Len(decoded) <= DecodedLimit
  /\ mode \in {"starting", "streaming", "compensating", "ended"}
  /\ changes \in 0 .. ChangeLimit
  /\ {misfit, refused} \subseteq BOOLEAN

\* The device has whatever format it was left with.
Init ==
  /\ device \in Profiles
  /\ converter = NoProfile /\ committed = NoProfile /\ active = NoProfile
  /\ decoded = <<>> /\ mode = "starting" /\ changes = 0
  /\ misfit = FALSE /\ refused = FALSE

-----------------------------------------------------------------------------
(* OutputDevice::commit *)

\* The device does not take the size, or takes it and not the frame rate: it
\* keeps what it has taken.
CommitFails(p) ==
  /\ device' \in {device} \cup [size : Sizes, fps : {device.fps}] \cup [size : {p.size}, fps : Rates]
  /\ UNCHANGED <<converter, committed>>

CommitSucceeds(p) ==
  /\ device' = p
  /\ converter' = p.size
  /\ committed' = p

\* Mutant: the pictures of the old profile stay.
AdoptUndrained(p) ==
  /\ CommitSucceeds(p)
  /\ active' = p /\ mode' = "streaming"
  /\ UNCHANGED decoded

\* The profile becomes active: the reset of the decoder drops its pictures.
Adopt(p) ==
  /\ CommitSucceeds(p)
  /\ active' = p /\ mode' = "streaming"
  /\ decoded' = <<>>

\* The output or, behind it, the reset of the decoder fails.
Fails(p, next) ==
  /\ CommitFails(p) \/ CommitSucceeds(p)
  /\ mode' = next
  /\ UNCHANGED <<active, decoded>>

-----------------------------------------------------------------------------
(* The stream task *)

\* The phone's first profile.
Start(p) ==
  /\ mode = "starting"
  /\ Adopt(p) \/ Fails(p, "ended")
  /\ UNCHANGED <<changes, misfit, refused>>

\* Mutant: after a failure the stream goes on as before.
ChangeUncompensated(p) ==
  /\ mode = "streaming" /\ changes < ChangeLimit
  /\ changes' = changes + 1
  /\ Adopt(p) \/ Fails(p, "streaming")
  /\ UNCHANGED <<misfit, refused>>

\* The phone has applied another profile, asked to or by itself.  A failure
\* sends it back to the active one.
Change(p) ==
  /\ mode = "streaming" /\ changes < ChangeLimit
  /\ changes' = changes + 1
  /\ Adopt(p) \/ Fails(p, "compensating")
  /\ UNCHANGED <<misfit, refused>>

\* The phone is back; when the output or the decoder is not, the run ends.
Restore ==
  /\ mode = "compensating"
  /\ Adopt(active) \/ Fails(active, "ended")
  /\ UNCHANGED <<changes, misfit, refused>>

\* The phone cannot go back, goes away, or the user stops the run.
Leave ==
  /\ mode \in {"streaming", "compensating"}
  /\ mode' = "ended"
  /\ UNCHANGED <<outputVars, active, changes, decoded, misfit, refused>>

\* A picture of a frame of the active profile.  The phone sends none while it
\* is on another profile, but those it sent before are still being decoded.
Decode ==
  /\ mode \in {"streaming", "compensating"}
  /\ Len(decoded) < DecodedLimit
  /\ decoded' = Append(decoded, active)
  /\ UNCHANGED <<outputVars, taskVars, misfit, refused>>

\* write_frame compares the picture with the committed profile, never with
\* the device; a picture that is refused ends the run.
WriteFrame ==
  /\ mode \in {"streaming", "compensating"} /\ decoded # <<>>
  /\ decoded' = Tail(decoded)
  /\ IF Head(decoded).size = committed.size
     THEN /\ misfit' = (misfit \/ device # Head(decoded))
          /\ UNCHANGED <<refused, mode>>
     ELSE /\ refused' = TRUE
          /\ mode' = "ended"
          /\ UNCHANGED misfit
  /\ UNCHANGED <<outputVars, active, changes>>

Next ==
  \/ \E p \in Profiles : Start(p) \/ Change(p)
  \/ Restore \/ Leave \/ Decode \/ WriteFrame

Spec == Init /\ [][Next]_vars

-----------------------------------------------------------------------------

StreamingAgrees ==
  mode = "streaming" =>
    device = active /\ committed = active /\ converter = active.size

ConverterFits == converter = IF committed = NoProfile THEN NoProfile ELSE committed.size

DecodedAreActive == \A i \in DOMAIN decoded : decoded[i] = active

\* While the task streams, the device, the converter, the output and the task
\* agree on the profile, whatever failed on the way there; the converter is
\* always the committed profile's, and no picture in the decoder is older than
\* the last change that succeeded.
OutputAgrees == TypeOK /\ StreamingAgrees /\ ConverterFits /\ DecodedAreActive

\* A picture is refused, and one reaches a device of another format, only
\* behind a change that failed.
TroubleNeedsFailure ==
  [][(misfit' # misfit \/ refused' # refused) => mode = "compensating"]_vars
=============================================================================
