-------------------------------- MODULE Link --------------------------------
(***************************************************************************)
(* One transport connection between the phone and the desktop, as the      *)
(* layers above it see it: a FIFO queue of messages per direction.  A queue*)
(* stands for the sender's outbound channel, the socket and the receiver's *)
(* inbound channel together; its capacity is what fits in all of them.     *)
(* Keepalives never leave the transport and are not here.                  *)
(***************************************************************************)
EXTENDS Profiles

CONSTANTS PhoneQueue,     \* capacity of the queue from the phone
          DesktopQueue,   \* capacity of the queue from the desktop
          RequestLimit    \* bound on the request ids of one connection

ASSUME QueueAssumption == PhoneQueue \in Nat \ {0} /\ DesktopQueue \in Nat \ {0}
ASSUME RequestLimitAssumption == RequestLimit \in Nat \ {0}

VARIABLES link,   \* "up" while both ends hold the connection
          d2p,    \* messages from the desktop to the phone
          p2d     \* messages from the phone to the desktop
linkVars == <<link, d2p, p2d>>

RequestIds == 1 .. RequestLimit

-----------------------------------------------------------------------------
(* CameraControl messages of the desktop *)

ConfigureStream(id, profile) == [type |-> "configure", id |-> id, profile |-> profile]
RequestKeyframe == [type |-> "keyframe"]
SwitchCamera == [type |-> "switch"]

DesktopMessage == [type : {"configure"}, id : RequestIds, profile : StreamProfile]
                  \cup {RequestKeyframe, SwitchCamera}

(* Messages of the phone.  A result without a profile is any outcome other *)
(* than Applied.                                                           *)

VideoFrame(kind, keyframe) == [type |-> "frame", kind |-> kind, key |-> keyframe]
CapabilitiesUpdate(profiles) == [type |-> "capabilities", profiles |-> profiles]
ConfigurationResult(id, profile) == [type |-> "result", id |-> id, profile |-> profile]

PhoneMessage == [type : {"frame"}, kind : FrameKind, key : BOOLEAN]
                \cup [type : {"capabilities"}, profiles : SUBSET StreamProfile]
                \cup [type : {"result"}, id : RequestIds \cup {0},
                      profile : StreamProfile \cup {NoProfile}]

-----------------------------------------------------------------------------

LinkTypeOK == /\ link \in {"up", "down"}
              /\ d2p \in Seq(DesktopMessage)
              /\ p2d \in Seq(PhoneMessage)

LinkInit == /\ link = "down"
            /\ d2p = <<>>
            /\ p2d = <<>>

\* What may be left of a queue when its connection goes away.
Remains(queue) == {SubSeq(queue, 1, k) : k \in 0 .. Len(queue)}

\* try_send of the phone: fails when the queue is full or the link is gone.
PhoneCanEnqueue == link = "up" /\ Len(p2d) < PhoneQueue

\* send().await of the desktop: waits for room.
DesktopCanSend == link = "up" /\ Len(d2p) < DesktopQueue

\* The network fails, or a keepalive times out: both workers stop, what was
\* already read on each side stays readable.
LinkDrop == /\ link = "up"
            /\ link' = "down"
            /\ d2p' \in Remains(d2p)
            /\ p2d' \in Remains(p2d)
=============================================================================
