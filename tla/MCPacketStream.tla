--------------------------- MODULE MCPacketStream ---------------------------
(* Sizes of pictures for TLC, in cells: three of the largest, one smaller. *)
EXTENDS PacketStream
Pictures == <<4, 4, 2, 4>>
=============================================================================
