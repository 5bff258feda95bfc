---------------------------- MODULE NativeDriver ----------------------------
(***************************************************************************)
(* The native virtual cameras of the desktop.  Windows (driver_windows.rs, *)
(* frame_receiver.cpp) and macOS (driver_macos.rs, IPCReceiver.swift) speak*)
(* one protocol, pictures one way and format events the other; the two     *)
(* directions are PacketStream and NativeOutput.  Which of the two cameras *)
(* it is never changes.                                                    *)
(***************************************************************************)
VARIABLE platform

Platforms == {"windows", "macos"}
=============================================================================
