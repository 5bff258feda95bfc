---------------------------- MODULE PacketStream ----------------------------
(***************************************************************************)
(* The pictures on their way from the desktop (driver_windows.rs,          *)
(* driver_macos.rs) into the virtual camera (frame_receiver.cpp,           *)
(* IPCReceiver.swift): packets written to a pipe or socket, which cuts     *)
(* them into pieces, and put together again by the receiver.               *)
(*                                                                         *)
(* Bytes are grouped into cells: a header is HeaderCells of them and every *)
(* payload a multiple of that, as 16 divides the size of every NV12 picture*)
(* the code knows.  A cell is named by its packet and its place in it; no  *)
(* piece of a picture looks like a header.                                 *)
(*                                                                         *)
(* Windows and macOS differ in what becomes of the bytes of an incomplete  *)
(* packet when its connection ends (KeepsPending) and in whether anything  *)
(* limits the bytes the receiver holds (Fits).                             *)
(***************************************************************************)
EXTENDS Naturals, Sequences, NativeDriver

CONSTANTS Packets,        \* bound on the packets of a behaviour
          PayloadOf,      \* cells of a packet's picture
          HeaderCells,    \* cells of FRAME_HEADER_SIZE bytes
          PipeRoom,       \* cells the pipe or socket holds
          ReadSize,       \* cells of the receiver's read buffer
          PendingLimit,   \* cells of kMaxPendingBytes
          ConnectLimit    \* bound on the connections of a behaviour

ASSUME SizeAssumption ==
  /\ {Packets, PipeRoom, ReadSize, ConnectLimit, PendingLimit} \subseteq Nat
  /\ HeaderCells \in Nat \ {0}
  /\ PayloadOf \in [1 .. Packets -> Nat]
  /\ \A p \in 1 .. Packets : PayloadOf[p] % HeaderCells = 0
\* kMaximumNv12Bytes: the largest picture just fits.
ASSUME LimitAssumption ==
  \A p \in 1 .. Packets : HeaderCells + PayloadOf[p] <= PendingLimit

VARIABLES conn,        \* "up", "hungup" (by the desktop) or "down"
          written,     \* packets begun so far
          toWrite,     \* cells of the current packet not yet written
          wire,        \* cells inside the pipe
          pending,     \* pending_bytes_, pendingData
          published,   \* history: the packets handed on, as sequences of cells
          sessions,    \* connections made so far
          discarded,   \* history: the limit threw cells away
          first,       \* history: the first packet of this connection
          leftover     \* history: a connection began with cells pending

packetVars == <<platform, conn, written, toWrite, wire, pending, published, sessions,
                discarded, first, leftover>>

\* pending_bytes_ outlives a connection; on macOS pendingData does not.
KeepsPending == platform = "windows"

\* macOS has no limit.
Fits(cells) == platform = "windows" => Len(cells) <= PendingLimit

Cell == (1 .. Packets) \X Nat
Packet(p) == [i \in 1 .. HeaderCells + PayloadOf[p] |-> <<p, i>>]

PacketTypeOK ==
  /\ platform \in Platforms
  /\ conn \in {"up", "hungup", "down"}
  /\ written \in 0 .. Packets /\ first \in 1 .. Packets + 1
  /\ {toWrite, wire, pending} \subseteq Seq(Cell)
  /\ published \in Seq(Seq(Cell))
  /\ Len(wire) <= PipeRoom
  /\ Fits(pending)
  /\ sessions \in 0 .. ConnectLimit
  /\ {discarded, leftover} \subseteq BOOLEAN

PacketInit ==
  /\ platform \in Platforms
  /\ conn = "down" /\ sessions = 0
  /\ written = 0 /\ first = 1
  /\ toWrite = <<>> /\ wire = <<>> /\ pending = <<>> /\ published = <<>>
  /\ discarded = FALSE /\ leftover = FALSE

-----------------------------------------------------------------------------
(* The desktop *)

\* connect: a fresh pipe or socket.
Connect ==
  /\ conn = "down" /\ sessions < ConnectLimit
  /\ conn' = "up"
  /\ sessions' = sessions + 1
  /\ first' = written + 1
  /\ leftover' = (leftover \/ pending # <<>>)
  /\ UNCHANGED <<platform, written, toWrite, wire, pending, published,
                 discarded>>

\* write_frame: the header and the picture, in two writes of all their bytes.
WriteFrame ==
  /\ conn = "up" /\ toWrite = <<>>
  /\ written < Packets
  /\ written' = written + 1
  /\ toWrite' = Packet(written + 1)
  /\ UNCHANGED <<platform, conn, wire, pending, published, sessions,
                 discarded, first, leftover>>

\* One turn of write_all_to_pipe: the system takes what it has room for.
WritePiece(n) ==
  /\ conn = "up"
  /\ n <= Len(toWrite)
  /\ Len(wire) + n <= PipeRoom
  /\ wire' = wire \o SubSeq(toWrite, 1, n)
  /\ toWrite' = SubSeq(toWrite, n + 1, Len(toWrite))
  /\ UNCHANGED <<platform, conn, written, pending, published, sessions,
                 discarded, first, leftover>>

\* disconnect, or the desktop dies; what is in the pipe can still be read.
HangUp ==
  /\ conn = "up"
  /\ conn' = "hungup"
  /\ toWrite' = <<>>
  /\ UNCHANGED <<platform, written, wire, pending, published, sessions,
                 discarded, first, leftover>>

-----------------------------------------------------------------------------
(* The receiver.  A turn of the loop of ProcessBytes is a step; the next   *)
(* read waits for the end of the loop.                                     *)

HeaderParses ==
  /\ Len(pending) >= HeaderCells
  /\ \E p \in 1 .. Packets : \A i \in 1 .. HeaderCells : pending[i] = <<p, i>>

Announced == HeaderCells + PayloadOf[pending[1][1]]

Drop(n) == pending' = SubSeq(pending, n + 1, Len(pending))

PacketComplete == HeaderParses /\ Len(pending) >= Announced

TakePacket ==
  /\ PacketComplete
  /\ published' = Append(published, SubSeq(pending, 1, Announced))
  /\ Drop(Announced)
  /\ UNCHANGED <<platform, conn, written, toWrite, wire, sessions, discarded,
                 first, leftover>>

SkipHeader ==
  /\ Len(pending) >= HeaderCells /\ ~HeaderParses
  /\ Drop(HeaderCells)
  /\ UNCHANGED <<platform, conn, written, toWrite, wire, published, sessions,
                 discarded, first, leftover>>

Looping == PacketComplete \/ (Len(pending) >= HeaderCells /\ ~HeaderParses)

\* Mutant: the cells that were pending are forgotten by the next read.
ReadOver(n) ==
  /\ conn # "down" /\ ~Looping
  /\ n <= Len(wire)
  /\ pending' = SubSeq(wire, 1, n)
  /\ wire' = SubSeq(wire, n + 1, Len(wire))
  /\ UNCHANGED <<platform, conn, written, toWrite, published, sessions, first,
                 discarded, leftover>>

\* The read comes first, the limit next: more than the limit is all dropped.
Read(n) ==
  LET held == pending \o SubSeq(wire, 1, n) IN
  /\ conn # "down" /\ ~Looping
  /\ n <= Len(wire)
  /\ IF Fits(held)
     THEN pending' = held /\ UNCHANGED discarded
     ELSE pending' = <<>> /\ discarded' = TRUE
  /\ wire' = SubSeq(wire, n + 1, Len(wire))
  /\ UNCHANGED <<platform, conn, written, toWrite, published, sessions, first,
                 leftover>>

\* Mutant: the receiver goes while the desktop's last bytes are in the pipe
\* and keeps what it had.
CloseForgetful ==
  /\ conn # "down" /\ ~Looping
  /\ conn' = "down"
  /\ toWrite' = <<>> /\ wire' = <<>>
  /\ UNCHANGED <<platform, written, pending, published, sessions, discarded,
                 first, leftover>>

\* The receiver sees the end of the stream, or is stopped by its program.
Close ==
  /\ conn # "down" /\ ~Looping
  /\ conn' = "down"
  /\ toWrite' = <<>> /\ wire' = <<>>
  /\ pending' = IF KeepsPending THEN pending ELSE <<>>
  /\ UNCHANGED <<platform, written, published, sessions, discarded, first,
                 leftover>>

-----------------------------------------------------------------------------

PacketNext ==
  \/ Connect \/ WriteFrame \/ HangUp
  \/ \E n \in 1 .. PipeRoom : WritePiece(n)
  \/ TakePacket \/ SkipHeader \/ Close
  \/ \E n \in 1 .. ReadSize : Read(n)

PacketSpec == PacketInit /\ [][PacketNext]_packetVars

-----------------------------------------------------------------------------

Whole(picture) == \E p \in 1 .. Packets : picture = Packet(p)

NumberOf(picture) == picture[1][1]

InOrder ==
  \A i, j \in DOMAIN published : i < j => NumberOf(published[i]) < NumberOf(published[j])

Leftovers == KeepsPending /\ leftover

\* Pictures come out in the order they were written, none comes twice, and
\* whatever the pieces they arrived in, none is made of two (the frame format
\* of both READMEs), unless cells of an earlier connection stand in front.
WholeAndInOrder ==
  /\ PacketTypeOK
  /\ InOrder
  /\ Leftovers \/ \A i \in DOMAIN published : Whole(published[i])

Settled == conn = "up" /\ toWrite = <<>> /\ wire = <<>> /\ ~Looping

\* What the packets of this connection have become once all is read: nothing
\* of them is held back, every one was handed on.
EveryPictureArrived ==
  written >= first =>
    /\ pending = <<>>
    /\ first .. written \subseteq {NumberOf(published[i]) : i \in DOMAIN published}

\* The two ways a picture can be lost on an open connection: the receiver
\* threw away what was above its limit, although each picture alone is below
\* it, or cells an earlier connection left behind; both on Windows only.
LostOnlyByLimitOrLeftovers ==
  Settled /\ ~discarded /\ ~Leftovers => EveryPictureArrived
=============================================================================
