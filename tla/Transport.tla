----------------------------- MODULE Transport -----------------------------
(***************************************************************************)
(* One connection of phonecam-transport, from the handshake to its end.    *)
(* Each end has an outbound and an inbound channel, a writer task, a reader*)
(* task and a lifecycle task.  Between the ends is the network: a bounded  *)
(* buffer of whole frames per direction, which may be cut at any time.     *)
(*                                                                         *)
(* Time passes in steps of the keepalive interval.  A task that can go on  *)
(* does so before the next step (Prompt); the programs that hold the ends  *)
(* take as long as they like.                                              *)
(***************************************************************************)
EXTENDS Naturals, Sequences

CONSTANTS OutboundCapacity,  \* OUTBOUND_CHANNEL_CAPACITY
          InboundCapacity,   \* INBOUND_CHANNEL_CAPACITY
          WireCapacity,      \* frames the sockets hold in one direction
          KeepaliveTimeout,  \* in keepalive intervals; HANDSHAKE_TIMEOUT is the same
          ConnectTimeout,    \* CONNECT_TIMEOUT of the phone, which is shorter
          PhoneLimit,        \* bound on the messages of the phone
          DesktopLimit,      \* and of the desktop
          Oversized          \* numbers of messages encode_frame refuses

ASSUME CapacityAssumption ==
    {OutboundCapacity, InboundCapacity, WireCapacity, KeepaliveTimeout} \subseteq Nat \ {0}
ASSUME TimeoutAssumption == KeepaliveTimeout > 1 /\ ConnectTimeout \in 1 .. KeepaliveTimeout
ASSUME LimitAssumption == {PhoneLimit, DesktopLimit} \subseteq Nat

End == {"phone", "desktop"}
Peer(e) == IF e = "phone" THEN "desktop" ELSE "phone"

Data(n) == [type |-> "data", n |-> n]
Ping == [type |-> "ping", n |-> 0]
Hello == [type |-> "hello", n |-> 0]
Limit(e) == IF e = "phone" THEN PhoneLimit ELSE DesktopLimit
Payload == UNION {{Data(n) : n \in 1 .. Limit(e)} : e \in End}
Frame == Payload \cup {Ping, Hello}

ASSUME OversizedAssumption == Oversized \subseteq Nat

VARIABLES
    net,         \* "ok" or "cut"
    compatible,  \* whether the two handshakes suit each other
    stage,       \* stage[e]: how far build_connection and the lifecycle task are
    held,        \* held[e]: the program still holds the connection
    writer,      \* writer[e]: "none", "running" or "ended"
    reader,      \* reader[e]: the same
    out,         \* out[e]: the outbound channel
    writing,     \* writing[e]: what the writer is in write_all with
    wire,        \* wire[e]: frames from e that the peer has not read
    delivering,  \* delivering[e]: what the reader is in inbound_tx.send with
    inn,         \* inn[e]: the inbound channel
    due,         \* due[e]: the keepalive interval has a tick for the writer
    quiet,       \* quiet[e]: intervals the reader has waited for a message
    sent         \* sent[e]: messages accepted from the program

channels == <<out, writing, wire, delivering, inn>>
workers == <<stage, writer, reader>>
clocks == <<due, quiet>>
vars == <<net, compatible, stage, held, writer, reader, out, writing, wire,
          delivering, inn, due, quiet, sent>>

TypeOK ==
    /\ net \in {"ok", "cut"}
    /\ compatible \in BOOLEAN
    /\ stage \in [End -> {"connecting", "greeted", "failed", "streaming",
                          "aborting", "disconnected", "gone"}]
    /\ held \in [End -> BOOLEAN]
    /\ writer \in [End -> {"none", "running", "ended"}]
    /\ reader \in [End -> {"none", "running", "ended"}]
    /\ out \in [End -> Seq(Payload)]
    /\ writing \in [End -> {<<>>} \cup {<<m>> : m \in Payload \cup {Ping}}]
    /\ wire \in [End -> Seq(Frame)]
    /\ delivering \in [End -> {<<>>} \cup {<<m>> : m \in Payload}]
    /\ inn \in [End -> Seq(Payload)]
    /\ due \in [End -> BOOLEAN]
    /\ quiet \in [End -> 0 .. KeepaliveTimeout]
    /\ sent \in [End -> Nat]
    /\ \A e \in End : /\ Len(out[e]) <= OutboundCapacity
                      /\ Len(wire[e]) <= WireCapacity
                      /\ Len(inn[e]) <= InboundCapacity
                      /\ sent[e] <= Limit(e)

Init ==
    /\ net = "ok"
    /\ compatible \in BOOLEAN
    /\ stage = [e \in End |-> "connecting"]
    /\ held = [e \in End |-> TRUE]
    /\ writer = [e \in End |-> "none"]
    /\ reader = [e \in End |-> "none"]
    /\ out = [e \in End |-> <<>>]
    /\ writing = [e \in End |-> <<>>]
    /\ wire = [e \in End |-> <<>>]
    /\ delivering = [e \in End |-> <<>>]
    /\ inn = [e \in End |-> <<>>]
    /\ due = [e \in End |-> FALSE]
    /\ quiet = [e \in End |-> 0]
    /\ sent = [e \in End |-> 0]

-----------------------------------------------------------------------------
(* The socket *)

Handshaking(e) == stage[e] \in {"connecting", "greeted"}

\* Dropping the write half shuts that direction down, dropping both closes.
ShutDown(e) == stage[e] = "failed" \/ writer[e] = "ended"
Closed(e) == stage[e] = "failed" \/ (writer[e] = "ended" /\ reader[e] = "ended")

Remains(queue) == {SubSeq(queue, 1, k) : k \in 0 .. Len(queue)}

\* Nothing more will come from the peer.
EndOfStream(e) == wire[Peer(e)] = <<>> /\ net = "ok" /\ ShutDown(Peer(e))
Expired(e) == wire[Peer(e)] = <<>> /\ quiet[e] = KeepaliveTimeout

RoomOnWire(e) == net = "ok" /\ ~Closed(Peer(e)) /\ Len(wire[e]) < WireCapacity

\* The network goes down; some of what was on the way has arrived.
Cut ==
    /\ net = "ok"
    /\ net' = "cut"
    /\ \E w \in Remains(wire["phone"]), v \in Remains(wire["desktop"]) :
          wire' = [e \in End |-> IF e = "phone" THEN w ELSE v]
    /\ UNCHANGED <<compatible, stage, held, writer, reader, out, writing,
                   delivering, inn, due, quiet, sent>>

\* A socket that is closed may be reset, and the peer loses what it had not
\* read yet.
Reset(e) ==
    /\ Closed(e)
    /\ net = "ok"
    /\ wire[e] # <<>>
    /\ \E w \in Remains(wire[e]) : wire' = [wire EXCEPT ![e] = w]
    /\ UNCHANGED <<net, compatible, stage, held, writer, reader, out, writing,
                   delivering, inn, due, quiet, sent>>

-----------------------------------------------------------------------------
(* build_connection *)

Greet(e) ==
    /\ stage[e] = "connecting"
    /\ RoomOnWire(e)
    /\ wire' = [wire EXCEPT ![e] = Append(@, Hello)]
    /\ stage' = [stage EXCEPT ![e] = "greeted"]
    /\ UNCHANGED <<net, compatible, held, writer, reader, out, writing,
                   delivering, inn, due, quiet, sent>>

\* The peer's handshake is validated, then the tasks are spawned; the first
\* tick of the keepalive interval is due at once.
Greeted(e) ==
    /\ stage[e] = "greeted"
    /\ wire[Peer(e)] # <<>>
    /\ wire' = [wire EXCEPT ![Peer(e)] = Tail(@)]
    /\ IF compatible
       THEN /\ stage' = [stage EXCEPT ![e] = "streaming"]
            /\ writer' = [writer EXCEPT ![e] = "running"]
            /\ reader' = [reader EXCEPT ![e] = "running"]
            /\ due' = [due EXCEPT ![e] = TRUE]
            /\ quiet' = [quiet EXCEPT ![e] = 0]
       ELSE /\ stage' = [stage EXCEPT ![e] = "failed"]
            /\ UNCHANGED <<writer, reader, due, quiet>>
    /\ UNCHANGED <<net, compatible, held, out, writing, delivering, inn, sent>>

Patience(e) == IF e = "phone" THEN ConnectTimeout ELSE KeepaliveTimeout

\* The peer is gone, or build_connection has taken too long.
HandshakeBroken(e) ==
    \/ stage[e] = "connecting" /\ net = "ok" /\ Closed(Peer(e))
    \/ stage[e] = "greeted" /\ EndOfStream(e)
    \/ Handshaking(e) /\ quiet[e] >= Patience(e)

HandshakeFails(e) ==
    /\ HandshakeBroken(e)
    /\ stage' = [stage EXCEPT ![e] = "failed"]
    /\ UNCHANGED <<net, compatible, held, writer, reader, clocks, channels, sent>>

-----------------------------------------------------------------------------
(* writer_loop *)

Idle(e) == writer[e] = "running" /\ writing[e] = <<>>

\* The task's future is dropped with its half of the socket and its channel.
WriterEnds(e) ==
    /\ writer' = [writer EXCEPT ![e] = "ended"]
    /\ writing' = [writing EXCEPT ![e] = <<>>]
    /\ out' = [out EXCEPT ![e] = <<>>]

TakeMessage(e) ==
    /\ Idle(e)
    /\ out[e] # <<>>
    /\ Head(out[e]).n \notin Oversized
    /\ writing' = [writing EXCEPT ![e] = <<Head(out[e])>>]
    /\ out' = [out EXCEPT ![e] = Tail(@)]
    /\ UNCHANGED <<net, compatible, workers, held, wire, delivering, inn, clocks, sent>>

EncodeFails(e) ==
    /\ Idle(e)
    /\ out[e] # <<>>
    /\ Head(out[e]).n \in Oversized
    /\ WriterEnds(e)
    /\ UNCHANGED <<net, compatible, stage, held, reader, wire, delivering, inn,
                   clocks, sent>>

\* Mutants: a tick drops the future of a write_all that is under way; the tick
\* is not used up.
PingCancelsWrite(e) ==
    /\ writer[e] = "running"
    /\ due[e]
    /\ writing' = [writing EXCEPT ![e] = <<Ping>>]
    /\ due' = [due EXCEPT ![e] = FALSE]
    /\ UNCHANGED <<net, compatible, workers, held, out, wire, delivering, inn,
                   quiet, sent>>
PingAgain(e) ==
    /\ Idle(e)
    /\ due[e]
    /\ writing' = [writing EXCEPT ![e] = <<Ping>>]
    /\ UNCHANGED <<net, compatible, workers, held, out, wire, delivering, inn,
                   clocks, sent>>

TakePing(e) ==
    /\ Idle(e)
    /\ due[e]
    /\ writing' = [writing EXCEPT ![e] = <<Ping>>]
    /\ due' = [due EXCEPT ![e] = FALSE]
    /\ UNCHANGED <<net, compatible, workers, held, out, wire, delivering, inn,
                   quiet, sent>>

\* Every sender is dropped and the channel is empty.
ChannelClosed(e) ==
    /\ Idle(e)
    /\ out[e] = <<>>
    /\ ~held[e]
    /\ WriterEnds(e)
    /\ UNCHANGED <<net, compatible, stage, held, reader, wire, delivering, inn,
                   clocks, sent>>

Write(e) ==
    /\ writing[e] # <<>>
    /\ RoomOnWire(e)
    /\ wire' = [wire EXCEPT ![e] = Append(@, Head(writing[e]))]
    /\ writing' = [writing EXCEPT ![e] = <<>>]
    /\ UNCHANGED <<net, compatible, workers, held, out, delivering, inn, clocks, sent>>

WriteFails(e) ==
    /\ writing[e] # <<>>
    /\ net = "ok" /\ Closed(Peer(e))
    /\ WriterEnds(e)
    /\ UNCHANGED <<net, compatible, stage, held, reader, wire, delivering, inn,
                   clocks, sent>>

\* On a dead network the socket takes some more, or gives up at some time.
WriteIntoVoid(e) ==
    /\ writing[e] # <<>>
    /\ net = "cut"
    /\ \/ WriterEnds(e)
       \/ /\ writing' = [writing EXCEPT ![e] = <<>>]
          /\ UNCHANGED <<writer, out>>
    /\ UNCHANGED <<net, compatible, stage, held, reader, wire, delivering, inn,
                   clocks, sent>>

-----------------------------------------------------------------------------
(* reader_loop *)

Awaiting(e) == reader[e] = "running" /\ delivering[e] = <<>>

ReaderEnds(e) ==
    /\ reader' = [reader EXCEPT ![e] = "ended"]
    /\ delivering' = [delivering EXCEPT ![e] = <<>>]

\* Mutant: a keepalive does not restart the timeout.
ReadIgnoresPings(e) ==
    /\ Awaiting(e)
    /\ wire[Peer(e)] # <<>>
    /\ wire' = [wire EXCEPT ![Peer(e)] = Tail(@)]
    /\ IF Head(wire[Peer(e)]) = Ping
       THEN UNCHANGED <<delivering, quiet>>
       ELSE /\ delivering' = [delivering EXCEPT ![e] = <<Head(wire[Peer(e)])>>]
            /\ quiet' = [quiet EXCEPT ![e] = 0]
    /\ UNCHANGED <<net, compatible, workers, held, out, writing, inn, due, sent>>

Read(e) ==
    /\ Awaiting(e)
    /\ wire[Peer(e)] # <<>>
    /\ wire' = [wire EXCEPT ![Peer(e)] = Tail(@)]
    /\ delivering' = [delivering EXCEPT ![e] =
                         IF Head(wire[Peer(e)]) = Ping THEN <<>> ELSE <<Head(wire[Peer(e)])>>]
    /\ quiet' = [quiet EXCEPT ![e] = 0]
    /\ UNCHANGED <<net, compatible, workers, held, out, writing, inn, due, sent>>

\* Mutant: read_message without a timeout.
ReadWithoutTimeout(e) ==
    /\ Awaiting(e)
    /\ EndOfStream(e)
    /\ ReaderEnds(e)
    /\ UNCHANGED <<net, compatible, stage, held, writer, out, writing, wire, inn,
                   clocks, sent>>

ReadFails(e) ==
    /\ Awaiting(e)
    /\ EndOfStream(e) \/ Expired(e)
    /\ ReaderEnds(e)
    /\ UNCHANGED <<net, compatible, stage, held, writer, out, writing, wire, inn,
                   clocks, sent>>

\* Mutant: an unbounded channel.
DeliverUnbounded(e) ==
    /\ delivering[e] # <<>>
    /\ held[e]
    /\ inn' = [inn EXCEPT ![e] = Append(@, Head(delivering[e]))]
    /\ delivering' = [delivering EXCEPT ![e] = <<>>]
    /\ UNCHANGED <<net, compatible, workers, held, out, writing, wire, clocks, sent>>

\* inbound_tx.send waits for room, without a timeout.
Deliver(e) ==
    /\ delivering[e] # <<>>
    /\ held[e]
    /\ Len(inn[e]) < InboundCapacity
    /\ inn' = [inn EXCEPT ![e] = Append(@, Head(delivering[e]))]
    /\ delivering' = [delivering EXCEPT ![e] = <<>>]
    /\ UNCHANGED <<net, compatible, workers, held, out, writing, wire, clocks, sent>>

DeliverFails(e) ==
    /\ delivering[e] # <<>>
    /\ ~held[e]
    /\ ReaderEnds(e)
    /\ UNCHANGED <<net, compatible, stage, held, writer, out, writing, wire, inn,
                   clocks, sent>>

-----------------------------------------------------------------------------
(* The lifecycle task: whichever worker ends first, the other is aborted.  *)
(* An aborted task may run on until it next waits.                         *)

Abort(e) ==
    /\ stage[e] = "streaming"
    /\ "ended" \in {writer[e], reader[e]}
    /\ stage' = [stage EXCEPT ![e] = "aborting"]
    /\ UNCHANGED <<net, compatible, held, writer, reader, channels, clocks, sent>>

Aborted(e) ==
    /\ stage[e] = "aborting"
    /\ \/ /\ writer[e] = "running"
          /\ WriterEnds(e)
          /\ UNCHANGED <<reader, delivering>>
       \/ /\ reader[e] = "running"
          /\ ReaderEnds(e)
          /\ UNCHANGED <<writer, writing, out>>
    /\ UNCHANGED <<net, compatible, stage, held, wire, inn, clocks, sent>>

\* Mutant: the aborted worker is not awaited.
AnnounceAtOnce(e) ==
    /\ stage[e] = "aborting"
    /\ stage' = [stage EXCEPT ![e] = "disconnected"]
    /\ UNCHANGED <<net, compatible, held, writer, reader, channels, clocks, sent>>

Announce(e) ==
    /\ stage[e] = "aborting"
    /\ writer[e] = "ended" /\ reader[e] = "ended"
    /\ stage' = [stage EXCEPT ![e] = "disconnected"]
    /\ UNCHANGED <<net, compatible, held, writer, reader, channels, clocks, sent>>

-----------------------------------------------------------------------------
(* The programs *)

Send(e) ==
    /\ stage[e] \in {"streaming", "aborting"}
    /\ held[e]
    /\ writer[e] = "running"
    /\ Len(out[e]) < OutboundCapacity
    /\ sent[e] < Limit(e)
    /\ sent' = [sent EXCEPT ![e] = @ + 1]
    /\ out' = [out EXCEPT ![e] = Append(@, Data(sent[e] + 1))]
    /\ UNCHANGED <<net, compatible, workers, held, writing, wire, delivering, inn, clocks>>

Receive(e) ==
    /\ held[e]
    /\ inn[e] # <<>>
    /\ inn' = [inn EXCEPT ![e] = Tail(@)]
    /\ UNCHANGED <<net, compatible, workers, held, out, writing, wire, delivering,
                   clocks, sent>>

\* The desktop drops the connection: its tasks go on until they notice.
DesktopDrops ==
    LET e == "desktop" IN
    /\ held[e]
    /\ held' = [held EXCEPT ![e] = FALSE]
    /\ inn' = [inn EXCEPT ![e] = <<>>]
    /\ stage' = IF Handshaking(e) THEN [stage EXCEPT ![e] = "failed"] ELSE stage
    /\ UNCHANGED <<net, compatible, writer, reader, out, writing, wire, delivering,
                   clocks, sent>>

\* The phone drops its client, and with it the runtime its tasks run on.
PhoneDrops ==
    LET e == "phone" IN
    /\ stage[e] \in {"streaming", "aborting", "disconnected"}
    /\ held' = [held EXCEPT ![e] = FALSE]
    /\ inn' = [inn EXCEPT ![e] = <<>>]
    /\ stage' = [stage EXCEPT ![e] = "gone"]
    /\ WriterEnds(e)
    /\ ReaderEnds(e)
    /\ UNCHANGED <<net, compatible, wire, clocks, sent>>

-----------------------------------------------------------------------------
(* Time *)

\* A task at e can go on, or a timer of e has run out.
Prompt(e) ==
    \/ stage[e] = "connecting" /\ RoomOnWire(e)
    \/ stage[e] = "greeted" /\ wire[Peer(e)] # <<>>
    \/ HandshakeBroken(e)
    \/ Idle(e) /\ (out[e] # <<>> \/ due[e] \/ ~held[e])
    \/ writing[e] # <<>> /\ (RoomOnWire(e) \/ (net = "ok" /\ Closed(Peer(e))))
    \/ Awaiting(e) /\ (wire[Peer(e)] # <<>> \/ EndOfStream(e) \/ Expired(e))
    \/ delivering[e] # <<>> /\ (~held[e] \/ Len(inn[e]) < InboundCapacity)
    \/ stage[e] = "streaming" /\ "ended" \in {writer[e], reader[e]}
    \/ stage[e] = "aborting"

Tick ==
    /\ \A e \in End : ~Prompt(e)
    /\ quiet' = [e \in End |-> IF Handshaking(e) \/ Awaiting(e) THEN quiet[e] + 1
                                                                ELSE quiet[e]]
    /\ due' = [e \in End |-> due[e] \/ writer[e] = "running"]
    /\ UNCHANGED <<net, compatible, workers, held, channels, sent>>

-----------------------------------------------------------------------------

Handshake(e) == Greet(e) \/ Greeted(e) \/ HandshakeFails(e)
Writer(e) == TakeMessage(e) \/ EncodeFails(e) \/ TakePing(e) \/ ChannelClosed(e)
             \/ Write(e) \/ WriteFails(e)
Reader(e) == Read(e) \/ ReadFails(e) \/ Deliver(e) \/ DeliverFails(e)
Lifecycle(e) == Abort(e) \/ Aborted(e) \/ Announce(e)

Next ==
    \/ Cut \/ Tick \/ DesktopDrops \/ PhoneDrops
    \/ \E e \in End : \/ Handshake(e) \/ Writer(e) \/ Reader(e) \/ Lifecycle(e)
                      \/ WriteIntoVoid(e) \/ Reset(e) \/ Send(e) \/ Receive(e)

\* Tokio runs every task that can go on.
Fairness ==
    /\ WF_vars(Tick)
    /\ \A e \in End : /\ WF_vars(Handshake(e)) /\ WF_vars(Writer(e))
                     /\ WF_vars(Reader(e)) /\ WF_vars(Lifecycle(e))

Spec == Init /\ [][Next]_vars
FairSpec == Spec /\ Fairness

-----------------------------------------------------------------------------
(* What it implements *)

Intact(e) == /\ net = "ok"
             /\ writer[e] # "ended" /\ reader[Peer(e)] # "ended"
             /\ "failed" \notin {stage[e], stage[Peer(e)]}
             /\ held[Peer(e)]

\* The payloads among the first i frames, for every i.
Kept(frames) ==
    LET kept[i \in 0 .. Len(frames)] ==
            IF i = 0 THEN <<>>
            ELSE IF frames[i] \in Payload THEN Append(kept[i - 1], frames[i])
            ELSE kept[i - 1]
    IN  kept
Payloads(frames) == Kept(frames)[Len(frames)]

\* From the peer's inbound channel back to the outbound channel of e.
Underway(e) ==
    IF ~held[Peer(e)]
    THEN <<>>
    ELSE inn[Peer(e)] \o delivering[Peer(e)]
            \o (IF reader[Peer(e)] = "ended" THEN <<>> ELSE Payloads(wire[e]))
            \o (IF Intact(e) THEN Payloads(writing[e]) \o out[e] ELSE <<>>)

Promise == INSTANCE MessageLink WITH queue <- [e \in End |-> Underway(e)],
                                     lost <- [e \in End |-> ~Intact(e)]

\* Each program receives a beginning of what the other one sent, in order,
\* each message once: keepalives are kept out, and once something is lost
\* nothing sent later comes through (client.rs, writer_loop and reader_loop).
Ordered == Promise!Spec

(* Properties *)

Healthy == /\ net = "ok"
           /\ compatible
           /\ \A e \in End : held[e] /\ \A n \in 1 .. sent[e] : n \notin Oversized

\* A connection whose network works, whose programs hold it and whose messages
\* can be encoded stays up, however slowly the programs read: while a reader
\* waits for room in its channel the peer may fall silent, but the one is never
\* taken for the other (client.rs:180-198, 205-223).
DownForAReason ==
    Healthy => \A e \in End : Handshaking(e) \/ stage[e] = "streaming"

\* Whoever sees Disconnected has everything there will be: the lifecycle task
\* waits for the worker it aborted before it says so (client.rs:129-144).
EndIsLast ==
    [][\A e \in End : stage[e] = "disconnected" => Len(inn'[e]) <= Len(inn[e])]_vars

\* When the network is cut or a program lets go of its end, the tasks of both
\* ends come to their end, unless a program holds on to its end and does not
\* read (client.rs:129-144, 184-192, 205-223).
ConnectionEnds ==
    (net = "cut" \/ \E e \in End : ~held[e] \/ stage[e] = "failed")
        ~> \/ \A e \in End : ~Handshaking(e) /\ "running" \notin {writer[e], reader[e]}
           \/ \E e \in End : [](held[e] /\ delivering[e] # <<>>)

\* What an outbound channel holds leaves it, unless the connection ends or the
\* other program does not read.
OutboundDrains ==
    \A e \in End :
        out[e] # <<>> ~> \/ out[e] = <<>> \/ ~Intact(e)
                         \/ [](Len(inn[Peer(e)]) = InboundCapacity)
=============================================================================
