-------------------------- MODULE TransportProofs --------------------------
(***************************************************************************)
(* Proofs about one transport connection, for any capacities, any numbers  *)
(* of messages and any keepalive timeout longer than the interval.         *)
(***************************************************************************)
EXTENDS Transport, SequenceTheorems, FiniteSetTheorems, TLAPS

(* The inductive invariant, in parts *)

\* A handshake is the first frame of its direction, and is read before the
\* reader task exists.
HelloFirst ==
    \A e \in End :
        /\ \A i \in 1 .. Len(wire[e]) : wire[e][i] = Hello => i = 1 /\ reader[Peer(e)] = "none"
        /\ stage[e] = "connecting" => wire[e] = <<>> /\ reader[Peer(e)] = "none"

\* Tasks exist from the handshake on, and a task that has ended holds nothing.
TasksFitStage ==
    \A e \in End :
        /\ stage[e] \in {"connecting", "greeted", "failed"} => writer[e] = "none" /\ reader[e] = "none"
        /\ stage[e] \in {"streaming", "aborting"} => writer[e] # "none" /\ reader[e] # "none"
        /\ stage[e] \in {"disconnected", "gone"} => writer[e] = "ended" /\ reader[e] = "ended"
        /\ writer[e] # "running" => writing[e] = <<>> /\ out[e] = <<>>
        /\ reader[e] # "running" => delivering[e] = <<>>

\* What waits in the outbound channel has been sent.
QueuedIsSent ==
    \A e \in End : \A i \in 1 .. Len(out[e]) : out[e][i].n \in 1 .. sent[e]

\* On a healthy connection both tasks run once the handshake is over, and a
\* reader that has waited an interval has a frame on its way.
Lively(e) ==
    /\ stage[e] \in {"connecting", "greeted", "streaming"}
    /\ stage[e] = "streaming" => writer[e] = "running" /\ reader[e] = "running"
    /\ Handshaking(e) /\ stage[Peer(e)] # "connecting" => wire[Peer(e)] # <<>>
    /\ quiet[e] # 0 =>
          /\ quiet[e] = 1 /\ delivering[e] = <<>>
          /\ stage[e] = "streaming" /\ stage[Peer(e)] = "streaming"
          /\ wire[Peer(e)] # <<>> \/ writing[Peer(e)] # <<>> \/ due[Peer(e)]
KeptAlive == Healthy => \A e \in End : Lively(e)

IInv == TypeOK /\ HelloFirst /\ TasksFitStage /\ QueuedIsSent /\ KeptAlive
-----------------------------------------------------------------------------
(* Facts about the constants *)

LEMMA TimeoutFacts ==
    /\ KeepaliveTimeout \in Nat /\ KeepaliveTimeout > 1
    /\ ConnectTimeout \in Nat /\ ConnectTimeout <= KeepaliveTimeout /\ ConnectTimeout > 0
BY CapacityAssumption, TimeoutAssumption

LEMMA PeerFacts ==
    \A e \in End : /\ Peer(e) \in End /\ Peer(e) # e /\ Peer(Peer(e)) = e
                  /\ \A d \in End : d = e \/ d = Peer(e)
BY DEF End, Peer

LEMMA PayloadFacts ==
    /\ Hello \notin Payload /\ Ping \notin Payload /\ Ping # Hello
    /\ \A e \in End : \A n \in 1 .. Limit(e) : Data(n) \in Payload /\ Data(n).n = n
    /\ \A e \in End : Limit(e) \in Nat
  <1>1. \A e \in End : Limit(e) \in Nat
    BY LimitAssumption DEF Limit, End
  <1>2. \A m \in Payload : m.type = "data"
    BY DEF Payload, Data
  <1>3. Hello.type = "hello" /\ Ping.type = "ping"
    BY DEF Hello, Ping
  <1>4. \A e \in End : \A n \in 1 .. Limit(e) : Data(n) \in Payload /\ Data(n).n = n
    BY DEF Payload, Data
  <1>. QED
    BY <1>1, <1>2, <1>3, <1>4

\* A beginning of a sequence is a sequence of the same things.
LEMMA RemainsFacts ==
    ASSUME NEW S, NEW q \in Seq(S), NEW r \in Remains(q)
    PROVE  /\ r \in Seq(S)
           /\ Len(r) <= Len(q)
           /\ \A i \in 1 .. Len(r) : r[i] = q[i]
  <1>1. PICK k \in 0 .. Len(q) : r = SubSeq(q, 1, k)
    BY DEF Remains
  <1>2. Len(q) \in Nat
    BY LenProperties
  <1>. QED
    BY <1>1, <1>2, SubSeqProperties

-----------------------------------------------------------------------------
(* Types *)

LEMMA InitType == Init => TypeOK
  <1>. SUFFICES ASSUME Init PROVE TypeOK
    OBVIOUS
  <1>. USE CapacityAssumption, LimitAssumption, PayloadFacts
  <1>. QED
    BY DEF Init, TypeOK

LEMMA HandshakeType ==
    ASSUME TypeOK, NEW e \in End, Handshake(e)
    PROVE  TypeOK'
  <1>. USE CapacityAssumption, PeerFacts
  <1>1. CASE Greet(e)
    <2>1. wire' \in [End -> Seq(Frame)] /\ \A d \in End : Len(wire'[d]) <= WireCapacity
      BY <1>1 DEF Greet, RoomOnWire, TypeOK, Frame
    <2>2. stage' = [stage EXCEPT ![e] = "greeted"]
          /\ UNCHANGED <<net, compatible, held, writer, reader, out, writing,
                         delivering, inn, due, quiet, sent>>
      BY <1>1 DEF Greet
    <2>. QED
      BY <2>1, <2>2 DEF TypeOK
  <1>2. CASE Greeted(e)
    <2>1. /\ wire' \in [End -> Seq(Frame)]
          /\ \A d \in End : Len(wire'[d]) <= WireCapacity
      BY <1>2 DEF Greeted, TypeOK
    <2>2. /\ stage' \in [End -> {"connecting", "greeted", "failed", "streaming",
                                 "aborting", "disconnected", "gone"}]
          /\ writer' \in [End -> {"none", "running", "ended"}]
          /\ reader' \in [End -> {"none", "running", "ended"}]
      BY <1>2 DEF Greeted, TypeOK
    <2>3. due' \in [End -> BOOLEAN]
      BY <1>2, Zenon DEF Greeted, TypeOK
    <2>5. quiet' \in [End -> 0 .. KeepaliveTimeout]
      <3>1. quiet \in [End -> 0 .. KeepaliveTimeout] /\ 0 \in 0 .. KeepaliveTimeout
        BY TimeoutFacts DEF TypeOK
      <3>2. quiet' = quiet \/ quiet' = [quiet EXCEPT ![e] = 0]
        BY <1>2 DEF Greeted
      <3>. QED
        BY <3>1, <3>2
    <2>4. UNCHANGED <<net, compatible, held, out, writing, delivering, inn, sent>>
      BY <1>2 DEF Greeted
    <2>. QED
      BY <2>1, <2>2, <2>3, <2>4, <2>5 DEF TypeOK
  <1>3. CASE HandshakeFails(e)
    BY <1>3 DEF HandshakeFails, TypeOK, clocks, channels
  <1>. QED
    BY <1>1, <1>2, <1>3 DEF Handshake

LEMMA WriterEndsType ==
    ASSUME TypeOK, NEW e \in End, WriterEnds(e)
    PROVE  /\ writer' \in [End -> {"none", "running", "ended"}]
           /\ writing' \in [End -> {<<>>} \cup {<<m>> : m \in Payload \cup {Ping}}]
           /\ out' \in [End -> Seq(Payload)]
           /\ \A d \in End : Len(out'[d]) <= OutboundCapacity
BY CapacityAssumption DEF WriterEnds, TypeOK

LEMMA ReaderEndsType ==
    ASSUME TypeOK, NEW e \in End, ReaderEnds(e)
    PROVE  /\ reader' \in [End -> {"none", "running", "ended"}]
           /\ delivering' \in [End -> {<<>>} \cup {<<m>> : m \in Payload}]
BY DEF ReaderEnds, TypeOK

LEMMA WriterType ==
    ASSUME TypeOK, NEW e \in End, Writer(e) \/ WriteIntoVoid(e)
    PROVE  TypeOK'
  <1>. USE CapacityAssumption, PeerFacts
  <1>1. CASE TakeMessage(e)
    <2>1. /\ Head(out[e]) \in Payload
          /\ Tail(out[e]) \in Seq(Payload)
          /\ Len(Tail(out[e])) <= OutboundCapacity
      BY <1>1 DEF TakeMessage, TypeOK
    <2>. QED
      BY <1>1, <2>1 DEF TakeMessage, TypeOK, workers, clocks
  <1>2. CASE EncodeFails(e) \/ ChannelClosed(e) \/ WriteFails(e)
    <2>1. /\ WriterEnds(e)
          /\ UNCHANGED <<net, compatible, stage, held, reader, wire, delivering, inn,
                         clocks, sent>>
      BY <1>2 DEF EncodeFails, ChannelClosed, WriteFails
    <2>. QED
      BY <2>1, WriterEndsType DEF TypeOK, clocks
  <1>3. CASE TakePing(e)
    BY <1>3 DEF TakePing, TypeOK, workers
  <1>4. CASE Write(e)
    <2>1. Head(writing[e]) \in Frame /\ Len(wire[e]) < WireCapacity
      BY <1>4 DEF Write, RoomOnWire, TypeOK, Frame
    <2>. QED
      BY <1>4, <2>1 DEF Write, TypeOK, workers, clocks
  <1>5. CASE WriteIntoVoid(e)
    <2>1. CASE WriterEnds(e)
      BY <1>5, <2>1, WriterEndsType DEF WriteIntoVoid, TypeOK, clocks
    <2>2. CASE writing' = [writing EXCEPT ![e] = <<>>] /\ UNCHANGED <<writer, out>>
      BY <1>5, <2>2 DEF WriteIntoVoid, TypeOK, clocks
    <2>. QED
      BY <1>5, <2>1, <2>2 DEF WriteIntoVoid
  <1>. QED
    BY <1>1, <1>2, <1>3, <1>4, <1>5 DEF Writer

LEMMA ReaderType ==
    ASSUME TypeOK, HelloFirst, NEW e \in End, Reader(e)
    PROVE  TypeOK'
  <1>. USE CapacityAssumption, PeerFacts
  <1>1. CASE Read(e)
    <2>1. /\ wire[Peer(e)] \in Seq(Frame) /\ wire[Peer(e)] # <<>>
          /\ reader[e] = "running"
      BY <1>1 DEF Read, Awaiting, TypeOK
    <2>2. Head(wire[Peer(e)]) = wire[Peer(e)][1] /\ 1 \in 1 .. Len(wire[Peer(e)])
      BY <2>1
    <2>3. wire[Peer(e)][1] # Hello
      BY <2>1, <2>2 DEF HelloFirst
    <2>4. Head(wire[Peer(e)]) \in Payload \cup {Ping}
      BY <2>1, <2>2, <2>3 DEF Frame
    <2>5. /\ Tail(wire[Peer(e)]) \in Seq(Frame)
          /\ Len(Tail(wire[Peer(e)])) <= WireCapacity
      BY <2>1 DEF TypeOK
    <2>6. wire' \in [End -> Seq(Frame)] /\ \A d \in End : Len(wire'[d]) <= WireCapacity
      BY <1>1, <2>5 DEF Read, TypeOK
    <2>7. delivering' \in [End -> {<<>>} \cup {<<m>> : m \in Payload}]
      BY <1>1, <2>4 DEF Read, TypeOK
    <2>8. quiet' \in [End -> 0 .. KeepaliveTimeout]
      BY <1>1 DEF Read, TypeOK
    <2>9. UNCHANGED <<net, compatible, workers, held, out, writing, inn, due, sent>>
      BY <1>1 DEF Read
    <2>. QED
      BY <2>6, <2>7, <2>8, <2>9 DEF TypeOK, workers
  <1>2. CASE ReadFails(e) \/ DeliverFails(e)
    <2>1. /\ ReaderEnds(e)
          /\ UNCHANGED <<net, compatible, stage, held, writer, out, writing, wire, inn,
                         clocks, sent>>
      BY <1>2 DEF ReadFails, DeliverFails
    <2>. QED
      BY <2>1, ReaderEndsType DEF TypeOK, clocks
  <1>3. CASE Deliver(e)
    <2>1. Head(delivering[e]) \in Payload
      BY <1>3 DEF Deliver, TypeOK
    <2>. QED
      BY <1>3, <2>1 DEF Deliver, TypeOK, workers, clocks
  <1>. QED
    BY <1>1, <1>2, <1>3 DEF Reader

LEMMA LifecycleType ==
    ASSUME TypeOK, NEW e \in End, Lifecycle(e)
    PROVE  TypeOK'
  <1>1. CASE Abort(e) \/ Announce(e)
    BY <1>1 DEF Abort, Announce, TypeOK, channels, clocks
  <1>2. CASE Aborted(e)
    BY <1>2, WriterEndsType, ReaderEndsType DEF Aborted, TypeOK, clocks
  <1>. QED
    BY <1>1, <1>2 DEF Lifecycle

LEMMA ProgramType ==
    ASSUME TypeOK, NEW e \in End,
           Send(e) \/ Receive(e) \/ DesktopDrops \/ PhoneDrops
    PROVE  TypeOK'
  <1>. USE CapacityAssumption, PeerFacts
  <1>1. CASE Send(e)
    <2>1. sent[e] + 1 \in 1 .. Limit(e) /\ Len(out[e]) < OutboundCapacity
      BY <1>1, PayloadFacts DEF Send, TypeOK
    <2>2. Data(sent[e] + 1) \in Payload
      BY <2>1, PayloadFacts
    <2>3. out' \in [End -> Seq(Payload)] /\ \A d \in End : Len(out'[d]) <= OutboundCapacity
      BY <1>1, <2>1, <2>2 DEF Send, TypeOK
    <2>4. sent' \in [End -> Nat] /\ \A d \in End : sent'[d] <= Limit(d)
      BY <1>1, <2>1, PayloadFacts DEF Send, TypeOK
    <2>5. UNCHANGED <<net, compatible, workers, held, writing, wire, delivering, inn, clocks>>
      BY <1>1 DEF Send
    <2>. QED
      BY <2>3, <2>4, <2>5 DEF TypeOK, workers, clocks
  <1>2. CASE Receive(e)
    BY <1>2 DEF Receive, TypeOK, workers, clocks
  <1>3. CASE DesktopDrops
    BY <1>3 DEF DesktopDrops, TypeOK, clocks, End
  <1>4. CASE PhoneDrops
    <2>1. "phone" \in End
      BY DEF End
    <2>2. WriterEnds("phone") /\ ReaderEnds("phone")
      BY <1>4 DEF PhoneDrops
    <2>3. /\ writer' \in [End -> {"none", "running", "ended"}]
          /\ writing' \in [End -> {<<>>} \cup {<<m>> : m \in Payload \cup {Ping}}]
          /\ out' \in [End -> Seq(Payload)]
          /\ \A d \in End : Len(out'[d]) <= OutboundCapacity
      BY <2>1, <2>2, WriterEndsType
    <2>4. /\ reader' \in [End -> {"none", "running", "ended"}]
          /\ delivering' \in [End -> {<<>>} \cup {<<m>> : m \in Payload}]
      BY <2>1, <2>2, ReaderEndsType
    <2>5. /\ stage' = [stage EXCEPT !["phone"] = "gone"]
          /\ held' = [held EXCEPT !["phone"] = FALSE]
          /\ inn' = [inn EXCEPT !["phone"] = <<>>]
          /\ UNCHANGED <<net, compatible, wire, due, quiet, sent>>
      BY <1>4 DEF PhoneDrops, clocks
    <2>6. /\ stage' \in [End -> {"connecting", "greeted", "failed", "streaming",
                                 "aborting", "disconnected", "gone"}]
          /\ held' \in [End -> BOOLEAN]
      BY <2>1, <2>5 DEF TypeOK
    <2>7. inn' \in [End -> Seq(Payload)] /\ \A d \in End : Len(inn'[d]) <= InboundCapacity
      BY <2>1, <2>5, CapacityAssumption DEF TypeOK
    <2>. QED
      BY <2>3, <2>4, <2>5, <2>6, <2>7 DEF TypeOK
  <1>. QED
    BY <1>1, <1>2, <1>3, <1>4

LEMMA CutType ==
    ASSUME TypeOK, Cut
    PROVE  TypeOK'
  <1>1. PICK w \in Remains(wire["phone"]), v \in Remains(wire["desktop"]) :
           wire' = [e \in End |-> IF e = "phone" THEN w ELSE v]
    BY DEF Cut
  <1>2. /\ w \in Seq(Frame) /\ Len(w) <= Len(wire["phone"])
        /\ v \in Seq(Frame) /\ Len(v) <= Len(wire["desktop"])
    BY RemainsFacts DEF TypeOK, End
  <1>3. wire' \in [End -> Seq(Frame)] /\ \A e \in End : Len(wire'[e]) <= WireCapacity
    BY <1>1, <1>2, CapacityAssumption DEF TypeOK, End
  <1>4. net' \in {"ok", "cut"}
    BY DEF Cut
  <1>5. UNCHANGED <<compatible, stage, held, writer, reader, out, writing,
                    delivering, inn, due, quiet, sent>>
    BY DEF Cut
  <1>. QED
    BY <1>3, <1>4, <1>5 DEF TypeOK

LEMMA ResetType ==
    ASSUME TypeOK, NEW e \in End, Reset(e)
    PROVE  TypeOK'
  <1>1. PICK w \in Remains(wire[e]) : wire' = [wire EXCEPT ![e] = w]
    BY DEF Reset
  <1>2. w \in Seq(Frame) /\ Len(w) <= Len(wire[e])
    BY RemainsFacts DEF TypeOK
  <1>3. wire' \in [End -> Seq(Frame)] /\ \A d \in End : Len(wire'[d]) <= WireCapacity
    BY <1>1, <1>2, CapacityAssumption DEF TypeOK
  <1>4. UNCHANGED <<net, compatible, stage, held, writer, reader, out, writing,
                    delivering, inn, due, quiet, sent>>
    BY DEF Reset
  <1>. QED
    BY <1>3, <1>4 DEF TypeOK

\* A wait that has reached its limit ends before the next tick.
LEMMA TickType ==
    ASSUME TypeOK, Tick
    PROVE  TypeOK'
  <1>. USE TimeoutFacts, PeerFacts
  <1>1. ASSUME NEW e \in End, Handshaking(e) \/ Awaiting(e)
        PROVE  quiet[e] < KeepaliveTimeout
    <2>1. quiet[e] \in 0 .. KeepaliveTimeout /\ ~Prompt(e)
      BY DEF TypeOK, Tick
    <2>2. CASE Awaiting(e)
      BY <2>1, <2>2 DEF Prompt, Expired
    <2>3. CASE Handshaking(e)
      <3>1. ~(quiet[e] >= Patience(e))
        BY <2>1, <2>3 DEF Prompt, HandshakeBroken
      <3>. QED
        BY <2>1, <3>1 DEF Patience
    <2>. QED
      BY <1>1, <2>2, <2>3
  <1>2. quiet' \in [End -> 0 .. KeepaliveTimeout]
    <2>1. \A e \in End : quiet[e] \in 0 .. KeepaliveTimeout
      BY DEF TypeOK
    <2>2. quiet' = [e \in End |-> IF Handshaking(e) \/ Awaiting(e) THEN quiet[e] + 1
                                                                  ELSE quiet[e]]
      BY DEF Tick
    <2>. QED
      BY <1>1, <2>1, <2>2
  <1>3. due' \in [End -> BOOLEAN]
    BY DEF Tick, TypeOK
  <1>. QED
    BY <1>2, <1>3 DEF Tick, TypeOK, workers, channels

LEMMA NextType == TypeOK /\ HelloFirst /\ [Next]_vars => TypeOK'
  <1>. SUFFICES ASSUME TypeOK, HelloFirst, [Next]_vars PROVE TypeOK'
    OBVIOUS
  <1>1. CASE UNCHANGED vars
    BY <1>1 DEF vars, TypeOK
  <1>2. CASE Next
    BY <1>2, HandshakeType, WriterType, ReaderType, LifecycleType, ProgramType,
       CutType, ResetType, TickType DEF Next, End
  <1>. QED
    BY <1>1, <1>2

-----------------------------------------------------------------------------
(* The handshake comes first *)

LEMMA TailFacts ==
    ASSUME NEW S, NEW q \in Seq(S), q # <<>>
    PROVE  /\ Tail(q) \in Seq(S)
           /\ \A i \in 1 .. Len(Tail(q)) :
                 i + 1 \in 1 .. Len(q) /\ i + 1 # 1 /\ Tail(q)[i] = q[i + 1]
OBVIOUS

\* Nothing about the handshakes changes: no task begins, no frame moves.
LEMMA HelloFirstKept ==
    ASSUME TypeOK, HelloFirst, wire' = wire,
           \A e \in End : /\ stage'[e] = "connecting" => stage[e] = "connecting"
                          /\ reader[e] = "none" => reader'[e] = "none"
    PROVE  HelloFirst'
  <1>. SUFFICES ASSUME NEW e \in End
                PROVE  /\ \A i \in 1 .. Len(wire[e]) :
                             wire[e][i] = Hello => i = 1 /\ reader'[Peer(e)] = "none"
                       /\ stage'[e] = "connecting" => wire[e] = <<>> /\ reader'[Peer(e)] = "none"
    BY DEF HelloFirst
  <1>1. Peer(e) \in End
    BY PeerFacts
  <1>. QED
    BY <1>1 DEF HelloFirst

\* Frames are only taken away, from the front or from the back.
LEMMA HelloFirstLess ==
    ASSUME TypeOK, HelloFirst, stage' = stage, reader' = reader,
           NEW d \in End, NEW w \in Seq(Frame), wire' = [wire EXCEPT ![d] = w],
           w \in Remains(wire[d]) \/ (wire[d] # <<>> /\ w = Tail(wire[d]))
    PROVE  HelloFirst'
  <1>1. wire[d] \in Seq(Frame) /\ Len(wire[d]) \in Nat /\ Len(w) \in Nat
    BY LenProperties DEF TypeOK
  <1>2. ASSUME NEW i \in 1 .. Len(w), w[i] = Hello
        PROVE  i = 1 /\ reader[Peer(d)] = "none"
    <2>1. CASE w \in Remains(wire[d])
      BY <1>1, <1>2, <2>1, RemainsFacts DEF HelloFirst
    <2>2. CASE wire[d] # <<>> /\ w = Tail(wire[d])
      <3>1. i + 1 \in 1 .. Len(wire[d]) /\ w[i] = wire[d][i + 1]
        BY <1>1, <2>2
      <3>. QED
        BY <1>2, <3>1 DEF HelloFirst
    <2>. QED
      BY <2>1, <2>2
  <1>3. wire[d] = <<>> => w = <<>>
    <2>1. ASSUME wire[d] = <<>>, w \in Remains(wire[d]) PROVE w = <<>>
      <3>1. Len(w) <= Len(wire[d]) /\ Len(wire[d]) = 0
        BY <1>1, <2>1, RemainsFacts
      <3>. QED
        BY <1>1, <3>1, EmptySeq
    <2>. QED
      BY <2>1
  <1>4. wire'[d] = w /\ \A e \in End : e # d => wire'[e] = wire[e]
    BY DEF TypeOK
  <1>. QED
    BY <1>2, <1>3, <1>4 DEF HelloFirst

LEMMA HelloFirstStep ==
    ASSUME TypeOK, HelloFirst, TasksFitStage, Next
    PROVE  HelloFirst'
  <1>. USE PeerFacts
  <1>1. \A e \in End : wire[e] \in Seq(Frame) /\ Len(wire[e]) \in Nat
    BY LenProperties DEF TypeOK
  <1>2. ASSUME NEW e \in End, Greet(e)
        PROVE  HelloFirst'
    <2>1. wire[e] = <<>> /\ reader[Peer(e)] = "none"
      BY <1>2 DEF Greet, HelloFirst
    <2>2. wire' = [wire EXCEPT ![e] = <<Hello>>]
      BY <1>2, <2>1 DEF Greet
    <2>3. stage' = [stage EXCEPT ![e] = "greeted"] /\ reader' = reader
      BY <1>2 DEF Greet
    <2>4. /\ wire'[e] = <<Hello>> /\ stage'[e] = "greeted"
          /\ wire'[Peer(e)] = wire[Peer(e)] /\ stage'[Peer(e)] = stage[Peer(e)]
      BY <2>2, <2>3 DEF TypeOK
    <2>5. \A i \in 1 .. Len(wire'[e]) : i = 1
      BY <2>4
    <2>. QED
      BY <2>1, <2>3, <2>4, <2>5 DEF HelloFirst
  <1>3. ASSUME NEW e \in End, Greeted(e)
        PROVE  HelloFirst'
    <2>1. /\ wire[Peer(e)] # <<>>
          /\ wire' = [wire EXCEPT ![Peer(e)] = Tail(@)]
          /\ stage' = [stage EXCEPT ![e] = "streaming"] \/ stage' = [stage EXCEPT ![e] = "failed"]
          /\ reader' = [reader EXCEPT ![e] = "running"] \/ reader' = reader
      BY <1>3 DEF Greeted
    <2>2. /\ wire'[Peer(e)] = Tail(wire[Peer(e)]) /\ wire'[e] = wire[e]
          /\ stage'[e] # "connecting" /\ stage'[Peer(e)] = stage[Peer(e)]
          /\ reader'[Peer(e)] = reader[Peer(e)]
      BY <2>1 DEF TypeOK
    <2>3. stage[Peer(e)] # "connecting"
      BY <2>1 DEF HelloFirst
    <2>4. ASSUME NEW i \in 1 .. Len(wire'[Peer(e)]) PROVE wire'[Peer(e)][i] # Hello
      <3>1. i + 1 \in 1 .. Len(wire[Peer(e)]) /\ i + 1 # 1
            /\ wire'[Peer(e)][i] = wire[Peer(e)][i + 1]
        <4>1. wire[Peer(e)] \in Seq(Frame) /\ wire[Peer(e)] # <<>>
          BY <1>1, <2>1
        <4>2. \A j \in 1 .. Len(Tail(wire[Peer(e)])) :
                 /\ j + 1 \in 1 .. Len(wire[Peer(e)]) /\ j + 1 # 1
                 /\ Tail(wire[Peer(e)])[j] = wire[Peer(e)][j + 1]
          BY <4>1, TailFacts
        <4>. QED
          BY <2>2, <4>2
      <3>. QED
        BY <3>1 DEF HelloFirst
    <2>5. /\ \A i \in 1 .. Len(wire'[e]) :
                wire'[e][i] = Hello => i = 1 /\ reader'[Peer(e)] = "none"
          /\ stage'[e] # "connecting" /\ stage'[Peer(e)] # "connecting"
      BY <2>2, <2>3 DEF HelloFirst
    <2>6. \A d \in End : d = e \/ d = Peer(e)
      OBVIOUS
    <2>. QED
      BY <2>4, <2>5, <2>6 DEF HelloFirst
  <1>4. ASSUME NEW e \in End, Write(e)
        PROVE  HelloFirst'
    <2>1. writing[e] # <<>> /\ Head(writing[e]) # Hello
      BY <1>4, PayloadFacts DEF Write, TypeOK
    <2>2. /\ wire' = [wire EXCEPT ![e] = Append(@, Head(writing[e]))]
          /\ stage' = stage /\ reader' = reader
      BY <1>4 DEF Write, workers
    <2>3. wire'[e] = Append(wire[e], Head(writing[e])) /\ wire'[Peer(e)] = wire[Peer(e)]
      BY <2>2 DEF TypeOK
    <2>4. stage[e] # "connecting"
      BY <2>1 DEF TasksFitStage
    <2>5. ASSUME NEW i \in 1 .. Len(wire'[e]), wire'[e][i] = Hello
          PROVE  i \in 1 .. Len(wire[e]) /\ wire[e][i] = Hello
      BY <1>1, <2>1, <2>3, <2>5
    <2>. QED
      BY <2>2, <2>3, <2>4, <2>5 DEF HelloFirst
  <1>5. ASSUME NEW e \in End, Read(e)
        PROVE  HelloFirst'
    <2>1. /\ wire[Peer(e)] # <<>>
          /\ wire' = [wire EXCEPT ![Peer(e)] = Tail(wire[Peer(e)])]
          /\ stage' = stage /\ reader' = reader
      BY <1>5 DEF Read, workers
    <2>2. Tail(wire[Peer(e)]) \in Seq(Frame)
      BY <1>1, <2>1
    <2>. QED
      BY <2>1, <2>2, HelloFirstLess
  <1>6. ASSUME NEW e \in End, Reset(e)
        PROVE  HelloFirst'
    <2>1. PICK w \in Remains(wire[e]) : wire' = [wire EXCEPT ![e] = w]
      BY <1>6 DEF Reset
    <2>2. w \in Seq(Frame)
      BY <1>1, RemainsFacts
    <2>. QED
      BY <1>6, <2>1, <2>2, HelloFirstLess DEF Reset
  <1>7. CASE Cut
    <2>1. \A e \in End : wire'[e] \in Remains(wire[e])
      BY <1>7 DEF Cut, End
    <2>2. stage' = stage /\ reader' = reader
      BY <1>7 DEF Cut
    <2>3. ASSUME NEW e \in End
          PROVE  /\ Len(wire'[e]) \in Nat
                 /\ Len(wire'[e]) <= Len(wire[e])
                 /\ \A i \in 1 .. Len(wire'[e]) : wire'[e][i] = wire[e][i]
                 /\ wire[e] = <<>> => wire'[e] = <<>>
      <3>1. /\ wire'[e] \in Seq(Frame)
            /\ Len(wire'[e]) <= Len(wire[e])
            /\ \A i \in 1 .. Len(wire'[e]) : wire'[e][i] = wire[e][i]
        BY <1>1, <2>1, RemainsFacts
      <3>. QED
        BY <1>1, <3>1, EmptySeq
    <2>. QED
      BY <1>1, <2>2, <2>3 DEF HelloFirst
  <1>8. ASSUME NEW e \in End,
               \/ HandshakeFails(e) \/ TakeMessage(e) \/ EncodeFails(e) \/ TakePing(e)
               \/ ChannelClosed(e) \/ WriteFails(e) \/ WriteIntoVoid(e) \/ ReadFails(e)
               \/ Deliver(e) \/ DeliverFails(e) \/ Lifecycle(e) \/ Send(e) \/ Receive(e)
               \/ Tick \/ DesktopDrops \/ PhoneDrops
        PROVE  HelloFirst'
    <2>1. wire' = wire
      BY <1>8 DEF HandshakeFails, TakeMessage, EncodeFails, TakePing, ChannelClosed,
         WriteFails, WriteIntoVoid, ReadFails, Deliver, DeliverFails, Lifecycle, Abort,
         Aborted, Announce, Send, Receive, Tick, DesktopDrops, PhoneDrops, channels
    <2>2. \A d \in End : stage'[d] = "connecting" => stage[d] = "connecting"
      BY <1>8 DEF HandshakeFails, TakeMessage, EncodeFails, TakePing, ChannelClosed,
         WriteFails, WriteIntoVoid, ReadFails, Deliver, DeliverFails, Lifecycle, Abort,
         Aborted, Announce, Send, Receive, Tick, DesktopDrops, PhoneDrops, workers, TypeOK
    <2>3. \A d \in End : reader[d] = "none" => reader'[d] = "none"
      <3>1. CASE reader' = reader
        BY <3>1
      <3>2. ASSUME NEW d \in End, ReaderEnds(d), reader[d] # "none"
            PROVE  \A c \in End : reader[c] = "none" => reader'[c] = "none"
        BY <3>2 DEF ReaderEnds, TypeOK
      <3>3. CASE ReadFails(e) \/ DeliverFails(e)
        BY <3>2, <3>3 DEF ReadFails, DeliverFails, Awaiting, TasksFitStage
      <3>4. CASE Lifecycle(e)
        BY <3>1, <3>2, <3>4 DEF Lifecycle, Abort, Aborted, Announce
      <3>5. CASE PhoneDrops
        <4>1. "phone" \in End /\ ReaderEnds("phone") /\ reader["phone"] # "none"
          BY <3>5 DEF PhoneDrops, TasksFitStage, End
        <4>. QED
          BY <4>1, <3>2
      <3>. QED
        BY <1>8, <3>1, <3>3, <3>4, <3>5 DEF HandshakeFails, TakeMessage, EncodeFails,
           TakePing, ChannelClosed, WriteFails, WriteIntoVoid, Deliver, Send, Receive,
           Tick, DesktopDrops, workers
    <2>. QED
      BY <2>1, <2>2, <2>3, HelloFirstKept
  <1>. QED
    BY <1>2, <1>3, <1>4, <1>5, <1>6, <1>7, <1>8 DEF Next, Handshake, Writer, Reader, End
-----------------------------------------------------------------------------
(* Tasks and stages *)

LEMMA TasksFitStageStep ==
    ASSUME TypeOK, TasksFitStage, Next
    PROVE  TasksFitStage'
  <1>. USE PeerFacts
  <1>1. ASSUME NEW e \in End, Handshake(e)
        PROVE  TasksFitStage'
    <2>1. CASE Greet(e)
      BY <2>1 DEF Greet, TypeOK, TasksFitStage
    <2>2. CASE Greeted(e)
      <3>1. stage[e] = "greeted" /\ UNCHANGED <<out, writing, delivering>>
        BY <2>2 DEF Greeted
      <3>2. ASSUME NEW d \in End, d # e
            PROVE  stage'[d] = stage[d] /\ writer'[d] = writer[d] /\ reader'[d] = reader[d]
        BY <2>2, <3>2 DEF Greeted, TypeOK
      <3>3. \/ stage'[e] = "streaming" /\ writer'[e] = "running" /\ reader'[e] = "running"
            \/ stage'[e] = "failed" /\ writer'[e] = writer[e] /\ reader'[e] = reader[e]
        BY <2>2 DEF Greeted, TypeOK
      <3>. QED
        BY <3>1, <3>2, <3>3 DEF TasksFitStage
    <2>3. CASE HandshakeFails(e)
      BY <2>3 DEF HandshakeFails, HandshakeBroken, Handshaking, TypeOK, TasksFitStage, channels
    <2>. QED
      BY <1>1, <2>1, <2>2, <2>3 DEF Handshake
  <1>2. ASSUME NEW e \in End, Writer(e) \/ WriteIntoVoid(e)
        PROVE  TasksFitStage'
    <2>1. ASSUME WriterEnds(e), writer[e] = "running",
                 UNCHANGED <<stage, reader, delivering>>
          PROVE  TasksFitStage'
      BY <2>1 DEF WriterEnds, TypeOK, TasksFitStage
    <2>2. CASE EncodeFails(e) \/ ChannelClosed(e) \/ WriteFails(e)
      BY <2>1, <2>2 DEF EncodeFails, ChannelClosed, WriteFails, Idle, TasksFitStage
    <2>3. CASE TakeMessage(e)
      BY <2>3 DEF TakeMessage, Idle, workers, TypeOK, TasksFitStage
    <2>4. CASE TakePing(e)
      BY <2>4 DEF TakePing, Idle, workers, TypeOK, TasksFitStage
    <2>5. CASE Write(e)
      BY <2>5 DEF Write, workers, TypeOK, TasksFitStage
    <2>6. CASE WriteIntoVoid(e)
      BY <2>1, <2>6 DEF WriteIntoVoid, TypeOK, TasksFitStage
    <2>. QED
      BY <1>2, <2>2, <2>3, <2>4, <2>5, <2>6 DEF Writer
  <1>3. ASSUME NEW e \in End, Reader(e)
        PROVE  TasksFitStage'
    <2>1. ASSUME ReaderEnds(e), reader[e] = "running", UNCHANGED <<stage, writer, writing, out>>
          PROVE  TasksFitStage'
      BY <2>1 DEF ReaderEnds, TypeOK, TasksFitStage
    <2>2. CASE ReadFails(e) \/ DeliverFails(e)
      BY <2>1, <2>2 DEF ReadFails, DeliverFails, Awaiting, TasksFitStage
    <2>3. CASE Read(e)
      BY <2>3 DEF Read, Awaiting, workers, TypeOK, TasksFitStage
    <2>4. CASE Deliver(e)
      BY <2>4 DEF Deliver, workers, TypeOK, TasksFitStage
    <2>. QED
      BY <1>3, <2>2, <2>3, <2>4 DEF Reader
  <1>4. ASSUME NEW e \in End, Lifecycle(e)
        PROVE  TasksFitStage'
    <2>1. CASE Abort(e)
      BY <2>1 DEF Abort, channels, TypeOK, TasksFitStage
    <2>2. CASE Aborted(e)
      <3>1. CASE writer[e] = "running" /\ WriterEnds(e) /\ UNCHANGED <<reader, delivering>>
        BY <2>2, <3>1 DEF Aborted, WriterEnds, TypeOK, TasksFitStage
      <3>2. CASE reader[e] = "running" /\ ReaderEnds(e) /\ UNCHANGED <<writer, writing, out>>
        BY <2>2, <3>2 DEF Aborted, ReaderEnds, TypeOK, TasksFitStage
      <3>. QED
        BY <2>2, <3>1, <3>2 DEF Aborted
    <2>3. CASE Announce(e)
      BY <2>3 DEF Announce, channels, TypeOK, TasksFitStage
    <2>. QED
      BY <1>4, <2>1, <2>2, <2>3 DEF Lifecycle
  <1>5. ASSUME NEW e \in End, Send(e) \/ Receive(e)
        PROVE  TasksFitStage'
    <2>1. UNCHANGED <<stage, writer, reader, writing, delivering>>
      BY <1>5 DEF Send, Receive, workers
    <2>2. ASSUME NEW d \in End, writer[d] # "running" PROVE out'[d] = out[d]
      BY <1>5, <2>2 DEF Send, Receive, TypeOK
    <2>. QED
      BY <2>1, <2>2 DEF TasksFitStage
  <1>6. CASE DesktopDrops
    BY <1>6 DEF DesktopDrops, Handshaking, TypeOK, TasksFitStage, End
  <1>7. CASE PhoneDrops
    <2>1. /\ stage' = [stage EXCEPT !["phone"] = "gone"]
          /\ WriterEnds("phone") /\ ReaderEnds("phone")
      BY <1>7 DEF PhoneDrops
    <2>. QED
      BY <2>1 DEF WriterEnds, ReaderEnds, TypeOK, TasksFitStage
  <1>8. ASSUME NEW e \in End, Cut \/ Tick \/ Reset(e)
        PROVE  TasksFitStage'
    BY <1>8 DEF Cut, Tick, Reset, workers, channels, TasksFitStage
  <1>. QED
    BY <1>1, <1>2, <1>3, <1>4, <1>5, <1>6, <1>7, <1>8 DEF Next, End

-----------------------------------------------------------------------------
(* What is queued has been sent *)

\* Nothing is added to an outbound channel.
LEMMA QueuedIsSentKept ==
    ASSUME TypeOK, QueuedIsSent, sent' = sent, NEW e \in End,
           \/ out' = out
           \/ out' = [out EXCEPT ![e] = <<>>]
           \/ out[e] # <<>> /\ out' = [out EXCEPT ![e] = Tail(@)]
    PROVE  QueuedIsSent'
  <1>1. CASE out' = out
    BY <1>1 DEF QueuedIsSent
  <1>2. CASE out' = [out EXCEPT ![e] = <<>>]
    BY <1>2 DEF QueuedIsSent, TypeOK
  <1>3. CASE out[e] # <<>> /\ out' = [out EXCEPT ![e] = Tail(@)]
    <2>1. \A i \in 1 .. Len(Tail(out[e])) :
             i + 1 \in 1 .. Len(out[e]) /\ Tail(out[e])[i] = out[e][i + 1]
      BY <1>3, TailFacts DEF TypeOK
    <2>. QED
      BY <1>3, <2>1 DEF QueuedIsSent, TypeOK
  <1>. QED
    BY <1>1, <1>2, <1>3

LEMMA QueuedIsSentStep ==
    ASSUME TypeOK, QueuedIsSent, Next
    PROVE  QueuedIsSent'
  <1>1. ASSUME NEW e \in End, Send(e)
        PROVE  QueuedIsSent'
    <2>1. /\ out[e] \in Seq(Payload) /\ sent[e] \in Nat
          /\ out'[e] = Append(out[e], Data(sent[e] + 1))
          /\ sent'[e] = sent[e] + 1
          /\ \A d \in End : d # e => out'[d] = out[d] /\ sent'[d] = sent[d]
      BY <1>1 DEF Send, TypeOK
    <2>2. Data(sent[e] + 1).n = sent[e] + 1
      BY DEF Data
    <2>3. \A i \in 1 .. Len(out'[e]) : out'[e][i].n \in 1 .. sent'[e]
      <3>1. TAKE i \in 1 .. Len(out'[e])
      <3>2. i \in 1 .. Len(out[e]) \/ i = Len(out[e]) + 1
        BY <2>1
      <3>3. CASE i \in 1 .. Len(out[e])
        BY <2>1, <3>3 DEF QueuedIsSent
      <3>4. CASE i = Len(out[e]) + 1
        BY <2>1, <2>2, <3>4
      <3>. QED
        BY <3>2, <3>3, <3>4
    <2>. QED
      BY <2>1, <2>3 DEF QueuedIsSent
  <1>2. ASSUME NEW e \in End,
               \/ Handshake(e) \/ Writer(e) \/ WriteIntoVoid(e) \/ Reader(e) \/ Lifecycle(e)
               \/ Receive(e) \/ Reset(e) \/ Cut \/ Tick \/ DesktopDrops
        PROVE  QueuedIsSent'
    <2>1. sent' = sent
      BY <1>2 DEF Handshake, Greet, Greeted, HandshakeFails, Writer, TakeMessage, EncodeFails,
         TakePing, ChannelClosed, Write, WriteFails, WriteIntoVoid, Reader, Read, ReadFails,
         Deliver, DeliverFails, Lifecycle, Abort, Aborted, Announce, Receive, Reset, Cut,
         Tick, DesktopDrops
    <2>2. \/ out' = out
          \/ out' = [out EXCEPT ![e] = <<>>]
          \/ out[e] # <<>> /\ out' = [out EXCEPT ![e] = Tail(@)]
      BY <1>2 DEF Handshake, Greet, Greeted, HandshakeFails, Writer, TakeMessage, EncodeFails,
         TakePing, ChannelClosed, Write, WriteFails, WriteIntoVoid, Reader, Read, ReadFails,
         Deliver, DeliverFails, Lifecycle, Abort, Aborted, Announce, Receive, Reset, Cut,
         Tick, DesktopDrops, WriterEnds, channels
    <2>. QED
      BY <2>1, <2>2, QueuedIsSentKept
  <1>3. CASE PhoneDrops
    <2>1. "phone" \in End /\ sent' = sent /\ out' = [out EXCEPT !["phone"] = <<>>]
      BY <1>3 DEF PhoneDrops, WriterEnds, End
    <2>. QED
      BY <2>1, QueuedIsSentKept
  <1>. QED
    BY <1>1, <1>2, <1>3 DEF Next, End
-----------------------------------------------------------------------------
(* A healthy connection is kept alive *)

\* A connection that is healthy after a step was healthy before it.
LEMMA HealthyBefore ==
    ASSUME TypeOK, Next, Healthy'
    PROVE  Healthy
  <1>1. net = "ok"
    <2>1. net' = "ok"
      BY DEF Healthy
    <2>2. net' = net \/ net' = "cut"
      BY DEF Next, Cut, Tick, DesktopDrops, PhoneDrops, Handshake, Greet, Greeted,
         HandshakeFails, Writer, TakeMessage, EncodeFails, TakePing, ChannelClosed, Write,
         WriteFails, WriteIntoVoid, Reader, Read, ReadFails, Deliver, DeliverFails,
         Lifecycle, Abort, Aborted, Announce, Reset, Send, Receive
    <2>. QED
      BY <2>1, <2>2
  <1>2. compatible
    <2>1. compatible'
      BY DEF Healthy
    <2>2. compatible' = compatible
      BY DEF Next, Cut, Tick, DesktopDrops, PhoneDrops, Handshake, Greet, Greeted,
         HandshakeFails, Writer, TakeMessage, EncodeFails, TakePing, ChannelClosed, Write,
         WriteFails, WriteIntoVoid, Reader, Read, ReadFails, Deliver, DeliverFails,
         Lifecycle, Abort, Aborted, Announce, Reset, Send, Receive
    <2>. QED
      BY <2>1, <2>2
  <1>3. \A e \in End : held'[e] => held[e]
    <2>1. held' = held \/ \E e \in End : held' = [held EXCEPT ![e] = FALSE]
      BY DEF Next, Cut, Tick, DesktopDrops, PhoneDrops, Handshake, Greet, Greeted,
         HandshakeFails, Writer, TakeMessage, EncodeFails, TakePing, ChannelClosed, Write,
         WriteFails, WriteIntoVoid, Reader, Read, ReadFails, Deliver, DeliverFails,
         Lifecycle, Abort, Aborted, Announce, Reset, Send, Receive, End
    <2>. QED
      BY <2>1 DEF TypeOK
  <1>4. \A e \in End : sent[e] \in Nat /\ sent'[e] \in Nat /\ sent[e] <= sent'[e]
    <2>1. sent' = sent \/ \E e \in End : sent' = [sent EXCEPT ![e] = @ + 1]
      BY DEF Next, Cut, Tick, DesktopDrops, PhoneDrops, Handshake, Greet, Greeted,
         HandshakeFails, Writer, TakeMessage, EncodeFails, TakePing, ChannelClosed, Write,
         WriteFails, WriteIntoVoid, Reader, Read, ReadFails, Deliver, DeliverFails,
         Lifecycle, Abort, Aborted, Announce, Reset, Send, Receive
    <2>2. sent \in [End -> Nat]
      BY DEF TypeOK
    <2>. QED
      BY <2>1, <2>2
  <1>5. ASSUME NEW e \in End, NEW n \in 1 .. sent[e]
        PROVE  n \notin Oversized
    <2>1. n \in 1 .. sent'[e]
      BY <1>4, <1>5
    <2>. QED
      BY <2>1 DEF Healthy
  <1>6. \A e \in End : held[e]
    BY <1>3 DEF Healthy
  <1>. QED
    BY <1>1, <1>2, <1>5, <1>6 DEF Healthy

\* On a healthy connection nobody has hung up and no wait has run out.
LEMMA NothingBreaks ==
    ASSUME TypeOK, TasksFitStage, QueuedIsSent, KeptAlive, Healthy, NEW e \in End
    PROVE  /\ ~ShutDown(e) /\ ~Closed(e)
           /\ ~HandshakeFails(e) /\ ~EncodeFails(e) /\ ~ChannelClosed(e)
           /\ ~WriteFails(e) /\ ~WriteIntoVoid(e) /\ ~Reset(e)
           /\ ~ReadFails(e) /\ ~DeliverFails(e) /\ ~Lifecycle(e)
  <1>. USE PeerFacts, TimeoutFacts
  <1>1. \A d \in End : Lively(d)
    BY DEF KeptAlive
  <1>2. \A d \in End : writer[d] # "ended" /\ reader[d] # "ended" /\ stage[d] # "failed"
    BY <1>1 DEF Lively, TasksFitStage
  <1>3. \A d \in End : ~ShutDown(d) /\ ~Closed(d)
    BY <1>2 DEF ShutDown, Closed
  <1>4. \A d \in End : quiet[d] \in {0, 1}
    BY <1>1 DEF Lively
  <1>5. ~HandshakeFails(e)
    <2>1. ASSUME HandshakeBroken(e) PROVE FALSE
      <3>1. Handshaking(e) /\ quiet[e] >= Patience(e)
        BY <1>3, <2>1 DEF HandshakeBroken, EndOfStream
      <3>2. quiet[e] = 0
        BY <1>1, <3>1 DEF Lively, Handshaking
      <3>. QED
        BY <3>1, <3>2 DEF Patience
    <2>. QED
      BY <2>1 DEF HandshakeFails
  <1>6. ~EncodeFails(e)
    <2>1. ASSUME EncodeFails(e) PROVE FALSE
      <3>1. out[e] # <<>> /\ Head(out[e]).n \in Oversized
        BY <2>1 DEF EncodeFails
      <3>2. Head(out[e]) = out[e][1] /\ 1 \in 1 .. Len(out[e])
        BY <3>1 DEF TypeOK
      <3>3. Head(out[e]).n \in 1 .. sent[e]
        BY <3>2 DEF QueuedIsSent
      <3>. QED
        BY <3>1, <3>3 DEF Healthy
    <2>. QED
      BY <2>1
  <1>7. ~ChannelClosed(e) /\ ~DeliverFails(e)
    BY DEF ChannelClosed, DeliverFails, Healthy
  <1>8. ~WriteFails(e) /\ ~WriteIntoVoid(e) /\ ~Reset(e)
    BY <1>3 DEF WriteFails, WriteIntoVoid, Reset, Healthy
  <1>9. ~ReadFails(e)
    <2>1. ~EndOfStream(e)
      BY <1>3 DEF EndOfStream
    <2>2. ~Expired(e)
      BY <1>4 DEF Expired
    <2>. QED
      BY <2>1, <2>2 DEF ReadFails
  <1>10. ~Lifecycle(e)
    BY <1>1, <1>2 DEF Lifecycle, Abort, Aborted, Announce, Lively
  <1>. QED
    BY <1>3, <1>5, <1>6, <1>7, <1>8, <1>9, <1>10

LEMMA KeptAliveStep ==
    ASSUME TypeOK, HelloFirst, TasksFitStage, QueuedIsSent, KeptAlive, Next, Healthy'
    PROVE  \A d \in End : Lively(d)'
  <1>. USE PeerFacts, TimeoutFacts
  <1>1. Healthy
    BY HealthyBefore
  <1>2. \A d \in End : Lively(d)
    BY <1>1 DEF KeptAlive
  <1>3. \A d \in End : held'[d]
    BY DEF Healthy
  <1>4. ASSUME NEW e \in End, Greet(e)
        PROVE  \A d \in End : Lively(d)'
    <2>1. /\ stage'[e] = "greeted" /\ stage'[Peer(e)] = stage[Peer(e)]
          /\ wire'[e] # <<>> /\ wire'[Peer(e)] = wire[Peer(e)]
          /\ stage[e] = "connecting"
          /\ UNCHANGED <<writer, reader, quiet, due, writing, delivering>>
      BY <1>4 DEF Greet, TypeOK
    <2>2. Lively(e)'
      BY <1>2, <2>1 DEF Lively, Handshaking
    <2>3. Lively(Peer(e))'
      BY <1>2, <2>1 DEF Lively, Handshaking
    <2>. QED
      BY <2>2, <2>3
  <1>5. ASSUME NEW e \in End, Greeted(e)
        PROVE  \A d \in End : Lively(d)'
    <2>1. /\ stage[e] = "greeted" /\ stage'[e] = "streaming" /\ stage'[Peer(e)] = stage[Peer(e)]
          /\ writer'[e] = "running" /\ writer'[Peer(e)] = writer[Peer(e)]
          /\ reader'[e] = "running" /\ reader'[Peer(e)] = reader[Peer(e)]
          /\ wire'[e] = wire[e]
          /\ quiet'[Peer(e)] = quiet[Peer(e)]
          /\ UNCHANGED <<writing, delivering>>
      BY <1>1, <1>5 DEF Greeted, Healthy, TypeOK
    <2>2. quiet'[e] = 0
      <3>1. quiet' = [quiet EXCEPT ![e] = 0] /\ quiet \in [End -> 0 .. KeepaliveTimeout]
        BY <1>1, <1>5 DEF Greeted, Healthy, TypeOK
      <3>. QED
        BY <3>1
    <2>3. Lively(e)'
      BY <2>1, <2>2 DEF Lively, Handshaking
    <2>4. Lively(Peer(e))'
      BY <1>2, <2>1 DEF Lively, Handshaking
    <2>. QED
      BY <2>3, <2>4
  <1>6. ASSUME NEW e \in End, TakeMessage(e) \/ TakePing(e)
        PROVE  \A d \in End : Lively(d)'
    <2>1. /\ writing'[e] # <<>> /\ writing'[Peer(e)] = writing[Peer(e)]
          /\ UNCHANGED <<stage, writer, reader, wire, delivering, quiet>>
      <3>1. \E m : writing' = [writing EXCEPT ![e] = <<m>>]
        BY <1>6 DEF TakeMessage, TakePing
      <3>2. UNCHANGED <<stage, writer, reader, wire, delivering, quiet>>
        BY <1>6 DEF TakeMessage, TakePing, workers, clocks
      <3>. QED
        BY <3>1, <3>2 DEF TypeOK
    <2>2. due'[Peer(e)] = due[Peer(e)]
      BY <1>6, Zenon DEF TakeMessage, TakePing, clocks, TypeOK
    <2>3. Lively(e)'
      BY <1>2, <2>1, <2>2, Zenon DEF Lively, Handshaking
    <2>4. Lively(Peer(e))'
      BY <1>2, <2>1 DEF Lively, Handshaking
    <2>. QED
      BY <2>3, <2>4
  <1>7. ASSUME NEW e \in End, Write(e)
        PROVE  \A d \in End : Lively(d)'
    <2>1. wire[e] \in Seq(Frame) /\ wire' = [wire EXCEPT ![e] = Append(@, Head(writing[e]))]
      BY <1>7 DEF Write, TypeOK
    <2>2. Append(wire[e], Head(writing[e])) # <<>>
      BY <2>1
    <2>3. /\ wire'[e] # <<>> /\ wire'[Peer(e)] = wire[Peer(e)]
          /\ writing'[Peer(e)] = writing[Peer(e)]
          /\ UNCHANGED <<stage, writer, reader, delivering, due, quiet>>
      BY <1>7, <2>1, <2>2 DEF Write, workers, clocks, TypeOK
    <2>4. Lively(e)'
      BY <1>2, <2>3 DEF Lively, Handshaking
    <2>5. Lively(Peer(e))'
      BY <1>2, <2>3 DEF Lively, Handshaking
    <2>. QED
      BY <2>4, <2>5
  <1>8. ASSUME NEW e \in End, Read(e)
        PROVE  \A d \in End : Lively(d)'
    <2>1. /\ wire'[e] = wire[e]
          /\ delivering'[Peer(e)] = delivering[Peer(e)]
          /\ reader[e] = "running"
          /\ UNCHANGED <<stage, writer, reader, writing, due>>
      BY <1>8 DEF Read, Awaiting, workers, TypeOK
    <2>2. quiet'[e] = 0 /\ quiet'[Peer(e)] = quiet[Peer(e)]
      <3>1. quiet' = [quiet EXCEPT ![e] = 0] /\ quiet \in [End -> 0 .. KeepaliveTimeout]
        BY <1>8 DEF Read, TypeOK
      <3>. QED
        BY <3>1
    <2>3. ~Handshaking(e)
      BY <2>1 DEF Handshaking, TasksFitStage
    <2>4. Lively(e)'
      BY <1>2, <2>1, <2>2, <2>3 DEF Lively, Handshaking
    <2>5. Lively(Peer(e))'
      BY <1>2, <2>1, <2>2 DEF Lively, Handshaking
    <2>. QED
      BY <2>4, <2>5
  <1>9. ASSUME NEW e \in End, Deliver(e)
        PROVE  \A d \in End : Lively(d)'
    <2>1. /\ \A d \in End : delivering'[d] = <<>> \/ delivering'[d] = delivering[d]
          /\ UNCHANGED <<stage, writer, reader, wire, writing, due, quiet>>
      BY <1>9 DEF Deliver, workers, clocks, TypeOK
    <2>. QED
      BY <1>2, <2>1 DEF Lively, Handshaking
  <1>10. ASSUME NEW e \in End, Send(e) \/ Receive(e)
         PROVE  \A d \in End : Lively(d)'
    <2>1. UNCHANGED <<stage, writer, reader, wire, writing, delivering, due, quiet>>
      BY <1>10 DEF Send, Receive, workers, clocks
    <2>. QED
      BY <1>2, <2>1 DEF Lively, Handshaking
  <1>11. ASSUME Tick
         PROVE  \A d \in End : Lively(d)'
    <2>1. ASSUME NEW d \in End, wire[d] = <<>>
          PROVE  RoomOnWire(d)
      <3>1. ~Closed(Peer(d)) /\ net = "ok"
        BY <1>1, NothingBreaks DEF Healthy
      <3>2. Len(wire[d]) < WireCapacity
        BY <2>1, CapacityAssumption
      <3>. QED
        BY <3>1, <3>2 DEF RoomOnWire
    <2>2. \A d \in End : ~Prompt(d)
      BY <1>11 DEF Tick
    <2>3. ASSUME NEW d \in End
          PROVE  stage[d] # "connecting"
      BY <2>1, <2>2 DEF Prompt, HelloFirst
    <2>4. ASSUME NEW d \in End
          PROVE  stage[d] = "streaming" /\ ~Handshaking(d)
      <3>1. stage[d] # "greeted"
        BY <1>2, <2>2, <2>3 DEF Prompt, Lively, Handshaking
      <3>. QED
        BY <1>2, <2>3, <3>1 DEF Lively, Handshaking
    <2>5. ASSUME NEW d \in End, Awaiting(d)
          PROVE  quiet[d] = 0
      <3>1. wire[Peer(d)] = <<>>
        BY <2>2, <2>5 DEF Prompt
      <3>2. writing[Peer(d)] = <<>>
        BY <2>1, <2>2, <3>1 DEF Prompt
      <3>3. ~due[Peer(d)]
        <4>1. Idle(Peer(d))
          BY <1>2, <2>4, <3>2 DEF Idle, Lively
        <4>. QED
          BY <2>2, <4>1 DEF Prompt
      <3>. QED
        BY <1>2, <3>1, <3>2, <3>3, Zenon DEF Lively
    <2>6. ASSUME NEW d \in End, ~Awaiting(d)
          PROVE  quiet[d] = 0
      BY <1>2, <2>4, <2>6 DEF Awaiting, Lively
    <2>7. ASSUME NEW d \in End
          PROVE  quiet'[d] = IF Awaiting(d) THEN 1 ELSE 0
      BY <1>11, <2>4, <2>5, <2>6 DEF Tick
    <2>8. ASSUME NEW d \in End
          PROVE  due'[d]
      <3>1. writer[d] = "running"
        BY <1>2, <2>4 DEF Lively
      <3>. QED
        BY <1>11, <3>1, Zenon DEF Tick
    <2>9. UNCHANGED <<stage, writer, reader, wire, writing, delivering>>
      BY <1>11 DEF Tick, workers, channels
    <2>10. ASSUME NEW d \in End
           PROVE  Lively(d)'
      <3>1. quiet'[d] # 0 => quiet'[d] = 1 /\ delivering'[d] = <<>>
        BY <2>7, <2>9 DEF Awaiting
      <3>2. stage'[d] = "streaming" /\ stage'[Peer(d)] = "streaming" /\ ~Handshaking(d)'
        BY <2>4, <2>9 DEF Handshaking
      <3>3. writer'[d] = "running" /\ reader'[d] = "running"
        BY <1>2, <2>4, <2>9 DEF Lively
      <3>4. due'[Peer(d)]
        BY <2>8
      <3>. QED
        BY <3>1, <3>2, <3>3, <3>4 DEF Lively
    <2>. QED
      BY <2>10
  <1>12. ~Cut /\ ~DesktopDrops /\ ~PhoneDrops
    <2>1. Cut => net' = "cut"
      BY DEF Cut
    <2>2. DesktopDrops => ~held'["desktop"]
      BY DEF DesktopDrops, TypeOK, End
    <2>3. PhoneDrops => ~held'["phone"]
      BY DEF PhoneDrops, TypeOK, End
    <2>. QED
      BY <2>1, <2>2, <2>3 DEF Healthy, End
  <1>. QED
    BY <1>1, <1>4, <1>5, <1>6, <1>7, <1>8, <1>9, <1>10, <1>11, <1>12, NothingBreaks
       DEF Next, Handshake, Writer, Reader

-----------------------------------------------------------------------------

LEMMA InitIInv == Init => IInv
  <1>. SUFFICES ASSUME Init PROVE IInv
    OBVIOUS
  <1>1. TypeOK
    BY InitType
  <1>2. HelloFirst
    BY PeerFacts DEF Init, HelloFirst
  <1>3. TasksFitStage /\ QueuedIsSent
    BY DEF Init, TasksFitStage, QueuedIsSent
  <1>4. KeptAlive
    BY PeerFacts DEF Init, KeptAlive, Lively
  <1>. QED
    BY <1>1, <1>2, <1>3, <1>4 DEF IInv

LEMMA NextIInv == IInv /\ [Next]_vars => IInv'
  <1>. SUFFICES ASSUME IInv, [Next]_vars PROVE IInv'
    OBVIOUS
  <1>. USE DEF IInv
  <1>1. CASE Next
    <2>1. TypeOK'
      BY NextType
    <2>2. HelloFirst' /\ TasksFitStage' /\ QueuedIsSent'
      BY <1>1, HelloFirstStep, TasksFitStageStep, QueuedIsSentStep
    <2>3. KeptAlive'
      BY <1>1, KeptAliveStep DEF KeptAlive
    <2>. QED
      BY <2>1, <2>2, <2>3
  <1>2. CASE UNCHANGED vars
    BY <1>2 DEF vars, TypeOK, HelloFirst, TasksFitStage, QueuedIsSent, KeptAlive, Healthy,
       Lively, Handshaking
  <1>. QED
    BY <1>1, <1>2

LEMMA Invariance == Spec => []IInv
  <1>. QED
    BY InitIInv, NextIInv, PTL DEF Spec

\* The variables of both ends and of the network keep their types and their
\* bounds; in particular no channel holds more than its capacity.
THEOREM TypeCorrect == Spec => []TypeOK
  <1>1. IInv => TypeOK
    BY DEF IInv
  <1>. QED
    BY <1>1, Invariance, PTL

\* The keepalive never ends a healthy connection, for any capacities of the
\* channels and the sockets and any timeout longer than the interval.
THEOREM HealthyStaysUp == Spec => []DownForAReason
  <1>1. IInv => DownForAReason
    BY DEF IInv, KeptAlive, Lively, DownForAReason, Handshaking
  <1>. QED
    BY <1>1, Invariance, PTL

\* Once an end has announced that it is disconnected, nothing is delivered to
\* its program any more.
THEOREM NothingAfterTheEnd == Spec => EndIsLast
  <1>1. ASSUME IInv, [Next]_vars, NEW e \in End, stage[e] = "disconnected"
        PROVE  Len(inn'[e]) <= Len(inn[e])
    <2>1. inn \in [End -> Seq(Payload)] /\ inn[e] \in Seq(Payload)
      BY <1>1 DEF IInv, TypeOK
    <2>2. ~Deliver(e)
      BY <1>1 DEF Deliver, IInv, TasksFitStage
    <2>3. \/ inn' = inn
          \/ \E d \in End : inn' = [inn EXCEPT ![d] = <<>>]
          \/ \E d \in End : inn[d] # <<>> /\ inn' = [inn EXCEPT ![d] = Tail(@)]
          \/ \E d \in End \ {e} : inn' = [inn EXCEPT ![d] = Append(@, Head(delivering[d]))]
      <3>1. CASE Next
        BY <3>1, <2>2 DEF Next, Cut, Tick, DesktopDrops, PhoneDrops, Handshake, Greet,
           Greeted, HandshakeFails, Writer, TakeMessage, EncodeFails, TakePing,
           ChannelClosed, Write, WriteFails, WriteIntoVoid, Reader, Read, ReadFails,
           Deliver, DeliverFails, Lifecycle, Abort, Aborted, Announce, Reset, Send,
           Receive, channels, End
      <3>2. CASE UNCHANGED vars
        BY <3>2 DEF vars
      <3>. QED
        BY <1>1, <3>1, <3>2
    <2>4. \/ inn'[e] = inn[e]
          \/ inn'[e] = <<>>
          \/ inn[e] # <<>> /\ inn'[e] = Tail(inn[e])
      BY <2>1, <2>3
    <2>. QED
      BY <2>1, <2>4
  <1>2. IInv /\ [Next]_vars
            => [\A e \in End : stage[e] = "disconnected" => Len(inn'[e]) <= Len(inn[e])]_vars
    BY <1>1
  <1>. QED
    BY <1>2, Invariance, PTL DEF Spec, EndIsLast

-----------------------------------------------------------------------------
(* Induction, and the payloads of a sequence of frames *)

\* A set of numbers that has 0 and, with a number, the next one, has them all.
LEMMA NumbersUpwards ==
    ASSUME NEW S, 0 \in S, \A n \in Nat : n \in S => n + 1 \in S
    PROVE  Nat \subseteq S
  <1>. SUFFICES ASSUME NEW x \in Nat \ S
                PROVE  FALSE
    OBVIOUS
  <1>. DEFINE T == (0 .. x) \ S
              f == [n \in T |-> n - 1]
  <1>1. IsFiniteSet(T)
    <2>1. IsFiniteSet(0 .. x)
      BY FS_Interval
    <2>2. T \in SUBSET (0 .. x)
      OBVIOUS
    <2>. QED
      BY <2>1, <2>2, FS_Subset
  <1>2. f \in Injection(T, T)
    <2>1. ASSUME NEW n \in T PROVE n - 1 \in T
      <3>1. n \in Nat /\ n # 0 /\ n <= x
        OBVIOUS
      <3>2. n - 1 \in Nat /\ n = (n - 1) + 1 /\ n - 1 <= x
        BY <3>1
      <3>3. n - 1 \notin S
        BY <3>2
      <3>. QED
        BY <3>2, <3>3
    <2>2. f \in [T -> T]
      BY <2>1
    <2>3. \A a, b \in T : f[a] = f[b] => a = b
      OBVIOUS
    <2>. QED
      BY <2>2, <2>3 DEF Injection, IsInjective
  <1>3. f \in Surjection(T, T)
    BY <1>1, <1>2, FS_Injection
  <1>4. x \in T
    OBVIOUS
  <1>5. PICK y \in T : f[y] = x
    <2>. HIDE DEF T, f
    <2>. QED
      BY <1>3, <1>4 DEF Surjection
  <1>. QED
    BY <1>5

KeptStep(frames, i, before) ==
    IF i = 0 THEN <<>>
    ELSE IF frames[i] \in Payload THEN Append(before, frames[i])
    ELSE before

LEMMA KeptExists ==
    ASSUME NEW frames \in Seq(Frame)
    PROVE  \E f : f = [i \in 0 .. Len(frames) |-> KeptStep(frames, i, f[i - 1])]
  <1>. DEFINE Good == {n \in Nat : \E f : f = [i \in 0 .. n |-> KeptStep(frames, i, f[i - 1])]}
  <1>1. 0 \in Good
    <2>1. [i \in 0 .. 0 |-> <<>>] = [i \in 0 .. 0 |-> KeptStep(frames, i, [j \in 0 .. 0 |-> <<>>][i - 1])]
      BY DEF KeptStep
    <2>. QED
      BY <2>1
  <1>2. ASSUME NEW n \in Nat, n \in Good
        PROVE  n + 1 \in Good
    <2>1. PICK f : f = [i \in 0 .. n |-> KeptStep(frames, i, f[i - 1])]
      BY <1>2
    <2>. DEFINE g == [i \in 0 .. n + 1 |-> IF i = n + 1 THEN KeptStep(frames, i, f[n]) ELSE f[i]]
    <2>2. \A i \in 0 .. n : f[i] = KeptStep(frames, i, f[i - 1])
      BY <2>1
    <2>3. ASSUME NEW i \in 0 .. n + 1
          PROVE  g[i] = KeptStep(frames, i, g[i - 1])
      <3>1. CASE i = n + 1
        BY <3>1
      <3>2. CASE i \in 1 .. n
        BY <2>2, <3>2
      <3>3. CASE i = 0
        BY <2>2, <3>3 DEF KeptStep
      <3>. QED
        BY <3>1, <3>2, <3>3
    <2>4. g = [i \in 0 .. n + 1 |-> KeptStep(frames, i, g[i - 1])]
      BY <2>3
    <2>. HIDE DEF g
    <2>5. \E h : h = [i \in 0 .. n + 1 |-> KeptStep(frames, i, h[i - 1])]
      BY <2>4
    <2>6. n + 1 \in Nat
      OBVIOUS
    <2>. QED
      BY <2>5, <2>6, Zenon
  <1>3. Nat \subseteq Good
    <2>. HIDE DEF Good
    <2>. QED
      BY <1>1, <1>2, NumbersUpwards
  <1>4. Len(frames) \in Nat
    BY LenProperties
  <1>. QED
    BY <1>3, <1>4

LEMMA KeptFacts ==
    ASSUME NEW frames \in Seq(Frame)
    PROVE  /\ Kept(frames)[0] = <<>>
           /\ \A i \in 1 .. Len(frames) :
                 Kept(frames)[i] = IF frames[i] \in Payload THEN Append(Kept(frames)[i - 1], frames[i])
                                   ELSE Kept(frames)[i - 1]
  <1>. DEFINE f == CHOOSE f : f = [i \in 0 .. Len(frames) |-> KeptStep(frames, i, f[i - 1])]
  <1>1. Kept(frames) = f
    BY DEF Kept, KeptStep
  <1>2. f = [i \in 0 .. Len(frames) |-> KeptStep(frames, i, f[i - 1])]
    BY KeptExists
  <1>3. Len(frames) \in Nat
    BY LenProperties
  <1>4. \A i \in 0 .. Len(frames) : f[i] = KeptStep(frames, i, f[i - 1])
    BY <1>2
  <1>. HIDE DEF f
  <1>5. f[0] = <<>>
    BY <1>3, <1>4 DEF KeptStep
  <1>6. ASSUME NEW i \in 1 .. Len(frames)
        PROVE  f[i] = IF frames[i] \in Payload THEN Append(f[i - 1], frames[i])
                                               ELSE f[i - 1]
    <2>1. f[i] = KeptStep(frames, i, f[i - 1]) /\ i # 0
      BY <1>3, <1>4
    <2>. QED
      BY <2>1 DEF KeptStep
  <1>. QED
    BY <1>1, <1>5, <1>6

\* What is kept of the first frames depends on these frames only.
LEMMA KeptAgrees ==
    ASSUME NEW q \in Seq(Frame), NEW r \in Seq(Frame), NEW n \in Nat,
           n <= Len(q), n <= Len(r), \A i \in 1 .. n : q[i] = r[i]
    PROVE  Kept(q)[n] = Kept(r)[n]
  <1>. DEFINE Good == {k \in Nat : k <= n => Kept(q)[k] = Kept(r)[k]}
  <1>1. 0 \in Good
    BY KeptFacts
  <1>2. ASSUME NEW k \in Nat, k \in Good
        PROVE  k + 1 \in Good
    <2>. SUFFICES ASSUME k + 1 <= n PROVE Kept(q)[k + 1] = Kept(r)[k + 1]
      OBVIOUS
    <2>1. Kept(q)[k] = Kept(r)[k] /\ q[k + 1] = r[k + 1]
      BY <1>2
    <2>2. k + 1 \in 1 .. Len(q) /\ k + 1 \in 1 .. Len(r) /\ (k + 1) - 1 = k
      BY LenProperties
    <2>. QED
      BY <2>1, <2>2, KeptFacts
  <1>. HIDE DEF Good
  <1>3. n \in Good
    BY <1>1, <1>2, NumbersUpwards
  <1>. QED
    BY <1>3 DEF Good

LEMMA KeptType ==
    ASSUME NEW q \in Seq(Frame), NEW n \in 0 .. Len(q)
    PROVE  Kept(q)[n] \in Seq(Payload)
  <1>. DEFINE Good == {k \in Nat : k <= Len(q) => Kept(q)[k] \in Seq(Payload)}
  <1>0. Len(q) \in Nat
    BY LenProperties
  <1>1. 0 \in Good
    <2>1. Kept(q)[0] = <<>> /\ <<>> \in Seq(Payload)
      BY KeptFacts, EmptySeq
    <2>2. Kept(q)[0] \in Seq(Payload)
      BY <2>1
    <2>. QED
      BY <2>2
  <1>2. ASSUME NEW k \in Nat, k \in Good
        PROVE  k + 1 \in Good
    <2>. SUFFICES ASSUME k + 1 <= Len(q) PROVE Kept(q)[k + 1] \in Seq(Payload)
      OBVIOUS
    <2>1. Kept(q)[k] \in Seq(Payload)
      BY <1>0, <1>2
    <2>2. k + 1 \in 1 .. Len(q) /\ (k + 1) - 1 = k
      BY <1>0
    <2>3. Kept(q)[k + 1] = IF q[k + 1] \in Payload THEN Append(Kept(q)[k], q[k + 1])
                                                   ELSE Kept(q)[k]
      BY <2>2, KeptFacts
    <2>. QED
      BY <2>1, <2>3
  <1>3. n \in Good
    <2>. HIDE DEF Good
    <2>. QED
      BY <1>0, <1>1, <1>2, NumbersUpwards
  <1>. QED
    BY <1>0, <1>3

LEMMA PayloadsType ==
    ASSUME NEW q \in Seq(Frame)
    PROVE  Payloads(q) \in Seq(Payload)
  <1>1. Len(q) \in 0 .. Len(q)
    BY LenProperties
  <1>. QED
    BY <1>1, KeptType DEF Payloads

\* The payloads of two sequences, one after the other.
LEMMA PayloadsConcat ==
    ASSUME NEW q \in Seq(Frame), NEW r \in Seq(Frame)
    PROVE  Payloads(q \o r) = Payloads(q) \o Payloads(r)
  <1>. DEFINE s == q \o r
              Good == {k \in Nat : k <= Len(r) => Kept(s)[Len(q) + k] = Payloads(q) \o Kept(r)[k]}
  <1>1. /\ Len(q) \in Nat /\ Len(r) \in Nat
        /\ s \in Seq(Frame) /\ Len(s) = Len(q) + Len(r)
        /\ \A i \in 1 .. Len(q) : s[i] = q[i]
        /\ \A i \in 1 .. Len(r) : s[Len(q) + i] = r[i]
    BY ConcatProperties, LenProperties
  <1>2. Payloads(q) \in Seq(Payload)
    BY PayloadsType
  <1>. HIDE DEF s
  <1>3. 0 \in Good
    <2>1. Kept(s)[Len(q)] = Payloads(q)
      <3>1. Len(q) <= Len(q) /\ Len(q) <= Len(s) /\ \A i \in 1 .. Len(q) : s[i] = q[i]
        BY <1>1
      <3>2. Kept(s)[Len(q)] = Kept(q)[Len(q)]
        BY <1>1, <3>1, KeptAgrees
      <3>. QED
        BY <3>2 DEF Payloads
    <2>2. Kept(r)[0] = <<>> /\ Len(q) + 0 = Len(q)
      BY <1>1, KeptFacts
    <2>. QED
      BY <1>2, <2>1, <2>2
  <1>4. ASSUME NEW k \in Nat, k \in Good
        PROVE  k + 1 \in Good
    <2>. SUFFICES ASSUME k + 1 <= Len(r)
                  PROVE  Kept(s)[Len(q) + (k + 1)] = Payloads(q) \o Kept(r)[k + 1]
      OBVIOUS
    <2>1. Kept(s)[Len(q) + k] = Payloads(q) \o Kept(r)[k]
      BY <1>1, <1>4
    <2>2. /\ Len(q) + (k + 1) \in 1 .. Len(s) /\ (Len(q) + (k + 1)) - 1 = Len(q) + k
          /\ k + 1 \in 1 .. Len(r) /\ (k + 1) - 1 = k
          /\ k \in 0 .. Len(r)
      BY <1>1
    <2>3. s[Len(q) + (k + 1)] = r[k + 1]
      BY <1>1, <2>2
    <2>4. Kept(r)[k + 1] = IF r[k + 1] \in Payload THEN Append(Kept(r)[k], r[k + 1])
                                                   ELSE Kept(r)[k]
      BY <2>2, KeptFacts
    <2>5. Kept(s)[Len(q) + (k + 1)] = IF r[k + 1] \in Payload
                                      THEN Append(Kept(s)[Len(q) + k], r[k + 1])
                                      ELSE Kept(s)[Len(q) + k]
      <3>1. \A j \in 1 .. Len(s) :
              Kept(s)[j] = IF s[j] \in Payload THEN Append(Kept(s)[j - 1], s[j]) ELSE Kept(s)[j - 1]
        BY <1>1, KeptFacts
      <3>2. PICK j \in 1 .. Len(s) : j = Len(q) + (k + 1)
        BY <2>2
      <3>3. s[j] = r[k + 1] /\ j - 1 = Len(q) + k
        BY <2>2, <2>3, <3>2
      <3>4. Kept(s)[j] = IF r[k + 1] \in Payload THEN Append(Kept(s)[j - 1], r[k + 1])
                                                 ELSE Kept(s)[j - 1]
        BY <3>1, <3>3, Zenon
      <3>. QED
        BY <3>2, <3>3, <3>4, Zenon
    <2>6. Kept(r)[k] \in Seq(Payload)
      BY <2>2, KeptType
    <2>7. ASSUME r[k + 1] \in Payload
          PROVE  Append(Payloads(q) \o Kept(r)[k], r[k + 1])
                    = Payloads(q) \o Append(Kept(r)[k], r[k + 1])
      <3>. DEFINE p == Payloads(q)
                  t == Kept(r)[k]
                  m == r[k + 1]
      <3>1. p \in Seq(Payload) /\ t \in Seq(Payload) /\ m \in Payload
        BY <1>2, <2>6, <2>7
      <3>. HIDE DEF p, t, m
      <3>2. Append(p \o t, m) = p \o Append(t, m)
        <4>1. p \o t \in Seq(Payload) /\ <<m>> \in Seq(Payload)
          BY <3>1
        <4>2. Append(p \o t, m) = (p \o t) \o <<m>> /\ Append(t, m) = t \o <<m>>
          BY <3>1, <4>1, AppendIsConcat
        <4>. QED
          BY <3>1, <4>1, <4>2, ConcatAssociative, SMTT(30)
      <3>. QED
        BY <3>2 DEF p, t, m
    <2>. QED
      BY <2>1, <2>4, <2>5, <2>7
  <1>5. Len(r) \in Good
    <2>. HIDE DEF Good
    <2>. QED
      BY <1>1, <1>3, <1>4, NumbersUpwards
  <1>6. Kept(s)[Len(q) + Len(r)] = Payloads(q) \o Kept(r)[Len(r)]
    BY <1>1, <1>5
  <1>. QED
    BY <1>1, <1>6 DEF Payloads, s

LEMMA PayloadsOfOne ==
    /\ Payloads(<<>>) = <<>>
    /\ \A m \in Frame : Payloads(<<m>>) = IF m \in Payload THEN <<m>> ELSE <<>>
  <1>1. <<>> \in Seq(Frame) /\ Len(<<>>) = 0
    OBVIOUS
  <1>2. Payloads(<<>>) = <<>>
    BY <1>1, KeptFacts DEF Payloads
  <1>3. ASSUME NEW m \in Frame
        PROVE  Payloads(<<m>>) = IF m \in Payload THEN <<m>> ELSE <<>>
    <2>1. <<m>> \in Seq(Frame) /\ Len(<<m>>) = 1 /\ <<m>>[1] = m /\ 1 \in 1 .. 1 /\ 1 - 1 = 0
      OBVIOUS
    <2>2. Kept(<<m>>)[0] = <<>>
      BY <2>1, KeptFacts
    <2>3. Kept(<<m>>)[1] = IF m \in Payload THEN Append(<<>>, m) ELSE <<>>
      BY <2>1, <2>2, KeptFacts
    <2>. QED
      BY <2>1, <2>3 DEF Payloads
  <1>. QED
    BY <1>2, <1>3

-----------------------------------------------------------------------------
(* The handshake is read first *)

\* While an end waits for its peer's handshake, that is the next frame it reads.
HelloNext ==
    \A e \in End : Handshaking(e) =>
        /\ wire[Peer(e)] # <<>> => wire[Peer(e)][1] = Hello
        /\ wire[Peer(e)] = <<>> => \/ stage[Peer(e)] = "connecting" \/ net = "cut"
                                   \/ ShutDown(Peer(e))

\* A step that adds nothing to the wire and takes nothing from its front.
LEMMA HelloNextKept ==
    ASSUME TypeOK, HelloNext,
           net = "cut" => net' = "cut",
           \A e \in End :
              /\ Handshaking(e)' => Handshaking(e)
              /\ ShutDown(e) => ShutDown(e)'
              /\ Handshaking(Peer(e))' => wire'[e] = wire[e]
              /\ Handshaking(Peer(e))' /\ wire[e] = <<>> /\ stage[e] = "connecting"
                    => stage'[e] = "connecting" \/ ShutDown(e)'
    PROVE  HelloNext'
  <1>. USE PeerFacts
  <1>. SUFFICES ASSUME NEW e \in End, Handshaking(e)'
                PROVE  /\ wire'[Peer(e)] # <<>> => wire'[Peer(e)][1] = Hello
                       /\ wire'[Peer(e)] = <<>> => \/ stage'[Peer(e)] = "connecting" \/ net' = "cut"
                                                   \/ ShutDown(Peer(e))'
    BY DEF HelloNext, ShutDown
  <1>1. Handshaking(e) /\ wire'[Peer(e)] = wire[Peer(e)]
    OBVIOUS
  <1>. QED
    BY <1>1 DEF HelloNext

\* The network or a closed socket takes frames away from the back.
LEMMA HelloNextLess ==
    ASSUME TypeOK, HelloNext, UNCHANGED <<stage, writer>>,
           net = "cut" => net' = "cut",
           \A e \in End : \/ wire'[e] = wire[e]
                          \/ wire'[e] \in Remains(wire[e]) /\ (net' = "cut" \/ ShutDown(e))
    PROVE  HelloNext'
  <1>. USE PeerFacts
  <1>. SUFFICES ASSUME NEW e \in End, Handshaking(e)
                PROVE  /\ wire'[Peer(e)] # <<>> => wire'[Peer(e)][1] = Hello
                       /\ wire'[Peer(e)] = <<>> => \/ stage[Peer(e)] = "connecting" \/ net' = "cut"
                                                   \/ ShutDown(Peer(e))
    BY DEF HelloNext, ShutDown, Handshaking
  <1>1. CASE wire'[Peer(e)] = wire[Peer(e)]
    BY <1>1 DEF HelloNext
  <1>2. CASE wire'[Peer(e)] \in Remains(wire[Peer(e)]) /\ (net' = "cut" \/ ShutDown(Peer(e)))
    <2>. DEFINE q == wire[Peer(e)]
                r == wire'[Peer(e)]
    <2>1. q \in Seq(Frame)
      BY DEF TypeOK
    <2>2. /\ r \in Seq(Frame) /\ Len(r) <= Len(q)
          /\ \A i \in 1 .. Len(r) : r[i] = q[i]
      BY <1>2, <2>1, RemainsFacts
    <2>3. r # <<>> => q # <<>> /\ r[1] = q[1]
      <3>. HIDE DEF q, r
      <3>. QED
        BY <2>1, <2>2
    <2>. QED
      BY <1>2, <2>3 DEF HelloNext
  <1>. QED
    BY <1>1, <1>2

LEMMA HelloNextStep ==
    ASSUME TypeOK, HelloFirst, TasksFitStage, HelloNext, Next
    PROVE  HelloNext'
  <1>. USE PeerFacts
  <1>1. ASSUME NEW e \in End, Greet(e)
        PROVE  HelloNext'
    <2>1. wire[e] = <<>> /\ stage[e] = "connecting"
      BY <1>1 DEF Greet, HelloFirst
    <2>2. wire' = [wire EXCEPT ![e] = <<Hello>>]
      BY <1>1, <2>1 DEF Greet
    <2>3. stage' = [stage EXCEPT ![e] = "greeted"] /\ UNCHANGED <<net, writer>>
      BY <1>1 DEF Greet
    <2>4. /\ wire'[e] = <<Hello>> /\ stage'[e] = "greeted"
          /\ wire'[Peer(e)] = wire[Peer(e)] /\ stage'[Peer(e)] = stage[Peer(e)]
      BY <2>2, <2>3 DEF TypeOK
    <2>5. <<Hello>> # <<>> /\ <<Hello>>[1] = Hello
      OBVIOUS
    <2>6. Handshaking(e) /\ (Handshaking(Peer(e))' => Handshaking(Peer(e)))
      BY <2>1, <2>4 DEF Handshaking
    <2>7. ShutDown(Peer(e)) => ShutDown(Peer(e))'
      BY <2>3, <2>4 DEF ShutDown
    <2>8. ASSUME NEW d \in End, Handshaking(d)'
          PROVE  /\ wire'[Peer(d)] # <<>> => wire'[Peer(d)][1] = Hello
                 /\ wire'[Peer(d)] = <<>> => \/ stage'[Peer(d)] = "connecting" \/ net' = "cut"
                                             \/ ShutDown(Peer(d))'
      <3>1. CASE d = e
        BY <2>3, <2>4, <2>6, <2>7, <3>1 DEF HelloNext
      <3>2. CASE d = Peer(e)
        BY <2>4, <2>5, <3>2
      <3>. QED
        BY <3>1, <3>2
    <2>. QED
      BY <2>8 DEF HelloNext, ShutDown
  <1>2. ASSUME NEW e \in End, Write(e)
        PROVE  HelloNext'
    <2>1. writing[e] # <<>> /\ RoomOnWire(e)
      BY <1>2 DEF Write
    <2>2. /\ wire' = [wire EXCEPT ![e] = Append(@, Head(writing[e]))]
          /\ UNCHANGED <<stage, writer, net>>
      BY <1>2 DEF Write, workers
    <2>3. stage[e] # "connecting" /\ net # "cut" /\ ~ShutDown(e)
      BY <2>1 DEF TasksFitStage, RoomOnWire, ShutDown
    <2>4. ASSUME Handshaking(Peer(e))
          PROVE  wire'[e] # <<>> /\ wire'[e][1] = Hello
      <3>1. wire[e] # <<>> /\ wire[e][1] = Hello
        BY <2>3, <2>4 DEF HelloNext
      <3>2. wire[e] \in Seq(Frame) /\ wire'[e] = Append(wire[e], Head(writing[e]))
        BY <2>2 DEF TypeOK
      <3>. QED
        BY <3>1, <3>2
    <2>5. wire'[Peer(e)] = wire[Peer(e)]
      BY <2>2 DEF TypeOK
    <2>6. \A d \in End : (Handshaking(d)' <=> Handshaking(d)) /\ (ShutDown(d)' <=> ShutDown(d))
      BY <2>2 DEF Handshaking, ShutDown
    <2>8. ASSUME NEW d \in End, Handshaking(d)'
          PROVE  /\ wire'[Peer(d)] # <<>> => wire'[Peer(d)][1] = Hello
                 /\ wire'[Peer(d)] = <<>> => \/ stage'[Peer(d)] = "connecting" \/ net' = "cut"
                                             \/ ShutDown(Peer(d))'
      <3>1. CASE d = e
        BY <2>2, <2>5, <2>6, <2>8, <3>1 DEF HelloNext
      <3>2. CASE d = Peer(e)
        BY <2>4, <2>6, <2>8, <3>2
      <3>. QED
        BY <3>1, <3>2
    <2>. QED
      BY <2>8 DEF HelloNext, ShutDown
  <1>3. ASSUME NEW e \in End, Reset(e)
        PROVE  HelloNext'
    <2>1. PICK w \in Remains(wire[e]) : wire' = [wire EXCEPT ![e] = w]
      BY <1>3 DEF Reset
    <2>2. ShutDown(e) /\ UNCHANGED <<stage, writer, net>>
      BY <1>3 DEF Reset, Closed, ShutDown
    <2>3. wire'[e] = w /\ wire'[Peer(e)] = wire[Peer(e)]
      BY <2>1 DEF TypeOK
    <2>. QED
      BY <2>2, <2>3, HelloNextLess
  <1>4. CASE Cut
    <2>1. \A e \in End : wire'[e] \in Remains(wire[e])
      BY <1>4 DEF Cut, End
    <2>2. UNCHANGED <<stage, writer>> /\ net' = "cut"
      BY <1>4 DEF Cut
    <2>. QED
      BY <2>1, <2>2, HelloNextLess
  <1>5. ASSUME NEW e \in End, Greeted(e)
        PROVE  HelloNext'
    <2>1. /\ wire[Peer(e)] # <<>>
          /\ wire' = [wire EXCEPT ![Peer(e)] = Tail(@)]
          /\ stage' = [stage EXCEPT ![e] = "streaming"] \/ stage' = [stage EXCEPT ![e] = "failed"]
          /\ writer' = [writer EXCEPT ![e] = "running"] \/ writer' = writer
          /\ stage[e] = "greeted" /\ writer[e] = "none" /\ net' = net
      BY <1>5 DEF Greeted, TasksFitStage
    <2>2. /\ wire'[e] = wire[e] /\ ~Handshaking(e)' /\ Handshaking(e)
          /\ stage'[Peer(e)] = stage[Peer(e)] /\ writer'[Peer(e)] = writer[Peer(e)]
      BY <2>1 DEF TypeOK, Handshaking
    <2>3. ~ShutDown(e)
      BY <2>1 DEF ShutDown
    <2>. QED
      BY <2>1, <2>2, <2>3, HelloNextKept DEF ShutDown, Handshaking
  <1>6. ASSUME NEW e \in End, Read(e)
        PROVE  HelloNext'
    <2>1. /\ reader[e] = "running"
          /\ wire' = [wire EXCEPT ![Peer(e)] = Tail(@)]
          /\ UNCHANGED <<net, stage, writer>>
      BY <1>6 DEF Read, Awaiting, workers
    <2>2. wire'[e] = wire[e] /\ ~Handshaking(e)
      BY <2>1 DEF TypeOK, Handshaking, TasksFitStage
    <2>. QED
      BY <2>1, <2>2, HelloNextKept DEF ShutDown, Handshaking
  <1>7. ASSUME NEW e \in End,
               \/ HandshakeFails(e) \/ TakeMessage(e) \/ EncodeFails(e) \/ TakePing(e)
               \/ ChannelClosed(e) \/ WriteFails(e) \/ WriteIntoVoid(e) \/ ReadFails(e)
               \/ Deliver(e) \/ DeliverFails(e) \/ Lifecycle(e) \/ Send(e) \/ Receive(e)
               \/ Tick \/ DesktopDrops \/ PhoneDrops
        PROVE  HelloNext'
    <2>1. wire' = wire /\ net' = net
      BY <1>7 DEF HandshakeFails, TakeMessage, EncodeFails, TakePing, ChannelClosed,
         WriteFails, WriteIntoVoid, ReadFails, Deliver, DeliverFails, Lifecycle, Abort,
         Aborted, Announce, Send, Receive, Tick, DesktopDrops, PhoneDrops, channels
    <2>2. \A d \in End : /\ Handshaking(d)' => stage'[d] = stage[d]
                         /\ stage[d] = "connecting" => stage'[d] \in {"connecting", "failed"}
                         /\ stage[d] = "failed" => stage'[d] = "failed"
      <3>1. CASE stage' = stage
        BY <3>1 DEF TypeOK
      <3>2. CASE Lifecycle(e)
        BY <3>2 DEF Lifecycle, Abort, Aborted, Announce, Handshaking, TypeOK
      <3>3. CASE HandshakeFails(e) \/ DesktopDrops \/ PhoneDrops
        BY <3>3 DEF HandshakeFails, DesktopDrops, PhoneDrops, Handshaking, TypeOK
      <3>. QED
        BY <1>7, <3>1, <3>2, <3>3 DEF TakeMessage, EncodeFails, TakePing,
           ChannelClosed, WriteFails, WriteIntoVoid, ReadFails, Deliver, DeliverFails,
           Send, Receive, Tick, workers
    <2>3. \A d \in End : writer[d] = "ended" => writer'[d] = "ended"
      <3>1. CASE writer' = writer
        BY <3>1
      <3>2. ASSUME NEW d \in End, WriterEnds(d)
            PROVE  \A c \in End : writer[c] = "ended" => writer'[c] = "ended"
        BY <3>2 DEF WriterEnds, TypeOK
      <3>3. CASE EncodeFails(e) \/ ChannelClosed(e) \/ WriteFails(e) \/ WriteIntoVoid(e)
        BY <3>1, <3>2, <3>3 DEF EncodeFails, ChannelClosed, WriteFails, WriteIntoVoid
      <3>4. CASE Lifecycle(e)
        BY <3>1, <3>2, <3>4 DEF Lifecycle, Abort, Aborted, Announce
      <3>5. CASE PhoneDrops
        BY <3>2, <3>5 DEF PhoneDrops, End
      <3>. QED
        BY <1>7, <3>1, <3>3, <3>4, <3>5 DEF HandshakeFails, TakeMessage, TakePing,
           ReadFails, Deliver, DeliverFails, Send, Receive, Tick, DesktopDrops, workers
    <2>4. \A d \in End : ShutDown(d) => ShutDown(d)'
      BY <2>2, <2>3 DEF ShutDown
    <2>5. \A d \in End : Handshaking(d)' => Handshaking(d)
      BY <2>2 DEF Handshaking
    <2>6. \A d \in End : stage[d] = "connecting" => stage'[d] = "connecting" \/ ShutDown(d)'
      BY <2>2 DEF ShutDown
    <2>. QED
      BY <2>1, <2>4, <2>5, <2>6, HelloNextKept
  <1>. QED
    BY <1>1, <1>2, <1>3, <1>4, <1>5, <1>6, <1>7 DEF Next, Handshake, Writer, Reader, End

-----------------------------------------------------------------------------
(* One direction of the connection, as the promise sees it *)

\* What has reached the program's side, what is to be read, what is to be written.
Arrived(e) == inn[e] \o delivering[e]
Unread(e) == IF reader[Peer(e)] = "ended" THEN <<>> ELSE Payloads(wire[e])
Unsent(e) == IF Intact(e) THEN Payloads(writing[e]) \o out[e] ELSE <<>>

Beginning(s, t) == \E r \in Seq(Payload) : t = s \o r

WellTyped == \A e \in End : Underway(e) \in Seq(Payload)

\* A direction stays as it is, or it fails and keeps a beginning.
Settles(e) == \/ (Intact(e)' <=> Intact(e)) /\ Underway(e)' = Underway(e)
              \/ ~Intact(e)' /\ Beginning(Underway(e)', Underway(e))

\* Sequences of payloads
LEMMA Associative ==
    \A q, r, s \in Seq(Payload) : q \o r \in Seq(Payload) /\ (q \o r) \o s = q \o (r \o s)
BY ConcatAssociative, ConcatProperties

LEMMA Empties ==
    \A q \in Seq(Payload) : <<>> \o q = q /\ q \o <<>> = q
BY ConcatEmptySeq

LEMMA PrefixFacts ==
    ASSUME NEW s \in Seq(Payload), NEW t, Beginning(s, t)
    PROVE  \E k \in 0 .. Len(t) : s = SubSeq(t, 1, k)
  <1>1. PICK r \in Seq(Payload) : t = s \o r
    BY DEF Beginning
  <1>2. /\ t \in Seq(Payload) /\ Len(s) \in 0 .. Len(t)
        /\ \A i \in 1 .. Len(s) : t[i] = s[i]
    BY <1>1
  <1>3. /\ SubSeq(t, 1, Len(s)) \in Seq(Payload)
        /\ Len(SubSeq(t, 1, Len(s))) = Len(s)
        /\ \A i \in 1 .. Len(s) : SubSeq(t, 1, Len(s))[i] = t[i]
    BY <1>2
  <1>4. s = SubSeq(t, 1, Len(s))
    BY <1>2, <1>3, SeqEqual
  <1>. QED
    BY <1>2, <1>4

LEMMA TailOfConcat ==
    ASSUME NEW q \in Seq(Payload), NEW r \in Seq(Payload), q # <<>>
    PROVE  q \o r # <<>> /\ Tail(q \o r) = Tail(q) \o r
  <1>. DEFINE s == q \o r
              t == Tail(q) \o r
  <1>1. /\ Len(q) \in Nat \ {0} /\ Len(r) \in Nat
        /\ s \in Seq(Payload) /\ Len(s) = Len(q) + Len(r)
        /\ \A i \in 1 .. Len(q) + Len(r) : s[i] = IF i <= Len(q) THEN q[i] ELSE r[i - Len(q)]
    BY ConcatProperties, LenProperties, EmptySeq
  <1>2. /\ Tail(q) \in Seq(Payload) /\ Len(Tail(q)) = Len(q) - 1
        /\ \A i \in 1 .. Len(q) - 1 : Tail(q)[i] = q[i + 1]
    BY HeadTailProperties
  <1>3. /\ t \in Seq(Payload) /\ Len(t) = (Len(q) - 1) + Len(r)
        /\ \A i \in 1 .. Len(t) : t[i] = IF i <= Len(q) - 1 THEN Tail(q)[i] ELSE r[i - (Len(q) - 1)]
    BY <1>1, <1>2, ConcatProperties
  <1>. HIDE DEF s, t
  <1>4. s # <<>>
    BY <1>1
  <1>5. /\ Tail(s) \in Seq(Payload) /\ Len(Tail(s)) = Len(s) - 1
        /\ \A i \in 1 .. Len(s) - 1 : Tail(s)[i] = s[i + 1]
    BY <1>1, <1>4, HeadTailProperties
  <1>6. \A i \in 1 .. Len(t) : Tail(s)[i] = t[i]
    <2>1. TAKE i \in 1 .. Len(t)
    <2>2. i \in 1 .. Len(s) - 1 /\ Tail(s)[i] = s[i + 1] /\ i + 1 \in 1 .. Len(q) + Len(r)
      BY <1>1, <1>3, <1>5
    <2>3. CASE i <= Len(q) - 1
      <3>1. i \in 1 .. Len(q) - 1 /\ i + 1 <= Len(q)
        BY <1>1, <2>2, <2>3
      <3>2. t[i] = Tail(q)[i] /\ Tail(q)[i] = q[i + 1]
        BY <1>2, <1>3, <3>1
      <3>3. s[i + 1] = q[i + 1]
        BY <1>1, <2>2, <3>1
      <3>. QED
        BY <2>2, <3>2, <3>3
    <2>4. CASE i > Len(q) - 1
      <3>1. i \in Nat /\ ~(i <= Len(q) - 1) /\ ~(i + 1 <= Len(q))
            /\ (i + 1) - Len(q) = i - (Len(q) - 1)
        BY <1>1, <2>2, <2>4
      <3>2. t[i] = r[i - (Len(q) - 1)]
        BY <1>3, <3>1
      <3>3. s[i + 1] = r[(i + 1) - Len(q)]
        BY <1>1, <2>2, <3>1
      <3>. QED
        BY <2>2, <3>1, <3>2, <3>3
    <2>. QED
      BY <1>1, <1>3, <2>2, <2>3, <2>4
  <1>7. Tail(s) = t
    BY <1>1, <1>3, <1>5, <1>6, SeqEqual
  <1>. QED
    BY <1>4, <1>7 DEF s, t

\* The pieces a direction consists of.
LEMMA Pieces ==
    ASSUME TypeOK, NEW e \in End
    PROVE  /\ inn[Peer(e)] \in Seq(Payload) /\ delivering[Peer(e)] \in Seq(Payload)
           /\ Arrived(Peer(e)) \in Seq(Payload)
           /\ Payloads(wire[e]) \in Seq(Payload)
           /\ Unread(e) \in Seq(Payload)
           /\ Payloads(writing[e]) \in Seq(Payload)
           /\ out[e] \in Seq(Payload)
           /\ Unsent(e) \in Seq(Payload)
  <1>. USE PeerFacts
  <1>1. inn[Peer(e)] \in Seq(Payload) /\ out[e] \in Seq(Payload) /\ wire[e] \in Seq(Frame)
    BY DEF TypeOK
  <1>2. delivering[Peer(e)] \in Seq(Payload)
    <2>1. delivering[Peer(e)] = <<>> \/ \E m \in Payload : delivering[Peer(e)] = <<m>>
      BY DEF TypeOK
    <2>2. \A m \in Payload : <<m>> \in Seq(Payload)
      OBVIOUS
    <2>. QED
      BY <2>1, <2>2, EmptySeq
  <1>3. writing[e] \in Seq(Frame)
    <2>1. writing[e] = <<>> \/ \E m \in Payload \cup {Ping} : writing[e] = <<m>>
      BY DEF TypeOK
    <2>2. \A m \in Frame : <<m>> \in Seq(Frame)
      OBVIOUS
    <2>3. Payload \cup {Ping} \subseteq Frame
      BY DEF Frame
    <2>. QED
      BY <2>1, <2>2, <2>3, EmptySeq
  <1>4. Payloads(wire[e]) \in Seq(Payload) /\ Payloads(writing[e]) \in Seq(Payload)
    BY <1>1, <1>3, PayloadsType
  <1>5. <<>> \in Seq(Payload)
    BY EmptySeq
  <1>6. Arrived(Peer(e)) \in Seq(Payload)
    BY <1>1, <1>2, ConcatProperties DEF Arrived
  <1>7. Unread(e) \in Seq(Payload)
    BY <1>4, <1>5 DEF Unread
  <1>8. Unsent(e) \in Seq(Payload)
    BY <1>1, <1>4, <1>5, ConcatProperties DEF Unsent
  <1>. QED
    BY <1>1, <1>2, <1>4, <1>6, <1>7, <1>8

LEMMA UnderwayIs ==
    ASSUME NEW e \in End
    PROVE  /\ Underway(e) = IF ~held[Peer(e)] THEN <<>>
                            ELSE (Arrived(Peer(e)) \o Unread(e)) \o Unsent(e)
           /\ Underway(e)' = IF ~held'[Peer(e)] THEN <<>>
                             ELSE (Arrived(Peer(e))' \o Unread(e)') \o Unsent(e)'
  <1>1. Underway(e) = IF ~held[Peer(e)] THEN <<>>
                      ELSE (Arrived(Peer(e)) \o Unread(e)) \o Unsent(e)
    BY DEF Underway, Arrived, Unread, Unsent
  <1>2. Underway(e)' = IF ~held'[Peer(e)] THEN <<>>
                       ELSE (Arrived(Peer(e))' \o Unread(e)') \o Unsent(e)'
    BY DEF Underway, Arrived, Unread, Unsent
  <1>. QED
    BY <1>1, <1>2

LEMMA UnderwayType ==
    ASSUME TypeOK, NEW e \in End
    PROVE  Underway(e) \in Seq(Payload)
  <1>1. <<>> \in Seq(Payload)
    BY EmptySeq
  <1>2. (Arrived(Peer(e)) \o Unread(e)) \o Unsent(e) \in Seq(Payload)
    BY Pieces, Associative
  <1>. QED
    BY <1>1, <1>2, UnderwayIs

\* What a step of the connection does to one direction

\* The direction is as before.
LEMMA DirectionSame ==
    ASSUME NEW e \in End, net' = net,
           held'[Peer(e)] = held[Peer(e)],
           inn'[Peer(e)] = inn[Peer(e)], delivering'[Peer(e)] = delivering[Peer(e)],
           reader'[Peer(e)] = "ended" <=> reader[Peer(e)] = "ended",
           writer'[e] = "ended" <=> writer[e] = "ended",
           stage'[e] = "failed" <=> stage[e] = "failed",
           stage'[Peer(e)] = "failed" <=> stage[Peer(e)] = "failed",
           wire'[e] = wire[e], writing'[e] = writing[e], out'[e] = out[e]
    PROVE  Settles(e)
  <1>1. Intact(e)' <=> Intact(e)
    BY DEF Intact
  <1>2. /\ Arrived(Peer(e))' = Arrived(Peer(e))
        /\ Unread(e)' = Unread(e) /\ Unsent(e)' = Unsent(e)
    BY <1>1 DEF Arrived, Unread, Unsent
  <1>. QED
    BY <1>1, <1>2, UnderwayIs DEF Settles

\* What is left of a queue of frames has a beginning of its payloads.
LEMMA RemainingPayloads ==
    ASSUME NEW q \in Seq(Frame), NEW r \in Remains(q)
    PROVE  Payloads(r) \in Seq(Payload) /\ Beginning(Payloads(r), Payloads(q))
  <1>1. PICK k \in 0 .. Len(q) : r = SubSeq(q, 1, k)
    BY DEF Remains
  <1>. DEFINE s == SubSeq(q, k + 1, Len(q))
  <1>2. r \in Seq(Frame)
    BY RemainsFacts
  <1>3. s \in Seq(Frame)
    BY <1>1, LenProperties, SubSeqProperties
  <1>4. q = r \o s
    <2>1. Len(q) \in Nat /\ 1 \in 1 .. Len(q) + 1 /\ k \in 1 - 1 .. Len(q) /\ Len(q) \in k .. Len(q)
      BY <1>1, LenProperties
    <2>2. SubSeq(q, 1, k) \o SubSeq(q, k + 1, Len(q)) = SubSeq(q, 1, Len(q))
      BY <2>1, ConcatAdjacentSubSeq
    <2>. QED
      BY <1>1, <2>2, SubSeqFull
  <1>5. Payloads(q) = Payloads(r) \o Payloads(s)
    <2>. HIDE DEF s
    <2>. QED
      BY <1>2, <1>3, <1>4, PayloadsConcat
  <1>6. Payloads(r) \in Seq(Payload) /\ Payloads(s) \in Seq(Payload)
    BY <1>2, <1>3, PayloadsType
  <1>. QED
    BY <1>5, <1>6 DEF Beginning

\* The direction fails: what was to be written is lost, and some of what was
\* on the way, or all of it when the program lets go of its end.
LEMMA DirectionFails ==
    ASSUME TypeOK, NEW e \in End, ~Intact(e)',
           held'[Peer(e)] =>
              /\ held[Peer(e)]
              /\ inn'[Peer(e)] = inn[Peer(e)] /\ delivering'[Peer(e)] = delivering[Peer(e)]
              /\ reader'[Peer(e)] = "ended" <=> reader[Peer(e)] = "ended"
              /\ wire'[e] = wire[e] \/ wire'[e] \in Remains(wire[e])
    PROVE  Settles(e)
  <1>. USE PeerFacts
  <1>1. Underway(e) \in Seq(Payload)
    BY UnderwayType
  <1>2. CASE ~held'[Peer(e)]
    <2>1. Underway(e)' = <<>>
      BY <1>2, UnderwayIs
    <2>2. Underway(e) = <<>> \o Underway(e)
      BY <1>1, Empties
    <2>. QED
      BY <1>1, <2>1, <2>2 DEF Settles, Beginning
  <1>3. CASE held'[Peer(e)]
    <2>1. Arrived(Peer(e))' = Arrived(Peer(e)) /\ Unsent(e)' = <<>>
      BY <1>3 DEF Arrived, Unsent
    <2>2. PICK s \in Seq(Payload) : Unread(e) = Unread(e)' \o s /\ Unread(e)' \in Seq(Payload)
      <3>1. wire[e] \in Seq(Frame) /\ <<>> \in Seq(Payload)
        BY EmptySeq DEF TypeOK
      <3>2. CASE reader[Peer(e)] = "ended"
        <4>1. Unread(e) = <<>> /\ Unread(e)' = <<>>
          BY <1>3, <3>2 DEF Unread
        <4>. QED
          BY <3>1, <4>1, Empties
      <3>3. CASE reader[Peer(e)] # "ended" /\ wire'[e] = wire[e]
        <4>1. Unread(e)' = Unread(e)
          BY <1>3, <3>3 DEF Unread
        <4>. QED
          BY <3>1, <4>1, Empties, Pieces
      <3>4. CASE reader[Peer(e)] # "ended" /\ wire'[e] \in Remains(wire[e])
        <4>1. Unread(e) = Payloads(wire[e]) /\ Unread(e)' = Payloads(wire'[e])
          BY <1>3, <3>4 DEF Unread
        <4>2. Payloads(wire'[e]) \in Seq(Payload) /\ Beginning(Payloads(wire'[e]), Payloads(wire[e]))
          BY <3>1, <3>4, RemainingPayloads
        <4>. QED
          BY <4>1, <4>2 DEF Beginning
      <3>. QED
        BY <1>3, <3>2, <3>3, <3>4
    <2>. DEFINE a == Arrived(Peer(e))
                u == Unread(e)'
                x == Unsent(e)
    <2>3. /\ a \in Seq(Payload) /\ x \in Seq(Payload) /\ u \in Seq(Payload)
          /\ s \in Seq(Payload)
      BY <2>2, Pieces
    <2>4. Underway(e) = (a \o (u \o s)) \o x
      BY <1>3, <2>2, UnderwayIs
    <2>5. Underway(e)' = (a \o u) \o <<>>
      BY <1>3, <2>1, UnderwayIs
    <2>. HIDE DEF a, u, x
    <2>6. (a \o (u \o s)) \o x = (a \o u) \o (s \o x)
      <3>1. a \o u \in Seq(Payload) /\ s \o x \in Seq(Payload)
        BY <2>2, <2>3, Associative
      <3>2. a \o (u \o s) = (a \o u) \o s
        BY <2>3, ConcatAssociative, SMTT(30)
      <3>3. ((a \o u) \o s) \o x = (a \o u) \o (s \o x)
        BY <2>3, <3>1, ConcatAssociative, SMTT(30)
      <3>. QED
        BY <3>2, <3>3
    <2>7. (a \o u) \o <<>> = a \o u /\ s \o x \in Seq(Payload)
      BY <2>2, <2>3, Associative, Empties
    <2>. QED
      BY <2>4, <2>5, <2>6, <2>7 DEF Settles, Beginning
  <1>. QED
    BY <1>2, <1>3

\* The direction fails because its reader ends.
LEMMA DirectionDeaf ==
    ASSUME TypeOK, NEW e \in End,
           held'[Peer(e)] = held[Peer(e)], inn'[Peer(e)] = inn[Peer(e)],
           reader'[Peer(e)] = "ended", delivering'[Peer(e)] = <<>>
    PROVE  Settles(e)
  <1>. USE PeerFacts
  <1>1. ~Intact(e)'
    BY DEF Intact
  <1>2. Underway(e) \in Seq(Payload)
    BY UnderwayType
  <1>3. CASE ~held[Peer(e)]
    <2>1. Underway(e)' = <<>>
      BY <1>3, UnderwayIs
    <2>2. Underway(e) = <<>> \o Underway(e)
      BY <1>2, Empties
    <2>. QED
      BY <1>1, <1>2, <2>1, <2>2 DEF Settles, Beginning
  <1>4. CASE held[Peer(e)]
    <2>. DEFINE i == inn[Peer(e)]
                d == delivering[Peer(e)]
                u == Unread(e)
                x == Unsent(e)
    <2>1. i \in Seq(Payload) /\ d \in Seq(Payload) /\ u \in Seq(Payload) /\ x \in Seq(Payload)
      BY Pieces
    <2>2. Arrived(Peer(e))' = i \o <<>> /\ Unread(e)' = <<>> /\ Unsent(e)' = <<>>
      BY <1>1 DEF Arrived, Unread, Unsent
    <2>3. Underway(e)' = ((i \o <<>>) \o <<>>) \o <<>>
      BY <1>4, <2>2, UnderwayIs
    <2>4. Underway(e) = ((i \o d) \o u) \o x
      BY <1>4, UnderwayIs DEF Arrived
    <2>. HIDE DEF i, d, u, x
    <2>5. Underway(e)' = i
      BY <2>1, <2>3, Empties
    <2>6. ((i \o d) \o u) \o x = i \o (d \o (u \o x)) /\ d \o (u \o x) \in Seq(Payload)
      <3>1. i \o d \in Seq(Payload) /\ u \o x \in Seq(Payload)
        BY <2>1, Associative
      <3>2. ((i \o d) \o u) \o x = (i \o d) \o (u \o x)
        BY <2>1, <3>1, ConcatAssociative
      <3>3. (i \o d) \o (u \o x) = i \o (d \o (u \o x)) /\ d \o (u \o x) \in Seq(Payload)
        BY <2>1, <3>1, Associative, SMTT(30)
      <3>. QED
        BY <3>2, <3>3
    <2>. QED
      BY <1>1, <2>4, <2>5, <2>6 DEF Settles, Beginning
  <1>. QED
    BY <1>3, <1>4

\* When both directions settle, the step is a failure of some directions or
\* none.
LEMMA SettledIsAStep ==
    ASSUME WellTyped', \A e \in End : Settles(e)
    PROVE  Promise!Next
  <1>. DEFINE D == {e \in End : ~Intact(e)' /\ Beginning(Underway(e)', Underway(e))}
  <1>1. \A e \in End \ D : (Intact(e)' <=> Intact(e)) /\ Underway(e)' = Underway(e)
    BY DEF Settles
  <1>2. \A e \in D : ~Intact(e)'
    OBVIOUS
  <1>3. \A e \in D : \E k \in 0 .. Len(Underway(e)) : Underway(e)' = SubSeq(Underway(e), 1, k)
    BY PrefixFacts DEF WellTyped
  <1>4. D \in SUBSET End
    OBVIOUS
  <1>. HIDE DEF D
  <1>5. \A e \in End : (~Intact(e)') = (~Intact(e) \/ e \in D)
    BY <1>1, <1>2, Zenon
  <1>6. Promise!Fail(D)
    <2>1. [e \in End |-> ~Intact(e)]' = [e \in End |-> [d \in End |-> ~Intact(d)][e] \/ e \in D]
      BY <1>5, Zenon
    <2>2. DOMAIN [e \in End |-> Underway(e)]' = End
      OBVIOUS
    <2>3. \A e \in D : [d \in End |-> Underway(d)][e] = Underway(e)
                       /\ [d \in End |-> Underway(d)]'[e] = Underway(e)'
      BY <1>4
    <2>4. \A e \in End \ D : [d \in End |-> Underway(d)]'[e] = [d \in End |-> Underway(d)][e]
      BY <1>1
    <2>. QED
      BY <1>3, <2>1, <2>2, <2>3, <2>4 DEF Promise!Fail
  <1>. QED
    BY <1>4, <1>6 DEF Promise!Next

-----------------------------------------------------------------------------
(* Steps of the connection *)

LEMMA IntactKept ==
    ASSUME NEW e \in End, net' = net, held'[Peer(e)] = held[Peer(e)],
           reader'[Peer(e)] = "ended" <=> reader[Peer(e)] = "ended",
           writer'[e] = "ended" <=> writer[e] = "ended",
           stage'[e] = "failed" <=> stage[e] = "failed",
           stage'[Peer(e)] = "failed" <=> stage[Peer(e)] = "failed"
    PROVE  Intact(e)' <=> Intact(e)
BY DEF Intact

\* Something moves on within the direction.
LEMMA DirectionKept ==
    ASSUME NEW e \in End, Intact(e)' <=> Intact(e), held'[Peer(e)] = held[Peer(e)],
           Arrived(Peer(e))' \o Unread(e)' = Arrived(Peer(e)) \o Unread(e),
           Unsent(e)' = Unsent(e)
    PROVE  Settles(e)
BY UnderwayIs DEF Settles

\* The direction fails, and keeps all that was on the way.
LEMMA DirectionCut ==
    ASSUME TypeOK, NEW e \in End, ~Intact(e)', held'[Peer(e)] = held[Peer(e)],
           Arrived(Peer(e))' = Arrived(Peer(e)), Unread(e)' = Unread(e)
    PROVE  Settles(e)
  <1>1. Unsent(e)' = <<>>
    BY DEF Unsent
  <1>2. Underway(e) \in Seq(Payload) /\ Unsent(e) \in Seq(Payload)
        /\ Arrived(Peer(e)) \o Unread(e) \in Seq(Payload)
    BY UnderwayType, Pieces, ConcatProperties
  <1>3. CASE ~held[Peer(e)]
    BY <1>2, <1>3, UnderwayIs, Empties DEF Settles, Beginning
  <1>4. CASE held[Peer(e)]
    <2>1. Underway(e)' = (Arrived(Peer(e)) \o Unread(e)) \o <<>>
      BY <1>1, <1>4, UnderwayIs
    <2>2. Underway(e)' = Arrived(Peer(e)) \o Unread(e)
      BY <1>2, <2>1, Empties
    <2>3. Underway(e) = Underway(e)' \o Unsent(e)
      BY <1>4, <2>2, UnderwayIs
    <2>. QED
      BY <1>2, <2>3 DEF Settles, Beginning
  <1>. QED
    BY <1>3, <1>4

LEMMA HandshakeSettles ==
    ASSUME TypeOK, HelloFirst, TasksFitStage, HelloNext, NEW e \in End, Handshake(e)
    PROVE  \A d \in End : Settles(d)
  <1>. USE PeerFacts
  <1>1. Settles(e) /\ Settles(Peer(e)) => \A d \in End : Settles(d)
    OBVIOUS
  <1>2. CASE Greet(e)
    <2>0. stage[e] = "connecting" /\ wire[e] = <<>>
      BY <1>2 DEF Greet, HelloFirst
    <2>1. /\ wire' = [wire EXCEPT ![e] = <<Hello>>]
          /\ stage' = [stage EXCEPT ![e] = "greeted"]
          /\ UNCHANGED <<net, held, writer, reader, out, writing, delivering, inn>>
      BY <1>2, <2>0 DEF Greet
    <2>2. /\ wire'[e] = <<Hello>> /\ wire'[Peer(e)] = wire[Peer(e)]
          /\ stage'[e] = "greeted" /\ stage'[Peer(e)] = stage[Peer(e)]
      BY <2>0, <2>1 DEF TypeOK
    <2>3. Settles(Peer(e))
      BY <2>0, <2>1, <2>2, DirectionSame
    <2>4. Payloads(wire'[e]) = Payloads(wire[e])
      BY <2>0, <2>1, <2>2, PayloadsOfOne, PayloadFacts DEF Frame
    <2>5. Intact(e)' <=> Intact(e)
      BY <2>0, <2>1, <2>2, IntactKept
    <2>6. Arrived(Peer(e))' = Arrived(Peer(e)) /\ Unread(e)' = Unread(e) /\ Unsent(e)' = Unsent(e)
      BY <2>0, <2>1, <2>4, <2>5 DEF Arrived, Unread, Unsent
    <2>7. Settles(e)
      BY <2>0, <2>1, <2>5, <2>6, DirectionKept
    <2>. QED
      BY <1>1, <2>3, <2>7
  <1>3. CASE Greeted(e)
    <2>1. /\ stage[e] = "greeted" /\ writer[e] = "none" /\ reader[e] = "none"
          /\ wire[Peer(e)] # <<>>
          /\ wire' = [wire EXCEPT ![Peer(e)] = Tail(@)]
          /\ UNCHANGED <<net, held, out, writing, delivering, inn>>
      BY <1>3 DEF Greeted, TasksFitStage
    <2>2. wire'[Peer(e)] = Tail(wire[Peer(e)]) /\ wire'[e] = wire[e]
      BY <2>1 DEF TypeOK
    <2>3. Payloads(wire'[Peer(e)]) = Payloads(wire[Peer(e)])
      <3>. DEFINE q == wire[Peer(e)]
      <3>1. q \in Seq(Frame) /\ q # <<>> /\ q[1] = Hello
        BY <2>1 DEF TypeOK, HelloNext, Handshaking
      <3>2. wire'[Peer(e)] = Tail(q)
        BY <2>2
      <3>. HIDE DEF q
      <3>3. /\ Tail(q) \in Seq(Frame) /\ <<Hello>> \in Seq(Frame)
            /\ q = <<Hello>> \o Tail(q)
        BY <3>1
      <3>4. Payloads(q) = Payloads(<<Hello>>) \o Payloads(Tail(q))
        BY <3>3, PayloadsConcat
      <3>5. Payloads(<<Hello>>) = <<>>
        BY PayloadsOfOne, PayloadFacts DEF Frame
      <3>6. Payloads(Tail(q)) \in Seq(Payload)
        BY <3>3, PayloadsType
      <3>7. Payloads(q) = Payloads(Tail(q))
        BY <3>4, <3>5, <3>6, Empties
      <3>. QED
        BY <3>2, <3>7 DEF q
    <2>4. CASE compatible
      <3>1. /\ stage' = [stage EXCEPT ![e] = "streaming"]
            /\ writer' = [writer EXCEPT ![e] = "running"]
            /\ reader' = [reader EXCEPT ![e] = "running"]
        BY <1>3, <2>4 DEF Greeted
      <3>2. /\ stage'[e] = "streaming" /\ writer'[e] = "running" /\ reader'[e] = "running"
            /\ stage'[Peer(e)] = stage[Peer(e)]
            /\ writer'[Peer(e)] = writer[Peer(e)] /\ reader'[Peer(e)] = reader[Peer(e)]
        BY <3>1 DEF TypeOK
      <3>3. Settles(e)
        BY <2>1, <2>2, <3>2, DirectionSame
      <3>4. Intact(Peer(e))' <=> Intact(Peer(e))
        BY <2>1, <3>2, IntactKept
      <3>5. /\ Arrived(e)' = Arrived(e) /\ Unread(Peer(e))' = Unread(Peer(e))
            /\ Unsent(Peer(e))' = Unsent(Peer(e))
        BY <2>1, <2>3, <3>2, <3>4 DEF Arrived, Unread, Unsent
      <3>6. Settles(Peer(e))
        BY <2>1, <3>4, <3>5, DirectionKept
      <3>. QED
        BY <1>1, <3>3, <3>6
    <2>5. CASE ~compatible
      <3>1. stage' = [stage EXCEPT ![e] = "failed"] /\ UNCHANGED <<writer, reader>>
        BY <1>3, <2>5 DEF Greeted
      <3>2. stage'[e] = "failed"
        BY <3>1 DEF TypeOK
      <3>3. ~Intact(e)' /\ ~Intact(Peer(e))'
        BY <3>2 DEF Intact
      <3>4. Settles(e)
        BY <2>1, <2>2, <3>1, <3>3, DirectionFails
      <3>5. Arrived(e)' = Arrived(e) /\ Unread(Peer(e))' = Unread(Peer(e))
        BY <2>1, <2>3, <3>1 DEF Arrived, Unread
      <3>6. Settles(Peer(e))
        BY <2>1, <3>1, <3>3, <3>5, DirectionCut
      <3>. QED
        BY <1>1, <3>4, <3>6
    <2>. QED
      BY <2>4, <2>5
  <1>4. CASE HandshakeFails(e)
    <2>1. /\ stage' = [stage EXCEPT ![e] = "failed"]
          /\ UNCHANGED <<net, held, writer, reader, out, writing, wire, delivering, inn>>
      BY <1>4 DEF HandshakeFails, channels
    <2>2. stage'[e] = "failed"
      BY <2>1 DEF TypeOK
    <2>3. ~Intact(e)' /\ ~Intact(Peer(e))'
      BY <2>2 DEF Intact
    <2>. QED
      BY <1>1, <2>1, <2>3, DirectionFails
  <1>. QED
    BY <1>2, <1>3, <1>4 DEF Handshake

\* The writer of e ends; nothing else happens to its direction.
LEMMA WriterEndsSettles ==
    ASSUME TypeOK, NEW e \in End, WriterEnds(e),
           UNCHANGED <<net, held, reader, wire, delivering, inn>>,
           \A d \in End : stage'[d] = "failed" <=> stage[d] = "failed"
    PROVE  \A d \in End : Settles(d)
  <1>. USE PeerFacts
  <1>1. /\ writer'[e] = "ended" /\ writer'[Peer(e)] = writer[Peer(e)]
        /\ writing'[Peer(e)] = writing[Peer(e)] /\ out'[Peer(e)] = out[Peer(e)]
    BY DEF WriterEnds, TypeOK
  <1>2. ~Intact(e)'
    BY <1>1 DEF Intact
  <1>3. Settles(e)
    BY <1>2, DirectionFails
  <1>4. Settles(Peer(e))
    BY <1>1, DirectionSame
  <1>. QED
    BY <1>3, <1>4

\* The reader of e ends, and with it the direction towards e.
LEMMA ReaderEndsSettles ==
    ASSUME TypeOK, NEW e \in End, ReaderEnds(e),
           UNCHANGED <<net, held, writer, out, writing, wire, inn>>,
           \A d \in End : stage'[d] = "failed" <=> stage[d] = "failed"
    PROVE  \A d \in End : Settles(d)
  <1>. USE PeerFacts
  <1>1. /\ reader'[e] = "ended" /\ reader'[Peer(e)] = reader[Peer(e)]
        /\ delivering'[e] = <<>> /\ delivering'[Peer(e)] = delivering[Peer(e)]
    BY DEF ReaderEnds, TypeOK
  <1>2. Settles(e)
    BY <1>1, DirectionSame
  <1>3. Settles(Peer(e))
    BY <1>1, DirectionDeaf
  <1>. QED
    BY <1>2, <1>3

LEMMA WriterSettles ==
    ASSUME TypeOK, HelloFirst, TasksFitStage, NEW e \in End, Writer(e) \/ WriteIntoVoid(e)
    PROVE  \A d \in End : Settles(d)
  <1>. USE PeerFacts
  <1>1. Settles(e) /\ Settles(Peer(e)) => \A d \in End : Settles(d)
    OBVIOUS
  <1>2. CASE EncodeFails(e) \/ ChannelClosed(e) \/ WriteFails(e)
    BY <1>2, WriterEndsSettles DEF EncodeFails, ChannelClosed, WriteFails
  <1>3. CASE TakeMessage(e)
    <2>1. /\ writing[e] = <<>> /\ out[e] # <<>>
          /\ writing' = [writing EXCEPT ![e] = <<Head(out[e])>>]
          /\ out' = [out EXCEPT ![e] = Tail(@)]
          /\ UNCHANGED <<net, stage, writer, reader, held, wire, delivering, inn>>
      BY <1>3 DEF TakeMessage, Idle, workers
    <2>2. /\ writing'[e] = <<Head(out[e])>> /\ writing'[Peer(e)] = writing[Peer(e)]
          /\ out'[e] = Tail(out[e]) /\ out'[Peer(e)] = out[Peer(e)]
      BY <2>1 DEF TypeOK
    <2>3. Settles(Peer(e))
      BY <2>1, <2>2, DirectionSame
    <2>4. Payloads(writing'[e]) \o out'[e] = Payloads(writing[e]) \o out[e]
      <3>. DEFINE q == out[e]
      <3>1. q \in Seq(Payload) /\ q # <<>>
        BY <2>1 DEF TypeOK
      <3>2. Payloads(writing[e]) = <<>>
        BY <2>1, PayloadsOfOne
      <3>3. writing'[e] = <<Head(q)>> /\ out'[e] = Tail(q)
        BY <2>2
      <3>. HIDE DEF q
      <3>4. Head(q) \in Payload /\ Tail(q) \in Seq(Payload) /\ q = <<Head(q)>> \o Tail(q)
        BY <3>1
      <3>5. Payloads(<<Head(q)>>) = <<Head(q)>>
        BY <3>4, PayloadsOfOne DEF Frame
      <3>6. <<>> \o q = q
        BY <3>1, Empties
      <3>7. Payloads(writing[e]) \o q = q
        BY <3>2, <3>6
      <3>8. Payloads(writing'[e]) \o out'[e] = q
        BY <3>3, <3>4, <3>5
      <3>. QED
        BY <3>7, <3>8 DEF q
    <2>5. Intact(e)' <=> Intact(e)
      BY <2>1, IntactKept
    <2>6. Arrived(Peer(e))' = Arrived(Peer(e)) /\ Unread(e)' = Unread(e) /\ Unsent(e)' = Unsent(e)
      BY <2>1, <2>4, <2>5 DEF Arrived, Unread, Unsent
    <2>7. Settles(e)
      BY <2>1, <2>5, <2>6, DirectionKept
    <2>. QED
      BY <1>1, <2>3, <2>7
  <1>4. CASE TakePing(e)
    <2>1. /\ writing[e] = <<>>
          /\ writing' = [writing EXCEPT ![e] = <<Ping>>]
          /\ UNCHANGED <<net, stage, writer, reader, held, out, wire, delivering, inn>>
      BY <1>4 DEF TakePing, Idle, workers
    <2>2. writing'[e] = <<Ping>> /\ writing'[Peer(e)] = writing[Peer(e)]
      BY <2>1 DEF TypeOK
    <2>3. Settles(Peer(e))
      BY <2>1, <2>2, DirectionSame
    <2>4. Payloads(writing'[e]) = Payloads(writing[e])
      BY <2>1, <2>2, PayloadsOfOne, PayloadFacts DEF Frame
    <2>5. Intact(e)' <=> Intact(e)
      BY <2>1, IntactKept
    <2>6. Arrived(Peer(e))' = Arrived(Peer(e)) /\ Unread(e)' = Unread(e) /\ Unsent(e)' = Unsent(e)
      BY <2>1, <2>4, <2>5 DEF Arrived, Unread, Unsent
    <2>7. Settles(e)
      BY <2>1, <2>5, <2>6, DirectionKept
    <2>. QED
      BY <1>1, <2>3, <2>7
  <1>5. CASE Write(e)
    <2>1. /\ writing[e] # <<>> /\ net = "ok" /\ ~Closed(Peer(e))
          /\ wire' = [wire EXCEPT ![e] = Append(@, Head(writing[e]))]
          /\ writing' = [writing EXCEPT ![e] = <<>>]
          /\ UNCHANGED <<net, stage, writer, reader, held, out, delivering, inn>>
      BY <1>5 DEF Write, RoomOnWire, workers
    <2>2. /\ wire'[e] = Append(wire[e], Head(writing[e])) /\ wire'[Peer(e)] = wire[Peer(e)]
          /\ writing'[e] = <<>> /\ writing'[Peer(e)] = writing[Peer(e)]
      BY <2>1 DEF TypeOK
    <2>3. Settles(Peer(e))
      BY <2>1, <2>2, DirectionSame
    <2>4. Intact(e)' <=> Intact(e)
      BY <2>1, IntactKept
    <2>5. writer[e] # "ended" /\ "failed" \notin {stage[e], stage[Peer(e)]}
      BY <2>1 DEF TasksFitStage, Closed
    <2>6. CASE ~held[Peer(e)] \/ reader[Peer(e)] = "ended"
      <3>1. ~Intact(e) /\ Unsent(e) = <<>> /\ Unsent(e)' = <<>>
        BY <2>4, <2>6 DEF Intact, Unsent
      <3>2. held[Peer(e)] => Unread(e)' = Unread(e) /\ Arrived(Peer(e))' = Arrived(Peer(e))
        BY <2>1, <2>6 DEF Unread, Arrived
      <3>3. Underway(e)' = Underway(e)
        <4>1. held' = held
          BY <2>1
        <4>2. CASE ~held[Peer(e)]
          BY <4>1, <4>2, UnderwayIs, Zenon
        <4>3. CASE held[Peer(e)]
          <5>1. /\ Underway(e) = (Arrived(Peer(e)) \o Unread(e)) \o Unsent(e)
                /\ Underway(e)' = (Arrived(Peer(e))' \o Unread(e)') \o Unsent(e)'
            BY <4>1, <4>3, UnderwayIs, Zenon
          <5>2. /\ Unread(e)' = Unread(e) /\ Arrived(Peer(e))' = Arrived(Peer(e))
                /\ Unsent(e)' = Unsent(e)
            BY <3>1, <3>2, <4>3, Zenon
          <5>. QED
            BY <5>1, <5>2, Zenon
        <4>. QED
          BY <4>2, <4>3
      <3>. QED
        BY <1>1, <2>3, <2>4, <3>3 DEF Settles
    <2>7. CASE held[Peer(e)] /\ reader[Peer(e)] # "ended"
      <3>. DEFINE w == Payloads(wire[e])
                  m == Payloads(writing[e])
                  a == Arrived(Peer(e))
                  o == out[e]
      <3>1. Intact(e)
        BY <2>1, <2>5, <2>7 DEF Intact
      <3>2. Payloads(wire'[e]) = w \o m
        <4>1. wire[e] \in Seq(Frame) /\ writing[e] \in Seq(Frame)
              /\ Append(wire[e], Head(writing[e])) = wire[e] \o writing[e]
          <5>1. PICK x \in Frame : writing[e] = <<x>>
            BY <2>1 DEF TypeOK, Frame
          <5>2. wire[e] \in Seq(Frame) /\ Head(writing[e]) = x /\ <<x>> \in Seq(Frame)
            BY <5>1 DEF TypeOK
          <5>3. Append(wire[e], x) = wire[e] \o <<x>>
            BY <5>2, AppendIsConcat
          <5>. QED
            BY <5>1, <5>2, <5>3
        <4>2. Payloads(wire[e] \o writing[e]) = Payloads(wire[e]) \o Payloads(writing[e])
          BY <4>1, PayloadsConcat
        <4>. QED
          BY <2>2, <4>1, <4>2
      <3>3. /\ w \in Seq(Payload) /\ m \in Seq(Payload) /\ a \in Seq(Payload) /\ o \in Seq(Payload)
        BY Pieces
      <3>4. /\ Unread(e) = w /\ Unsent(e) = m \o o
            /\ Unread(e)' = w \o m /\ Unsent(e)' = Payloads(<<>>) \o o
            /\ Arrived(Peer(e))' = a
        BY <2>1, <2>2, <2>4, <2>7, <3>1, <3>2 DEF Unread, Unsent, Arrived
      <3>5. Payloads(<<>>) = <<>>
        BY PayloadsOfOne
      <3>6. Underway(e) = (a \o w) \o (m \o o)
        BY <2>7, <3>4, UnderwayIs
      <3>7. Underway(e)' = (a \o (w \o m)) \o (<<>> \o o)
        <4>1. Underway(e)' = (Arrived(Peer(e))' \o Unread(e)') \o Unsent(e)'
          BY <2>1, <2>7, UnderwayIs
        <4>. QED
          BY <3>4, <3>5, <4>1
      <3>. HIDE DEF w, m, a, o
      <3>8. <<>> \o o = o
        BY <3>3, Empties
      <3>9. a \o (w \o m) = (a \o w) \o m /\ a \o w \in Seq(Payload)
        <4>1. a \o w \in Seq(Payload)
          BY <3>3, ConcatProperties
        <4>2. (a \o w) \o m = a \o (w \o m)
          BY <3>3, ConcatAssociative
        <4>. QED
          BY <4>1, <4>2
      <3>10. ((a \o w) \o m) \o o = (a \o w) \o (m \o o)
        BY <3>3, <3>9, ConcatAssociative, SMTT(30)
      <3>11. Underway(e)' = Underway(e)
        BY <3>6, <3>7, <3>8, <3>9, <3>10
      <3>. QED
        BY <1>1, <2>3, <2>4, <3>11 DEF Settles
    <2>. QED
      BY <2>6, <2>7
  <1>6. CASE WriteIntoVoid(e)
    <2>1. CASE WriterEnds(e)
      BY <1>6, <2>1, WriterEndsSettles DEF WriteIntoVoid
    <2>2. CASE writing' = [writing EXCEPT ![e] = <<>>] /\ UNCHANGED <<writer, out>>
      <3>1. /\ net = "cut" /\ writing'[Peer(e)] = writing[Peer(e)]
            /\ UNCHANGED <<net, stage, held, reader, wire, delivering, inn>>
        BY <1>6, <2>2 DEF WriteIntoVoid, TypeOK
      <3>2. ~Intact(e) /\ ~Intact(e)'
        BY <3>1 DEF Intact
      <3>3. Settles(e)
        BY <3>1, <3>2, DirectionFails
      <3>4. Settles(Peer(e))
        BY <2>2, <3>1, DirectionSame
      <3>. QED
        BY <1>1, <3>3, <3>4
    <2>. QED
      BY <1>6, <2>1, <2>2 DEF WriteIntoVoid
  <1>. QED
    BY <1>2, <1>3, <1>4, <1>5, <1>6 DEF Writer

LEMMA ReaderSettles ==
    ASSUME TypeOK, HelloFirst, TasksFitStage, NEW e \in End, Reader(e)
    PROVE  \A d \in End : Settles(d)
  <1>. USE PeerFacts
  <1>1. Settles(e) /\ Settles(Peer(e)) => \A d \in End : Settles(d)
    OBVIOUS
  <1>2. CASE ReadFails(e) \/ DeliverFails(e)
    BY <1>2, ReaderEndsSettles DEF ReadFails, DeliverFails
  <1>3. CASE Read(e)
    <2>. DEFINE q == wire[Peer(e)]
                i == inn[e]
    <2>1. /\ reader[e] = "running" /\ delivering[e] = <<>> /\ q # <<>>
          /\ wire' = [wire EXCEPT ![Peer(e)] = Tail(@)]
          /\ delivering' = [delivering EXCEPT ![e] = IF Head(q) = Ping THEN <<>> ELSE <<Head(q)>>]
          /\ UNCHANGED <<net, stage, writer, reader, held, out, writing, inn>>
      BY <1>3 DEF Read, Awaiting, workers
    <2>2. /\ wire'[Peer(e)] = Tail(q) /\ wire'[e] = wire[e]
          /\ delivering'[e] = IF Head(q) = Ping THEN <<>> ELSE <<Head(q)>>
          /\ delivering'[Peer(e)] = delivering[Peer(e)]
      BY <2>1 DEF TypeOK
    <2>3. Settles(e)
      BY <2>1, <2>2, DirectionSame
    <2>4. Intact(Peer(e))' <=> Intact(Peer(e))
      BY <2>1, IntactKept
    <2>5. q \in Seq(Frame) /\ i \in Seq(Payload)
      BY DEF TypeOK
    <2>6. Head(q) \in Payload \cup {Ping}
      <3>1. q[1] # Hello
        <4>1. 1 \in 1 .. Len(q)
          BY <2>1, <2>5
        <4>. QED
          BY <2>1, <4>1 DEF HelloFirst
      <3>2. Head(q) = q[1] /\ Head(q) \in Frame
        BY <2>1, <2>5
      <3>. QED
        BY <3>1, <3>2 DEF Frame
    <2>7. Payloads(<<Head(q)>>) = delivering'[e]
      BY <2>2, <2>6, PayloadsOfOne, PayloadFacts DEF Frame
    <2>8. /\ Arrived(e) = i \o <<>> /\ Unread(Peer(e)) = Payloads(q)
          /\ Arrived(e)' = i \o Payloads(<<Head(q)>>) /\ Unread(Peer(e))' = Payloads(Tail(q))
      BY <2>1, <2>2, <2>7 DEF Arrived, Unread
    <2>9. Unsent(Peer(e))' = Unsent(Peer(e))
      BY <2>1, <2>4 DEF Unsent
    <2>10. Arrived(e)' \o Unread(Peer(e))' = Arrived(e) \o Unread(Peer(e))
      <3>. HIDE DEF q, i
      <3>1. Tail(q) \in Seq(Frame) /\ <<Head(q)>> \in Seq(Frame) /\ q = <<Head(q)>> \o Tail(q)
        BY <2>1, <2>5
      <3>. DEFINE m == Payloads(<<Head(q)>>)
                  t == Payloads(Tail(q))
      <3>2. m \in Seq(Payload) /\ t \in Seq(Payload)
        BY <3>1, PayloadsType
      <3>3. Payloads(q) = m \o t
        BY <3>1, PayloadsConcat
      <3>. HIDE DEF m, t
      <3>4. i \o <<>> = i
        BY <2>5, Empties
      <3>5. (i \o m) \o t = i \o (m \o t)
        BY <2>5, <3>2, ConcatAssociative
      <3>. QED
        BY <2>8, <3>3, <3>4, <3>5 DEF m, t
    <2>11. Settles(Peer(e))
      BY <2>1, <2>4, <2>9, <2>10, DirectionKept
    <2>. QED
      BY <1>1, <2>3, <2>11
  <1>4. CASE Deliver(e)
    <2>1. /\ delivering[e] # <<>>
          /\ inn' = [inn EXCEPT ![e] = Append(@, Head(delivering[e]))]
          /\ delivering' = [delivering EXCEPT ![e] = <<>>]
          /\ UNCHANGED <<net, stage, writer, reader, held, out, writing, wire>>
      BY <1>4 DEF Deliver, workers
    <2>2. /\ inn'[e] = Append(inn[e], Head(delivering[e])) /\ inn'[Peer(e)] = inn[Peer(e)]
          /\ delivering'[e] = <<>> /\ delivering'[Peer(e)] = delivering[Peer(e)]
      BY <2>1 DEF TypeOK
    <2>3. Settles(e)
      BY <2>1, <2>2, DirectionSame
    <2>4. Intact(Peer(e))' <=> Intact(Peer(e))
      BY <2>1, IntactKept
    <2>5. Arrived(e)' = Arrived(e)
      <3>1. PICK m \in Payload : delivering[e] = <<m>>
        BY <2>1 DEF TypeOK
      <3>2. inn[e] \in Seq(Payload) /\ Head(delivering[e]) = m
        BY <3>1 DEF TypeOK
      <3>3. Append(inn[e], m) = inn[e] \o <<m>> /\ Append(inn[e], m) \in Seq(Payload)
        BY <3>2, AppendIsConcat, AppendProperties
      <3>4. Append(inn[e], m) \o <<>> = Append(inn[e], m)
        BY <3>3, Empties
      <3>5. Arrived(e)' = Append(inn[e], m) \o <<>>
        BY <2>2, <3>2 DEF Arrived
      <3>. QED
        BY <3>1, <3>3, <3>4, <3>5 DEF Arrived
    <2>6. Unread(Peer(e))' = Unread(Peer(e)) /\ Unsent(Peer(e))' = Unsent(Peer(e))
      BY <2>1, <2>4 DEF Unread, Unsent
    <2>7. Settles(Peer(e))
      BY <2>1, <2>4, <2>5, <2>6, DirectionKept
    <2>. QED
      BY <1>1, <2>3, <2>7
  <1>. QED
    BY <1>2, <1>3, <1>4 DEF Reader

LEMMA LifecycleSettles ==
    ASSUME TypeOK, NEW e \in End, Lifecycle(e)
    PROVE  \A d \in End : Settles(d)
  <1>. USE PeerFacts
  <1>1. CASE Abort(e) \/ Announce(e)
    <2>1. /\ stage[e] # "failed"
          /\ \E s \in {"aborting", "disconnected"} : stage' = [stage EXCEPT ![e] = s]
          /\ UNCHANGED <<net, held, writer, reader, out, writing, wire, delivering, inn>>
      BY <1>1 DEF Abort, Announce, channels
    <2>2. \A d \in End : stage'[d] = "failed" <=> stage[d] = "failed"
      BY <2>1 DEF TypeOK
    <2>. QED
      BY <2>1, <2>2, DirectionSame
  <1>2. CASE Aborted(e)
    <2>1. UNCHANGED <<net, stage, held, wire, inn>>
      BY <1>2 DEF Aborted
    <2>2. CASE WriterEnds(e) /\ UNCHANGED <<reader, delivering>>
      BY <2>1, <2>2, WriterEndsSettles
    <2>3. CASE ReaderEnds(e) /\ UNCHANGED <<writer, writing, out>>
      BY <2>1, <2>3, ReaderEndsSettles
    <2>. QED
      BY <1>2, <2>2, <2>3 DEF Aborted
  <1>. QED
    BY <1>1, <1>2 DEF Lifecycle

LEMMA DropsSettle ==
    ASSUME TypeOK, DesktopDrops \/ PhoneDrops
    PROVE  \A d \in End : Settles(d)
  <1>. USE PeerFacts
  <1>1. /\ "phone" \in End /\ "desktop" \in End
        /\ Peer("phone") = "desktop" /\ Peer("desktop") = "phone"
        /\ \A d \in End : d = "phone" \/ d = "desktop"
    BY DEF End, Peer
  <1>2. CASE DesktopDrops
    <2>1. /\ held' = [held EXCEPT !["desktop"] = FALSE]
          /\ inn' = [inn EXCEPT !["desktop"] = <<>>]
          /\ stage' = [stage EXCEPT !["desktop"] = "failed"] \/ stage' = stage
          /\ UNCHANGED <<net, writer, reader, out, writing, wire, delivering>>
      BY <1>2 DEF DesktopDrops
    <2>2. ~held'["desktop"] /\ held'["phone"] = held["phone"]
      BY <1>1, <2>1, Zenon DEF TypeOK
    <2>3. inn'["phone"] = inn["phone"] /\ stage'["phone"] = stage["phone"]
      BY <1>1, <2>1 DEF TypeOK
    <2>4. Settles("phone")
      <3>1. ~Intact("phone")'
        BY <1>1, <2>2 DEF Intact
      <3>. QED
        BY <1>1, <2>2, <3>1, DirectionFails
    <2>5. Settles("desktop")
      <3>1. CASE stage' = stage
        BY <1>1, <2>1, <2>2, <2>3, <3>1, DirectionSame
      <3>2. CASE stage' = [stage EXCEPT !["desktop"] = "failed"]
        <4>1. stage'["desktop"] = "failed"
          BY <1>1, <3>2 DEF TypeOK
        <4>2. ~Intact("desktop")'
          BY <4>1 DEF Intact
        <4>. QED
          BY <1>1, <2>1, <2>2, <2>3, <4>2, DirectionFails
      <3>. QED
        BY <2>1, <3>1, <3>2
    <2>. QED
      BY <1>1, <2>4, <2>5
  <1>3. CASE PhoneDrops
    <2>1. /\ held' = [held EXCEPT !["phone"] = FALSE]
          /\ inn' = [inn EXCEPT !["phone"] = <<>>]
          /\ WriterEnds("phone") /\ ReaderEnds("phone")
          /\ UNCHANGED <<net, wire>>
      BY <1>3 DEF PhoneDrops
    <2>2. ~held'["phone"] /\ held'["desktop"] = held["desktop"]
      BY <1>1, <2>1, Zenon DEF TypeOK
    <2>3. /\ inn'["desktop"] = inn["desktop"] /\ delivering'["desktop"] = delivering["desktop"]
          /\ reader'["desktop"] = reader["desktop"] /\ writer'["phone"] = "ended"
      BY <1>1, <2>1 DEF WriterEnds, ReaderEnds, TypeOK
    <2>4. Settles("phone")
      <3>1. ~Intact("phone")'
        BY <2>3 DEF Intact
      <3>. QED
        BY <1>1, <2>1, <2>2, <2>3, <3>1, DirectionFails
    <2>5. Settles("desktop")
      <3>1. ~Intact("desktop")'
        BY <1>1, <2>2 DEF Intact
      <3>. QED
        BY <1>1, <2>2, <3>1, DirectionFails
    <2>. QED
      BY <1>1, <2>4, <2>5
  <1>. QED
    BY <1>2, <1>3

LEMMA NetworkSettles ==
    ASSUME TypeOK, NEW e \in End, Cut \/ Reset(e) \/ Tick
    PROVE  \A d \in End : Settles(d)
  <1>. USE PeerFacts
  <1>1. CASE Cut
    <2>1. /\ net' = "cut"
          /\ \A d \in End : wire'[d] \in Remains(wire[d])
          /\ UNCHANGED <<held, reader, delivering, inn>>
      BY <1>1 DEF Cut, End
    <2>2. \A d \in End : ~Intact(d)'
      BY <2>1 DEF Intact
    <2>. QED
      BY <2>1, <2>2, DirectionFails
  <1>2. CASE Reset(e)
    <2>1. PICK w \in Remains(wire[e]) : wire' = [wire EXCEPT ![e] = w]
      BY <1>2 DEF Reset
    <2>2. wire'[e] \in Remains(wire[e]) /\ wire'[Peer(e)] = wire[Peer(e)]
      BY <2>1 DEF TypeOK
    <2>3. /\ Closed(e)
          /\ UNCHANGED <<net, stage, held, writer, reader, out, writing, delivering, inn>>
      BY <1>2 DEF Reset
    <2>4. ~Intact(e)'
      BY <2>3 DEF Closed, Intact
    <2>5. Settles(e)
      BY <2>2, <2>3, <2>4, DirectionFails
    <2>6. Settles(Peer(e))
      BY <2>2, <2>3, DirectionSame
    <2>. QED
      BY <2>5, <2>6
  <1>3. CASE Tick
    <2>1. UNCHANGED <<net, stage, held, writer, reader, out, writing, wire, delivering, inn>>
      BY <1>3 DEF Tick, workers, channels
    <2>. QED
      BY <2>1, DirectionSame
  <1>. QED
    BY <1>1, <1>2, <1>3

-----------------------------------------------------------------------------
(* The operations of the two programs *)

LEMMA SendIsPromised ==
    ASSUME TypeOK, NEW e \in End, Send(e)
    PROVE  \E message \in Payload : Promise!Send(e, message)
  <1>. USE PeerFacts
  <1>. DEFINE m == Data(sent[e] + 1)
  <1>1. m \in Payload
    <2>1. sent[e] + 1 \in 1 .. Limit(e)
      BY PayloadFacts DEF Send, TypeOK
    <2>. QED
      BY <2>1, PayloadFacts
  <1>2. /\ out' = [out EXCEPT ![e] = Append(@, m)]
        /\ UNCHANGED <<net, stage, held, writer, reader, writing, wire, delivering, inn>>
    BY DEF Send, workers
  <1>. HIDE DEF m
  <1>3. out'[e] = Append(out[e], m) /\ out'[Peer(e)] = out[Peer(e)]
    BY <1>2 DEF TypeOK
  <1>4. \A d \in End : Intact(d)' <=> Intact(d)
    BY <1>2 DEF Intact
  <1>5. \A d \in End : Arrived(d)' = Arrived(d) /\ Unread(d)' = Unread(d)
    BY <1>2 DEF Arrived, Unread
  <1>6. ASSUME NEW d \in End, d # e PROVE Underway(d)' = Underway(d)
    <2>1. Unsent(d)' = Unsent(d)
      BY <1>2, <1>3, <1>4, <1>6 DEF Unsent
    <2>2. /\ Arrived(Peer(d))' = Arrived(Peer(d)) /\ Unread(d)' = Unread(d)
          /\ held'[Peer(d)] = held[Peer(d)]
      BY <1>2, <1>5
    <2>. QED
      BY <2>1, <2>2, UnderwayIs
  <1>7. CASE ~Intact(e)
    <2>1. Unsent(e)' = Unsent(e)
      BY <1>4, <1>7 DEF Unsent
    <2>2. Underway(e)' = Underway(e)
      BY <1>2, <1>5, <2>1, UnderwayIs
    <2>3. \A d \in End : Underway(d)' = Underway(d)
      BY <1>6, <2>2
    <2>4. [d \in End |-> Underway(d)]' = [d \in End |-> Underway(d)]
      BY <2>3
    <2>5. [d \in End |-> ~Intact(d)]' = [d \in End |-> ~Intact(d)]
      BY <1>4, Zenon
    <2>6. [d \in End |-> ~Intact(d)][e]
      BY <1>7
    <2>7. Promise!Send(e, m)
      BY <2>4, <2>5, <2>6 DEF Promise!Send
    <2>. QED
      BY <1>1, <2>7
  <1>8. CASE Intact(e)
    <2>1. held[Peer(e)]
      BY <1>8 DEF Intact
    <2>. DEFINE b == Arrived(Peer(e)) \o Unread(e)
                w == Payloads(writing[e])
                o == out[e]
    <2>2. Underway(e) = b \o (w \o o)
      BY <1>8, <2>1, UnderwayIs DEF Unsent
    <2>3. Underway(e)' = b \o (w \o Append(o, m))
      <3>1. Unsent(e)' = w \o Append(o, m)
        BY <1>2, <1>3, <1>4, <1>8 DEF Unsent
      <3>2. Underway(e)' = (Arrived(Peer(e))' \o Unread(e)') \o Unsent(e)'
        BY <1>2, <2>1, UnderwayIs
      <3>. QED
        BY <1>5, <3>1, <3>2
    <2>4. b \in Seq(Payload) /\ w \in Seq(Payload) /\ o \in Seq(Payload) /\ <<m>> \in Seq(Payload)
      BY <1>1, Pieces, ConcatProperties
    <2>. HIDE DEF b, w, o
    <2>5. Underway(e)' = Append(Underway(e), m)
      <3>1. Append(o, m) = o \o <<m>>
        BY <1>1, <2>4, AppendIsConcat
      <3>2. w \o o \in Seq(Payload) /\ w \o (o \o <<m>>) = (w \o o) \o <<m>>
        BY <2>4, ConcatAssociative, ConcatProperties
      <3>3. b \o ((w \o o) \o <<m>>) = (b \o (w \o o)) \o <<m>>
        BY <2>4, <3>2, ConcatAssociative
      <3>4. Append(Underway(e), m) = Underway(e) \o <<m>>
        BY <1>1, UnderwayType, AppendIsConcat
      <3>. QED
        BY <2>2, <2>3, <3>1, <3>2, <3>3, <3>4
    <2>6. [d \in End |-> Underway(d)]'
             = [[d \in End |-> Underway(d)] EXCEPT ![e] = Append(@, m)]
      BY <1>6, <2>5
    <2>7. [d \in End |-> ~Intact(d)]' = [d \in End |-> ~Intact(d)]
      BY <1>4, Zenon
    <2>8. ~[d \in End |-> ~Intact(d)][e]
      BY <1>8
    <2>9. Promise!Send(e, m)
      BY <2>6, <2>7, <2>8 DEF Promise!Send
    <2>. QED
      BY <1>1, <2>9
  <1>. QED
    BY <1>7, <1>8

LEMMA ReceiveIsPromised ==
    ASSUME TypeOK, NEW e \in End, Receive(e)
    PROVE  Promise!Receive(e)
  <1>. USE PeerFacts
  <1>1. /\ held[e] /\ inn[e] # <<>>
        /\ inn' = [inn EXCEPT ![e] = Tail(@)]
        /\ UNCHANGED <<net, stage, held, writer, reader, out, writing, wire, delivering>>
    BY DEF Receive, workers
  <1>2. inn'[e] = Tail(inn[e]) /\ inn'[Peer(e)] = inn[Peer(e)]
    BY <1>1 DEF TypeOK
  <1>3. \A d \in End : Intact(d)' <=> Intact(d)
    BY <1>1 DEF Intact
  <1>4. \A d \in End : Unread(d)' = Unread(d) /\ Unsent(d)' = Unsent(d)
    BY <1>1, <1>3 DEF Unread, Unsent
  <1>5. Underway(e)' = Underway(e)
    <2>1. Arrived(Peer(e))' = Arrived(Peer(e))
      BY <1>1, <1>2 DEF Arrived
    <2>2. /\ Unread(e)' = Unread(e) /\ Unsent(e)' = Unsent(e)
          /\ held'[Peer(e)] = held[Peer(e)]
      BY <1>1, <1>4
    <2>. QED
      BY <2>1, <2>2, UnderwayIs
  <1>6. Underway(Peer(e)) # <<>> /\ Underway(Peer(e))' = Tail(Underway(Peer(e)))
    <2>. DEFINE i == inn[e]
                d == delivering[e]
                u == Unread(Peer(e))
                x == Unsent(Peer(e))
    <2>1. i \in Seq(Payload) /\ d \in Seq(Payload) /\ u \in Seq(Payload) /\ x \in Seq(Payload)
      BY Pieces
    <2>2. Underway(Peer(e)) = ((i \o d) \o u) \o x
      BY <1>1, UnderwayIs DEF Arrived
    <2>3. Underway(Peer(e))' = ((Tail(i) \o d) \o u) \o x
      <3>1. Arrived(e)' = Tail(i) \o d
        BY <1>1, <1>2 DEF Arrived
      <3>2. Underway(Peer(e))' = (Arrived(e)' \o Unread(Peer(e))') \o Unsent(Peer(e))'
        BY <1>1, UnderwayIs
      <3>. QED
        BY <1>4, <3>1, <3>2
    <2>4. i # <<>>
      BY <1>1
    <2>. HIDE DEF i, d, u, x
    <2>5. i \o d \in Seq(Payload) /\ i \o d # <<>> /\ Tail(i \o d) = Tail(i) \o d
      BY <2>1, <2>4, TailOfConcat, ConcatProperties
    <2>6. /\ (i \o d) \o u \in Seq(Payload) /\ (i \o d) \o u # <<>>
          /\ Tail((i \o d) \o u) = Tail(i \o d) \o u
      BY <2>1, <2>5, TailOfConcat, ConcatProperties
    <2>7. /\ ((i \o d) \o u) \o x # <<>>
          /\ Tail(((i \o d) \o u) \o x) = Tail((i \o d) \o u) \o x
      BY <2>1, <2>6, TailOfConcat
    <2>. QED
      BY <2>2, <2>3, <2>5, <2>6, <2>7
  <1>7. [d \in End |-> Underway(d)]'
           = [[d \in End |-> Underway(d)] EXCEPT ![Peer(e)] = Tail(@)]
    BY <1>5, <1>6
  <1>8. [d \in End |-> ~Intact(d)]' = [d \in End |-> ~Intact(d)]
    BY <1>3, Zenon
  <1>. QED
    BY <1>6, <1>7, <1>8 DEF Promise!Receive

-----------------------------------------------------------------------------
(* The connection keeps its promise *)

LEMMA InitIsPromised == Init => Promise!Init
  <1>. SUFFICES ASSUME Init PROVE Promise!Init
    OBVIOUS
  <1>. USE PeerFacts
  <1>1. \A e \in End :
           /\ held[e] /\ inn[e] = <<>> /\ delivering[e] = <<>> /\ wire[e] = <<>>
           /\ writing[e] = <<>> /\ out[e] = <<>>
           /\ writer[e] = "none" /\ reader[e] = "none" /\ stage[e] = "connecting" /\ net = "ok"
    BY DEF Init
  <1>2. \A e \in End : Intact(e)
    BY <1>1 DEF Intact
  <1>3. <<>> \o <<>> = <<>> /\ Payloads(<<>>) = <<>>
    BY Empties, EmptySeq, PayloadsOfOne
  <1>4. ASSUME NEW e \in End PROVE Underway(e) = <<>>
    <2>1. Arrived(Peer(e)) = <<>> /\ Unread(e) = <<>> /\ Unsent(e) = <<>>
      BY <1>1, <1>2, <1>3 DEF Arrived, Unread, Unsent
    <2>. QED
      BY <1>1, <1>3, <2>1, UnderwayIs
  <1>5. [e \in End |-> Underway(e)] = [e \in End |-> <<>>]
    BY <1>4
  <1>6. [e \in End |-> ~Intact(e)] = [e \in End |-> FALSE]
    BY <1>2
  <1>. QED
    BY <1>5, <1>6 DEF Promise!Init

LEMMA NextIsPromised ==
    ASSUME TypeOK, HelloFirst, TasksFitStage, HelloNext, WellTyped', Next
    PROVE  Promise!Next
  <1>1. ASSUME NEW e \in End,
               \/ Handshake(e) \/ Writer(e) \/ WriteIntoVoid(e) \/ Reader(e) \/ Lifecycle(e)
               \/ Cut \/ Tick \/ Reset(e) \/ DesktopDrops \/ PhoneDrops
        PROVE  Promise!Next
    <2>1. \A d \in End : Settles(d)
      BY <1>1, HandshakeSettles, WriterSettles, ReaderSettles, LifecycleSettles, DropsSettle,
         NetworkSettles
    <2>. QED
      BY <2>1, SettledIsAStep
  <1>2. ASSUME NEW e \in End, Send(e)
        PROVE  Promise!Next
    BY <1>2, SendIsPromised DEF Promise!Next
  <1>3. ASSUME NEW e \in End, Receive(e)
        PROVE  Promise!Next
    BY <1>3, ReceiveIsPromised DEF Promise!Next
  <1>. QED
    BY <1>1, <1>2, <1>3 DEF Next, End

LEMMA StutterIsPromised ==
    UNCHANGED vars => UNCHANGED <<[e \in End |-> Underway(e)], [e \in End |-> ~Intact(e)]>>
BY DEF vars, Underway, Intact

LEMMA HelloNextAtFirst == Init => HelloNext
BY PeerFacts DEF Init, HelloNext

LEMMA HelloNextStutters == HelloNext /\ UNCHANGED vars => HelloNext'
BY DEF HelloNext, vars, Handshaking, ShutDown

LEMMA AllTyped == TypeOK => WellTyped
BY UnderwayType DEF WellTyped

\* A connection is a MessageLink: whatever happens to the network, the sockets
\* and the tasks, each program receives, in order and once, a beginning of what
\* the other one sent (client.rs, writer_loop and reader_loop).
THEOREM PromiseIsKept == Spec => Ordered
  <1>1. IInv /\ HelloNext /\ [Next]_vars => HelloNext'
    BY HelloNextStep, HelloNextStutters DEF IInv
  <1>2. IInv /\ HelloNext /\ WellTyped' /\ [Next]_vars
           => [Promise!Next]_<<[e \in End |-> Underway(e)], [e \in End |-> ~Intact(e)]>>
    BY NextIsPromised, StutterIsPromised DEF IInv
  <1>3. IInv => WellTyped
    BY AllTyped DEF IInv
  <1>. QED
    BY <1>1, <1>2, <1>3, Invariance, HelloNextAtFirst, InitIsPromised, PTL
       DEF Spec, Ordered, Promise!Spec
=============================================================================
