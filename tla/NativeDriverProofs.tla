------------------------- MODULE NativeDriverProofs -------------------------
(***************************************************************************)
(* The two directions between the desktop and the native virtual cameras,  *)
(* on both platforms: what the commits of NativeOutput rest on, for any    *)
(* formats and any room in the connection, and how the pieces of           *)
(* PacketStream become pictures again, for any sizes of pictures, pieces,  *)
(* pipe and limit.                                                         *)
(***************************************************************************)
EXTENDS NativeOutput, PacketStream, FiniteSetTheorems, SequenceTheorems, TLAPS

-----------------------------------------------------------------------------
(* Formats and commits (NativeOutput). *)

\* Only formats of this connection wait in it.
EventsAreKnown == \A i \in DOMAIN events : events[i] \in known

\* Before the camera has taken the connection nothing has been read from it.
NothingBefore ==
  link \in {"none", "connecting"} =>
    events = <<>> /\ committed = NoFormat /\ outcome # "ok"

Safe ==
  /\ TypeOK /\ EventsAreKnown /\ NothingBefore
  /\ CommittedWasSelected /\ CaughtUp /\ NewestIsSelected

LEMMA InitSafe == Init => Safe
<1> SUFFICES ASSUME Init PROVE Safe
  OBVIOUS
<1>1. events \in Seq(Formats) /\ Len(events) = 0 /\ DOMAIN events = {}
  BY DEF Init
<1>2. TypeOK
  <2>1. {selected, requested, committed} \subseteq MaybeFormat
    BY DEF Init, MaybeFormat
  <2>2. known \subseteq Formats /\ lost \in BOOLEAN
    BY DEF Init
  <2>3. /\ selections \in 0 .. SelectLimit /\ commits \in 0 .. CommitLimit
        /\ Len(events) <= Room
    BY <1>1, BoundAssumption DEF Init
  <2> QED BY <1>1, <2>1, <2>2, <2>3 DEF Init, TypeOK
<1> QED
  BY <1>1, <1>2
     DEF Init, Safe, EventsAreKnown, NothingBefore, CommittedWasSelected, CaughtUp,
         NewestIsSelected

\* A selection puts the new format behind every event, or loses it.
LEMMA SelectSafe ==
  ASSUME Safe, NEW f \in Formats, Select(f)
  PROVE  Safe'
<1> USE BoundAssumption
<1>1. CASE link = "up"
  <2>0. /\ Send(f) /\ known' = known \cup {f} /\ selected' = f
        /\ selections < SelectLimit /\ selections' = selections + 1
        /\ UNCHANGED <<platform, requested, commits, committed, outcome>>
    BY <1>1 DEF Select, desktopVars
  <2>1. CASE Len(events) < Room /\ events' = Append(events, f) /\ UNCHANGED <<link, lost>>
    <3>1. Len(events') = Len(events) + 1 /\ events'[Len(events')] = f /\ events' # <<>>
      BY <2>1 DEF Safe, TypeOK
    <3>2. \A i \in DOMAIN events : events'[i] = events[i]
      BY <2>1 DEF Safe, TypeOK
    <3>3. EventsAreKnown'
      <4> SUFFICES ASSUME NEW i \in DOMAIN events' PROVE events'[i] \in known'
        BY DEF EventsAreKnown
      <4>1. i \in DOMAIN events \/ i = Len(events')
        BY <2>1 DEF Safe, TypeOK
      <4> QED BY <4>1, <3>1, <3>2, <2>0 DEF Safe, EventsAreKnown
    <3>4. TypeOK'
      BY <2>0, <2>1, <3>1 DEF Safe, TypeOK, MaybeFormat
    <3> QED
      BY <1>1, <2>0, <2>1, <3>1, <3>3, <3>4
         DEF Safe, NothingBefore, CommittedWasSelected, CaughtUp, NewestIsSelected
  <2>2. CASE lost' /\ events' = events /\ link' \in {link, "down"}
    BY <1>1, <2>0, <2>2
       DEF Safe, TypeOK, MaybeFormat, EventsAreKnown, NothingBefore,
           CommittedWasSelected, CaughtUp, NewestIsSelected
  <2> QED BY <2>0, <2>1, <2>2 DEF Send
<1>2. CASE link # "up"
  BY <1>2 DEF Select, desktopVars, Safe, TypeOK, MaybeFormat, EventsAreKnown, NothingBefore,
              CommittedWasSelected, CaughtUp, NewestIsSelected
<1> QED BY <1>1, <1>2

LEMMA AcceptSafe ==
  ASSUME Safe, Accept
  PROVE  Safe'
<1> USE BoundAssumption
<1>1. CASE selected = NoFormat
  BY <1>1 DEF Accept, cameraVars, desktopVars, Safe, TypeOK, MaybeFormat, EventsAreKnown,
              NothingBefore, CommittedWasSelected, CaughtUp, NewestIsSelected
<1>2. CASE selected # NoFormat
  <2>1. /\ selected \in Formats /\ events' = <<selected>> /\ known' = {selected}
        /\ link = "connecting" /\ link' = "up"
        /\ UNCHANGED <<platform, selected, selections, lost, requested, commits, committed, outcome>>
    BY <1>2 DEF Accept, cameraVars, desktopVars, Safe, TypeOK, MaybeFormat
  <2>2. events' \in Seq(Formats) /\ Len(events') = 1 /\ events'[1] = selected /\ events' # <<>>
    BY <2>1
  <2>3. Len(events') <= Room
    BY <2>2
  <2> QED
    BY <2>1, <2>2, <2>3
       DEF Safe, TypeOK, MaybeFormat, EventsAreKnown, NothingBefore, CommittedWasSelected,
           CaughtUp, NewestIsSelected
<1> QED BY <1>1, <1>2

\* What is left behind the oldest event keeps its order and its last.
LEMMA ReadEventSafe ==
  ASSUME Safe, ReadEvent
  PROVE  Safe'
<1>1. /\ outcome = "waiting" /\ events # <<>> /\ events' = Tail(events)
      /\ UNCHANGED <<platform, selected, selections, link, known, lost, requested, commits>>
  BY DEF ReadEvent, cameraVars
<1>2. events \in Seq(Formats) /\ Len(events) >= 1 /\ events[1] \in Formats /\ events[1] \in known
  BY <1>1 DEF Safe, TypeOK, EventsAreKnown
<1>3. /\ events' \in Seq(Formats) /\ Len(events') = Len(events) - 1
      /\ \A i \in DOMAIN events' : i + 1 \in DOMAIN events /\ events'[i] = events[i + 1]
  BY <1>1, <1>2
<1>4. events' # <<>> => events'[Len(events')] = events[Len(events)]
  BY <1>1, <1>2, <1>3
<1>5. events' = <<>> => events[1] = events[Len(events)]
  <2>1. Len(events) > 1 => events' # <<>>
    <3> SUFFICES ASSUME Len(events) > 1 PROVE 1 \in DOMAIN events'
      OBVIOUS
    <3> QED BY <1>2, <1>3
  <2> QED BY <2>1, <1>2
<1>6. link \notin {"none", "connecting"}
  BY <1>1 DEF Safe, NothingBefore
<1>7. TypeOK' /\ EventsAreKnown' /\ NothingBefore'
  <2>1. requested \in MaybeFormat /\ committed' \in {committed, requested} /\ outcome' \in {"ok", "failed"}
    BY <1>1 DEF ReadEvent, Safe, TypeOK
  <2>2. TypeOK'
    <3>1. {selected, requested, committed}' \subseteq MaybeFormat
      BY <1>1, <2>1 DEF Safe, TypeOK
    <3>2. Len(events') <= Room
      BY <1>3, BoundAssumption DEF Safe, TypeOK
    <3> QED BY <1>1, <1>3, <2>1, <3>1, <3>2 DEF Safe, TypeOK
  <2> QED
    BY <1>1, <1>3, <1>6, <2>2 DEF Safe, EventsAreKnown, NothingBefore
<1>8. CommittedWasSelected'
  BY <1>1, <1>2 DEF ReadEvent, Safe, CommittedWasSelected
<1>9. NewestIsSelected'
  BY <1>1, <1>4 DEF Safe, NewestIsSelected
<1>10. CaughtUp'
  BY <1>1, <1>5 DEF ReadEvent, Safe, CaughtUp, NewestIsSelected
<1> QED BY <1>7, <1>8, <1>9, <1>10 DEF Safe

LEMMA NextSafe == Safe /\ [Next]_vars => Safe'
<1> SUFFICES ASSUME Safe, [Next]_vars PROVE Safe'
  OBVIOUS
<1> USE BoundAssumption
    DEF Safe, TypeOK, MaybeFormat, EventsAreKnown, NothingBefore,
        CommittedWasSelected, CaughtUp, NewestIsSelected
<1>1. CASE \E f \in Formats : Select(f)
  BY <1>1, SelectSafe
<1>2. CASE \E f \in Formats : Commit(f)
  BY <1>2 DEF Commit, cameraVars
<1>3. CASE Accept
  BY <1>3, AcceptSafe
<1>4. CASE CameraGoes
  BY <1>4 DEF CameraGoes, cameraVars, desktopVars
<1>5. CASE Open
  BY <1>5 DEF Open, cameraVars, desktopVars
<1>6. CASE ReadEvent
  BY <1>6, ReadEventSafe
<1>7. CASE ReadFails
  BY <1>7 DEF ReadFails, cameraVars
<1>8. CASE UNCHANGED vars
  BY <1>8 DEF vars, cameraVars, desktopVars
<1> QED BY <1>1, <1>2, <1>3, <1>4, <1>5, <1>6, <1>7, <1>8 DEF Next

\* Every state is well typed, a committed profile is one the camera had while
\* the desktop was connected, the newest event that waits is its format, and
\* once all are read a commit that succeeded agrees with it (publishFormat,
\* PublishFormat, OutputDevice::commit).
THEOREM CommitsAreSafe == Spec => []CommitsCatchUp
<1> QED BY InitSafe, NextSafe, PTL DEF Spec, Safe, CommitsCatchUp

-----------------------------------------------------------------------------
(* Pictures in pieces (PacketStream).                                      *)
(*                                                                         *)
(* All that is written and not yet taken is one stream of cells, whichever *)
(* part of it is still at the desktop, in the pipe or at the receiver; the *)
(* steps only move its parts on, put a packet behind it and take cells     *)
(* away in front.                                                          *)

Length(p) == HeaderCells + PayloadOf[p]

\* The order in which cells are written, and the cell that comes next.
Before(c, d) == c[1] < d[1] \/ (c[1] = d[1] /\ c[2] < d[2])
Follows(c, d) ==
  \/ c[2] < Length(c[1]) /\ d = <<c[1], c[2] + 1>>
  \/ c[2] = Length(c[1]) /\ d = <<c[1] + 1, 1>>

OfPackets(s, last) ==
  \A i \in DOMAIN s : s[i][1] \in 1 .. last /\ s[i][2] \in 1 .. Length(s[i][1])
Ascends(s) == \A i, j \in DOMAIN s : i < j => Before(s[i], s[j])
Unbroken(s) == \A i \in DOMAIN s : i + 1 \in DOMAIN s => Follows(s[i], s[i + 1])

\* What is written and not yet taken out, the receiver's end first.
Size == Len(pending) + Len(wire) + Len(toWrite)
Stream == [i \in 1 .. Size |->
             IF i <= Len(pending) THEN pending[i]
             ELSE IF i <= Len(pending) + Len(wire) THEN wire[i - Len(pending)]
             ELSE toWrite[i - Len(pending) - Len(wire)]]

\* A picture begins with the header of a packet written before anything that
\* is still to come.
Behind ==
  \A k \in DOMAIN published :
    /\ 1 \in DOMAIN published[k]
    /\ published[k][1][1] \in 1 .. written /\ published[k][1][2] = 1
    /\ \A i \in DOMAIN Stream : Before(published[k][1], Stream[i])

Ordered ==
  /\ OfPackets(Stream, written) /\ Ascends(Stream) /\ Behind
  /\ InOrder
  /\ ~Leftovers => Unbroken(Stream) /\ \A i \in DOMAIN published : Whole(published[i])

\* A connection that is down leaves nothing but what the receiver keeps.
DownIsEmpty == conn = "down" => wire = <<>> /\ toWrite = <<>> /\ (KeepsPending \/ pending = <<>>)

\* While the desktop is there, the stream ends with the packet written last.
EndsWhole ==
  conn = "up" /\ ~Leftovers /\ Size # 0 => Stream[Size] = <<written, Length(written)>>

\* Without discards it begins with a header, and no packet is missing.
NoneMissing ==
  conn = "up" /\ ~discarded /\ ~Leftovers =>
    /\ Size # 0 => Stream[1][2] = 1
    /\ \A p \in first .. written :
         \/ \E k \in DOMAIN published : NumberOf(published[k]) = p
         \/ \E i \in DOMAIN Stream : Stream[i] = <<p, 1>>

\* The inductive invariant of PacketStream.
PacketInv == PacketTypeOK /\ Ordered /\ DownIsEmpty /\ EndsWhole /\ NoneMissing

-----------------------------------------------------------------------------
(* Streams of cells. *)

\* The numbers the constants stand for.
LEMMA Sizes ==
  /\ HeaderCells \in Nat /\ HeaderCells >= 1
  /\ Packets \in Nat /\ PipeRoom \in Nat /\ ReadSize \in Nat /\ PendingLimit \in Nat
  /\ ConnectLimit \in Nat
  /\ \A p \in 1 .. Packets : PayloadOf[p] \in Nat /\ Length(p) \in Nat /\ Length(p) >= HeaderCells
  BY SizeAssumption DEF Length

\* The three parts of the stream are sequences; the receiver's part is its front.
LEMMA Lengths ==
  ASSUME PacketTypeOK
  PROVE  /\ pending \in Seq(Cell) /\ Len(pending) \in Nat
         /\ wire \in Seq(Cell) /\ Len(wire) \in Nat
         /\ toWrite \in Seq(Cell) /\ Len(toWrite) \in Nat
         /\ written \in 0 .. Packets /\ written \in Nat
         /\ Size \in Nat /\ DOMAIN Stream = 1 .. Size
         /\ \A i \in 1 .. Len(pending) :
              i \in 1 .. Size /\ Stream[i] = pending[i] /\ pending[i] \in Cell
<1>1. /\ pending \in Seq(Cell) /\ Len(pending) \in Nat
      /\ wire \in Seq(Cell) /\ Len(wire) \in Nat
      /\ toWrite \in Seq(Cell) /\ Len(toWrite) \in Nat
      /\ written \in 0 .. Packets /\ written \in Nat
  BY Sizes DEF PacketTypeOK
<1> QED
  BY <1>1 DEF Size, Stream

\* What is part of a stream is as orderly.
LEMMA PartOf ==
  ASSUME NEW s, NEW t, NEW n \in Nat, DOMAIN s \subseteq Nat, DOMAIN t \subseteq Nat,
         \A i \in DOMAIN t : i + n \in DOMAIN s /\ t[i] = s[i + n]
  PROVE  /\ \A last : OfPackets(s, last) => OfPackets(t, last)
         /\ Ascends(s) => Ascends(t)
         /\ Unbroken(s) => Unbroken(t)
<1>1. \A last : OfPackets(s, last) => OfPackets(t, last)
  BY DEF OfPackets
<1>2. Ascends(s) => Ascends(t)
  <2> SUFFICES ASSUME Ascends(s), NEW i \in DOMAIN t, NEW j \in DOMAIN t, i < j
               PROVE  Before(t[i], t[j])
    BY DEF Ascends
  <2>1. i + n < j + n
    OBVIOUS
  <2> QED
    BY <2>1 DEF Ascends
<1>3. Unbroken(s) => Unbroken(t)
  <2> SUFFICES ASSUME Unbroken(s), NEW i \in DOMAIN t, i + 1 \in DOMAIN t
               PROVE  Follows(t[i], t[i + 1])
    BY DEF Unbroken
  <2>1. (i + 1) + n = (i + n) + 1
    OBVIOUS
  <2> QED
    BY <2>1 DEF Unbroken
<1> QED
  BY <1>1, <1>2, <1>3

\* A step that takes cells away at either end.
LEMMA PartKept ==
  ASSUME PacketTypeOK, PacketTypeOK', Ordered, UNCHANGED <<platform, written, published>>,
         leftover => leftover',
         NEW n \in Nat,
         \A i \in 1 .. Size' : i + n \in 1 .. Size /\ Stream'[i] = Stream[i + n]
  PROVE  Ordered'
<1>1. DOMAIN Stream = 1 .. Size /\ DOMAIN Stream' = 1 .. Size' /\ Size \in Nat
  <2>1. DOMAIN Stream' = 1 .. Size'
    BY DEF Stream
  <2> QED
    BY <2>1, Lengths
<1>2. OfPackets(Stream', written) /\ Ascends(Stream') /\ (Unbroken(Stream) => Unbroken(Stream'))
  <2>1. DOMAIN Stream \subseteq Nat /\ DOMAIN Stream' \subseteq Nat
    BY <1>1
  <2>2. \A i \in DOMAIN Stream' : i + n \in DOMAIN Stream /\ Stream'[i] = Stream[i + n]
    BY <1>1
  <2>3. /\ OfPackets(Stream, written) => OfPackets(Stream', written)
        /\ Ascends(Stream) => Ascends(Stream')
        /\ Unbroken(Stream) => Unbroken(Stream')
    BY <2>1, <2>2, PartOf
  <2> QED
    BY <2>3 DEF Ordered
<1>3. Behind'
  <2> SUFFICES ASSUME NEW k \in DOMAIN published, NEW i \in DOMAIN Stream'
               PROVE  Before(published[k][1], Stream'[i])
    BY DEF Ordered, Behind
  <2> QED
    BY <1>1 DEF Ordered, Behind
<1>4. ~Leftovers' => ~Leftovers
  BY DEF Leftovers, KeepsPending
<1>5. InOrder' /\ (~Leftovers => \A i \in DOMAIN published' : Whole(published'[i]))
  BY DEF Ordered, InOrder, Whole
<1> QED
  BY <1>2, <1>3, <1>4, <1>5 DEF Ordered

\* The same when it takes them at the end of the receiver: the other end stays.
LEMMA EndKept ==
  ASSUME PacketTypeOK, EndsWhole, UNCHANGED <<platform, conn, written, leftover>>,
         NEW n \in Nat, Size' = Size - n, Size' \in Nat,
         \A i \in 1 .. Size' : i + n \in 1 .. Size /\ Stream'[i] = Stream[i + n]
  PROVE  EndsWhole'
<1>1. Size' # 0 => Stream'[Size'] = Stream[Size] /\ Size # 0
  BY Lengths
<1> QED
  BY <1>1 DEF EndsWhole, Leftovers, KeepsPending

\* Induction over the numbers, as a fact about sets: the steps below a number
\* outside S would map themselves onto themselves without reaching it.
LEMMA NumbersUpwards ==
    ASSUME NEW S, 0 \in S, \A n \in Nat : n \in S => n + 1 \in S
    PROVE  Nat \subseteq S
  <1>. SUFFICES ASSUME NEW x \in Nat \ S
                PROVE  FALSE
    OBVIOUS
  <1>. DEFINE T == (0 .. x) \ S
              f == [n \in T |-> n - 1]
  <1>1. IsFiniteSet(T)
    <2>1. IsFiniteSet(0 .. x)
      BY FS_Interval
    <2>2. T \in SUBSET (0 .. x)
      OBVIOUS
    <2>. QED
      BY <2>1, <2>2, FS_Subset
  <1>2. f \in Injection(T, T)
    <2>1. ASSUME NEW n \in T PROVE n - 1 \in T
      <3>1. n \in Nat /\ n # 0 /\ n <= x
        OBVIOUS
      <3>2. n - 1 \in Nat /\ n = (n - 1) + 1 /\ n - 1 <= x
        BY <3>1
      <3>3. n - 1 \notin S
        BY <3>2
      <3>. QED
        BY <3>2, <3>3
    <2>2. f \in [T -> T]
      BY <2>1
    <2>3. \A a, b \in T : f[a] = f[b] => a = b
      OBVIOUS
    <2>. QED
      BY <2>2, <2>3 DEF Injection, IsInjective
  <1>3. f \in Surjection(T, T)
    BY <1>1, <1>2, FS_Injection
  <1>4. x \in T
    OBVIOUS
  <1>5. PICK y \in T : f[y] = x
    <2>. HIDE DEF T, f
    <2>. QED
      BY <1>3, <1>4 DEF Surjection
  <1>. QED
    BY <1>5

\* An unbroken stream that begins with a header goes on with its packet.
LEMMA PacketAhead ==
  ASSUME NEW s, NEW m \in Nat, DOMAIN s = 1 .. m, Unbroken(s),
         NEW p \in 1 .. Packets, s[1] = <<p, 1>>
  PROVE  \A i \in 1 .. m : i <= Length(p) => s[i] = <<p, i>>
<1> DEFINE Good == {i \in Nat : i \in 1 .. m /\ i <= Length(p) => s[i] = <<p, i>>}
<1>0. Length(p) \in Nat
  BY Sizes
<1>1. ASSUME NEW i \in Nat, i \in Good
      PROVE  i + 1 \in Good
  <2> SUFFICES ASSUME i + 1 \in 1 .. m, i + 1 <= Length(p)
               PROVE  s[i + 1] = <<p, i + 1>>
    OBVIOUS
  <2>1. CASE i = 0
    <3>1. i + 1 = 1
      BY <2>1
    <3> QED
      BY <3>1, Zenon
  <2>2. CASE i # 0
    <3>1. i \in 1 .. m /\ i < Length(p)
      BY <1>0, <2>2
    <3>2. s[i] = <<p, i>>
      BY <1>0, <1>1, <3>1
    <3>3. Follows(<<p, i>>, s[i + 1])
      BY <3>1, <3>2 DEF Unbroken
    <3> QED
      BY <1>0, <3>1, <3>3 DEF Follows
  <2> QED
    BY <2>1, <2>2
<1>2. 0 \in Good
  BY <1>0
<1>3. Nat \subseteq Good
  <2> HIDE DEF Good
  <2> QED
    BY <1>1, <1>2, NumbersUpwards
<1> QED
  BY <1>0, <1>3

\* A header at the receiver's end, and what follows it.
LEMMA AtHeader ==
  ASSUME PacketTypeOK, Unbroken(Stream), NEW p \in 1 .. Packets, 1 <= Len(pending),
         pending[1] = <<p, 1>>
  PROVE  /\ \A i \in 1 .. Size : i <= Length(p) => Stream[i] = <<p, i>>
         /\ \A i \in 1 .. Len(pending) : i <= Length(p) => pending[i] = <<p, i>>
         /\ Len(pending) >= HeaderCells => HeaderParses
<1>1. Stream[1] = <<p, 1>>
  BY Lengths
<1>2. \A i \in 1 .. Size : i <= Length(p) => Stream[i] = <<p, i>>
  BY <1>1, Lengths, PacketAhead
<1>3. \A i \in 1 .. Len(pending) : i <= Length(p) => pending[i] = <<p, i>>
  BY <1>2, Lengths
<1>4. ASSUME Len(pending) >= HeaderCells PROVE HeaderParses
  <2>1. \A i \in 1 .. HeaderCells : i \in 1 .. Len(pending) /\ i <= Length(p)
    BY <1>4, Sizes, Lengths
  <2> QED
    BY <1>3, <1>4, <2>1 DEF HeaderParses
<1> QED
  BY <1>2, <1>3, <1>4

\* The header of a packet that is ready to be taken.
LEMMA ParsedHeader ==
  ASSUME PacketTypeOK, HeaderParses
  PROVE  /\ pending[1][1] \in 1 .. Packets /\ pending[1] = <<pending[1][1], 1>>
         /\ Len(pending) >= 1 /\ Stream[1] = pending[1] /\ 1 \in 1 .. Size
         /\ Announced = Length(pending[1][1]) /\ Announced \in Nat /\ Announced >= 1
<1>1. PICK p \in 1 .. Packets : \A i \in 1 .. HeaderCells : pending[i] = <<p, i>>
  BY DEF HeaderParses
<1>2. pending[1] = <<p, 1>>
  BY <1>1, Sizes
<1>3. Len(pending) >= 1
  BY Sizes, Lengths DEF HeaderParses
<1> QED
  BY <1>2, <1>3, Sizes, Lengths DEF Announced, Length

\* A piece of n cells goes from one part to the one before it.
LEMMA PieceAt ==
  ASSUME NEW w \in Seq(Cell), NEW t \in Seq(Cell), NEW n \in 0 .. Len(t),
         NEW w2, w2 = w \o SubSeq(t, 1, n), NEW t2, t2 = SubSeq(t, n + 1, Len(t))
  PROVE  /\ w2 \in Seq(Cell) /\ Len(w2) = Len(w) + n
         /\ t2 \in Seq(Cell) /\ Len(t2) = Len(t) - n
         /\ \A i \in 1 .. Len(w) : w2[i] = w[i]
         /\ \A i \in 1 .. n : w2[Len(w) + i] = t[i]
         /\ \A i \in 1 .. Len(t) - n : t2[i] = t[i + n]
<1>1. t2 \in Seq(Cell) /\ Len(t2) = Len(t) - n
  OBVIOUS
<1>2. \A i \in 1 .. Len(t) - n : t2[i] = t[i + n]
  OBVIOUS
<1>3. PICK a : a = SubSeq(t, 1, n)
  OBVIOUS
<1>4. a \in Seq(Cell) /\ Len(a) = n /\ \A i \in 1 .. n : a[i] = t[i]
  BY <1>3
<1>5. w2 = w \o a
  BY <1>3, Zenon
<1>6. w2 \in Seq(Cell) /\ Len(w2) = Len(w) + n
  BY <1>4, <1>5
<1>7. \A i \in 1 .. Len(w) : w2[i] = w[i]
  BY <1>4, <1>5
<1>8. \A i \in 1 .. n : w2[Len(w) + i] = t[i]
  BY <1>4, <1>5
<1> QED
  BY <1>1, <1>2, <1>6, <1>7, <1>8

\* Cells leave the stream at the receiver's end.
LEMMA Dropped ==
  ASSUME PacketTypeOK, NEW n \in 0 .. Len(pending), Drop(n), UNCHANGED <<wire, toWrite>>
  PROVE  /\ pending' \in Seq(Cell) /\ Len(pending') = Len(pending) - n
         /\ Size' = Size - n /\ Size' \in Nat
         /\ \A i \in 1 .. Size' : i + n \in 1 .. Size /\ Stream'[i] = Stream[i + n]
<1>1. /\ pending \in Seq(Cell) /\ Len(pending) \in Nat /\ Len(wire) \in Nat /\ Len(toWrite) \in Nat
      /\ n \in Nat
  BY Lengths
<1>2. /\ pending' \in Seq(Cell) /\ Len(pending') = Len(pending) - n
      /\ \A i \in 1 .. Len(pending) - n : pending'[i] = pending[i + n]
  <2>1. pending' = SubSeq(pending, n + 1, Len(pending))
    BY DEF Drop
  <2>2. pending' \in Seq(Cell) /\ Len(pending') = Len(pending) - n
    BY <1>1, <2>1
  <2>3. \A i \in 1 .. Len(pending) - n : pending'[i] = pending[i + n]
    BY <1>1, <2>1
  <2> QED
    BY <2>2, <2>3
<1>3. Size' = Size - n /\ Size' \in Nat
  BY <1>1, <1>2 DEF Size
<1>4. ASSUME NEW i \in 1 .. Size' PROVE i + n \in 1 .. Size /\ Stream'[i] = Stream[i + n]
  <2>1. i + n \in 1 .. Size
    BY <1>1, <1>3, Lengths
  <2>2. CASE i <= Len(pending) - n
    <3>1. Stream'[i] = pending'[i]
      BY <1>2, <2>2 DEF Stream
    <3>2. Stream[i + n] = pending[i + n]
      BY <1>1, <2>1, <2>2 DEF Stream
    <3> QED
      BY <1>1, <1>2, <2>1, <2>2, <3>1, <3>2
  <2>3. CASE i > Len(pending) - n
    <3>1. /\ ~(i <= Len(pending')) /\ ~(i + n <= Len(pending))
          /\ i <= Len(pending') + Len(wire) <=> i + n <= Len(pending) + Len(wire)
          /\ i - Len(pending') = (i + n) - Len(pending)
      BY <1>1, <1>2, <2>1, <2>3
    <3>2. wire' = wire /\ toWrite' = toWrite
      OBVIOUS
    <3>3. Stream'[i] = IF i <= Len(pending') + Len(wire) THEN wire[i - Len(pending')]
                       ELSE toWrite[i - Len(pending') - Len(wire)]
      BY <3>1, <3>2 DEF Stream
    <3>4. Stream[i + n] = IF i + n <= Len(pending) + Len(wire) THEN wire[(i + n) - Len(pending)]
                          ELSE toWrite[(i + n) - Len(pending) - Len(wire)]
      BY <2>1, <3>1 DEF Stream
    <3> QED
      BY <2>1, <3>1, <3>3, <3>4, Zenon
  <2> QED
    BY <1>1, <2>1, <2>2, <2>3
<1> QED
  BY <1>2, <1>3, <1>4

-----------------------------------------------------------------------------
(* The steps. *)

\* Nothing is written and nothing is held.
LEMMA PacketInitSafe == PacketInit => PacketInv
<1> SUFFICES ASSUME PacketInit PROVE PacketInv
  OBVIOUS
<1>1. PacketTypeOK
  <2>1. {toWrite, wire, pending} \subseteq Seq(Cell) /\ published \in Seq(Seq(Cell))
    BY DEF PacketInit
  <2>2. Len(wire) <= PipeRoom /\ Fits(pending)
    BY Sizes DEF PacketInit, Fits
  <2>3. {discarded, leftover} \subseteq BOOLEAN
    BY Zenon DEF PacketInit
  <2>4. /\ platform \in Platforms /\ conn \in {"up", "hungup", "down"}
        /\ written \in 0 .. Packets /\ first \in 1 .. Packets + 1 /\ sessions \in 0 .. ConnectLimit
    BY Sizes DEF PacketInit
  <2> QED
    BY <2>1, <2>2, <2>3, <2>4, Zenon DEF PacketTypeOK
<1>2. Size = 0 /\ published = <<>> /\ DOMAIN Stream = {}
  BY DEF PacketInit, Stream, Size
<1>3. Ordered
  BY <1>2 DEF Ordered, OfPackets, Ascends, Unbroken, Behind, InOrder
<1> QED
  BY <1>1, <1>2, <1>3 DEF PacketInit, PacketInv, DownIsEmpty, EndsWhole, NoneMissing

\* connect: the stream goes on with what the receiver kept.
LEMMA ConnectSafe == PacketInv /\ Connect => PacketInv'
<1> SUFFICES ASSUME PacketInv, Connect PROVE PacketInv'
  OBVIOUS
<1>1. /\ UNCHANGED <<platform, written, published, pending, wire, toWrite>>
      /\ conn = "down" /\ conn' = "up" /\ (leftover => leftover')
  BY DEF Connect
<1>2. Size' = Size /\ Stream' = Stream
  BY <1>1 DEF Size, Stream
<1>3. PacketTypeOK'
  <2>1. leftover' \in BOOLEAN
    BY Zenon DEF Connect
  <2>2. /\ {toWrite, wire, pending}' \subseteq Seq(Cell) /\ published' \in Seq(Seq(Cell))
        /\ Len(wire') <= PipeRoom /\ Fits(pending)' /\ platform' \in Platforms
        /\ conn' \in {"up", "hungup", "down"} /\ written' \in 0 .. Packets /\ discarded' \in BOOLEAN
    BY DEF PacketInv, PacketTypeOK, Connect, Fits
  <2>3. sessions' \in 0 .. ConnectLimit /\ first' \in 1 .. Packets + 1
    BY Sizes DEF PacketInv, PacketTypeOK, Connect
  <2> QED
    BY <2>1, <2>2, <2>3, Zenon DEF PacketTypeOK
<1>4. Ordered'
  <2>1. \A i \in 1 .. Size' : i + 0 \in 1 .. Size /\ Stream'[i] = Stream[i + 0]
    BY <1>2, Lengths DEF PacketInv
  <2> QED
    BY <1>1, <1>3, <2>1, PartKept DEF PacketInv
<1>5. ~Leftovers' => Size' = 0
  <2>1. ~Leftovers' => pending = <<>>
    BY DEF PacketInv, DownIsEmpty, Connect, Leftovers, KeepsPending
  <2> QED
    BY <1>1, <1>2, <2>1 DEF PacketInv, DownIsEmpty, Size
<1>6. \A p : p \notin first' .. written'
  <2>1. first' = written' + 1 /\ written' \in Nat
    BY Sizes DEF Connect, PacketInv, PacketTypeOK
  <2> QED
    BY <2>1
<1>7. NoneMissing'
  BY <1>5, <1>6, Zenon DEF NoneMissing
<1> QED
  BY <1>1, <1>3, <1>4, <1>5, <1>7 DEF PacketInv, DownIsEmpty, EndsWhole

\* disconnect: the stream loses its end.
LEMMA HangUpSafe == PacketInv /\ HangUp => PacketInv'
<1> SUFFICES ASSUME PacketInv, HangUp PROVE PacketInv'
  OBVIOUS
<1>1. /\ toWrite' = <<>> /\ conn' = "hungup"
      /\ UNCHANGED <<platform, written, wire, pending, published, sessions, discarded,
                      first, leftover>>
  BY DEF HangUp
<1>2. PacketTypeOK'
  <2>1. toWrite' \in Seq(Cell)
    BY <1>1
  <2> QED
    BY <1>1, <2>1, Zenon DEF PacketInv, PacketTypeOK, Fits
<1>3. \A i \in 1 .. Size' : i + 0 \in 1 .. Size /\ Stream'[i] = Stream[i + 0]
  BY <1>1, Lengths DEF PacketInv, Size, Stream
<1>4. Ordered'
  BY <1>1, <1>2, <1>3, PartKept DEF PacketInv
<1> QED
  BY <1>1, <1>2, <1>4 DEF PacketInv, DownIsEmpty, EndsWhole, NoneMissing

\* write_all_to_pipe: cells move into the pipe.
LEMMA WritePieceSafe == \A n \in 1 .. PipeRoom : PacketInv /\ WritePiece(n) => PacketInv'
<1> SUFFICES ASSUME NEW n \in 1 .. PipeRoom, PacketInv, WritePiece(n) PROVE PacketInv'
  OBVIOUS
<1> DEFINE lp == Len(pending)
           lw == Len(wire)
           lt == Len(toWrite)
<1>0. /\ wire' = wire \o SubSeq(toWrite, 1, n)
      /\ toWrite' = SubSeq(toWrite, n + 1, Len(toWrite))
  BY DEF WritePiece
<1>1. /\ conn = "up" /\ n <= lt /\ lw + n <= PipeRoom
      /\ UNCHANGED <<platform, conn, written, pending, published, sessions, discarded,
                      first, leftover>>
  BY DEF WritePiece
<1>2. toWrite \in Seq(Cell) /\ wire \in Seq(Cell) /\ n \in 0 .. Len(toWrite)
  BY <1>1, Sizes, Lengths DEF PacketInv
<1>3. /\ wire' \in Seq(Cell) /\ Len(wire') = lw + n
      /\ toWrite' \in Seq(Cell) /\ Len(toWrite') = lt - n
      /\ \A i \in 1 .. lw : wire'[i] = wire[i]
      /\ \A i \in 1 .. n : wire'[lw + i] = toWrite[i]
      /\ \A i \in 1 .. lt - n : toWrite'[i] = toWrite[i + n]
  BY <1>0, <1>2, PieceAt
<1>4. PacketTypeOK'
  <2>1. Len(wire') <= PipeRoom
    BY <1>1, <1>3
  <2> QED
    BY <1>1, <1>3, <2>1, Zenon DEF PacketInv, PacketTypeOK, Fits
<1>5. lp \in Nat /\ lw \in Nat /\ lt \in Nat /\ n \in Nat /\ Size = lp + lw + lt /\ Size' = Size
  BY <1>1, <1>2, <1>3, Lengths DEF PacketInv, Size
<1>6. ASSUME NEW i \in 1 .. Size PROVE Stream'[i] = Stream[i]
  <2>1. Stream'[i] = IF i <= lp THEN pending[i]
                     ELSE IF i <= lp + lw + n THEN wire'[i - lp] ELSE toWrite'[i - lp - lw - n]
    BY <1>1, <1>3, <1>5 DEF Stream
  <2>2. CASE i <= lp
    BY <1>5, <2>1, <2>2 DEF Stream
  <2>3. CASE i > lp /\ i <= lp + lw
    <3>1. i - lp \in 1 .. lw
      BY <1>5, <2>3
    <3> QED
      BY <1>3, <1>5, <2>1, <2>3, <3>1 DEF Stream
  <2>4. CASE i > lp + lw /\ i <= lp + lw + n
    <3>1. i - lp - lw \in 1 .. n /\ i - lp = lw + (i - lp - lw)
      BY <1>5, <2>4
    <3>2. wire'[i - lp] = toWrite[i - lp - lw]
      BY <1>3, <3>1
    <3> QED
      BY <1>5, <2>1, <2>4, <3>2 DEF Stream
  <2>5. CASE i > lp + lw + n
    <3>1. i - lp - lw - n \in 1 .. lt - n /\ i - lp - lw = (i - lp - lw - n) + n
      BY <1>5, <2>5
    <3>2. toWrite'[i - lp - lw - n] = toWrite[i - lp - lw]
      BY <1>3, <3>1
    <3> QED
      BY <1>5, <2>1, <2>5, <3>2 DEF Stream
  <2> QED
    BY <1>5, <2>2, <2>3, <2>4, <2>5
<1>7. Stream' = Stream
  BY <1>5, <1>6 DEF Stream
<1>8. Ordered'
  <2>1. \A i \in 1 .. Size' : i + 0 \in 1 .. Size /\ Stream'[i] = Stream[i + 0]
    BY <1>5, <1>6
  <2> QED
    BY <1>1, <1>4, <2>1, PartKept DEF PacketInv
<1>9. DownIsEmpty' /\ EndsWhole' /\ NoneMissing'
  BY <1>1, <1>5, <1>7, Zenon DEF PacketInv, DownIsEmpty, EndsWhole, NoneMissing, Leftovers, KeepsPending
<1> QED
  BY <1>4, <1>8, <1>9 DEF PacketInv

\* A packet is put behind everything.
LEMMA PacketCells ==
  ASSUME NEW p \in 1 .. Packets
  PROVE  /\ Packet(p) \in Seq(Cell) /\ Len(Packet(p)) = Length(p)
         /\ \A i \in 1 .. Length(p) : Packet(p)[i] = <<p, i>>
<1>1. Length(p) \in Nat /\ Packet(p) = [i \in 1 .. Length(p) |-> <<p, i>>]
  BY Sizes DEF Packet, Length
<1>2. \A i \in 1 .. Length(p) : <<p, i>> \in Cell
  BY <1>1 DEF Cell
<1> QED
  BY <1>1, <1>2

\* write_frame: a packet follows the one before it.
LEMMA WriteFrameSafe == PacketInv /\ WriteFrame => PacketInv'
<1> SUFFICES ASSUME PacketInv, WriteFrame PROVE PacketInv'
  OBVIOUS
<1> DEFINE q == written + 1
           k == Size
<1>1. /\ conn = "up" /\ toWrite = <<>> /\ written < Packets
      /\ written' = q /\ toWrite' = Packet(q)
      /\ UNCHANGED <<platform, conn, wire, pending, published, sessions, discarded,
                      first, leftover>>
  BY DEF WriteFrame
<1>2. /\ q \in 1 .. Packets /\ written \in Nat /\ k \in Nat
      /\ Len(pending) \in Nat /\ Len(wire) \in Nat /\ k = Len(pending) + Len(wire)
  BY <1>1, Sizes, Lengths DEF PacketInv, Size
<1>3. /\ toWrite' \in Seq(Cell) /\ Len(toWrite') = Length(q) /\ Length(q) \in Nat /\ Length(q) >= 1
      /\ \A i \in 1 .. Length(q) : toWrite'[i] = <<q, i>>
  <2>1. Length(q) \in Nat /\ Length(q) >= 1
    BY <1>2, Sizes
  <2>2. /\ Packet(q) \in Seq(Cell) /\ Len(Packet(q)) = Length(q)
        /\ \A i \in 1 .. Length(q) : Packet(q)[i] = <<q, i>>
    BY <1>2, PacketCells
  <2> QED
    BY <1>1, <2>1, <2>2, Zenon
<1>4. PacketTypeOK'
  <2>1. written' \in 0 .. Packets
    BY <1>1, <1>2, Sizes
  <2> QED
    BY <1>1, <1>3, <2>1, Zenon DEF PacketInv, PacketTypeOK, Fits
<1>5. Size' = k + Length(q) /\ DOMAIN Stream' = 1 .. Size' /\ DOMAIN Stream = 1 .. k
  BY <1>1, <1>2, <1>3 DEF Size, Stream
<1>6. \A i \in 1 .. k : Stream'[i] = Stream[i] /\ i \in 1 .. Size'
  BY <1>1, <1>2, <1>3, <1>5 DEF Stream
<1>7. \A i \in 1 .. Length(q) : Stream'[k + i] = <<q, i>> /\ k + i \in 1 .. Size'
  BY <1>1, <1>2, <1>3, <1>5 DEF Stream
<1>8. ASSUME NEW i \in 1 .. Size'
      PROVE  i \in 1 .. k \/ (i - k \in 1 .. Length(q) /\ i = k + (i - k))
  BY <1>2, <1>3, <1>5, <1>8
<1>9. /\ \A i \in 1 .. k : Stream[i][1] \in 1 .. written /\ Stream[i][2] \in 1 .. Length(Stream[i][1])
      /\ \A i, j \in 1 .. k : i < j => Before(Stream[i], Stream[j])
  BY <1>5 DEF PacketInv, Ordered, OfPackets, Ascends
<1>10. OfPackets(Stream', written')
  <2> SUFFICES ASSUME NEW i \in 1 .. Size'
               PROVE  Stream'[i][1] \in 1 .. q /\ Stream'[i][2] \in 1 .. Length(Stream'[i][1])
    BY <1>1, <1>5 DEF OfPackets
  <2>1. CASE i \in 1 .. k
    BY <1>2, <1>6, <1>9, <2>1
  <2>2. CASE i - k \in 1 .. Length(q) /\ i = k + (i - k)
    <3>1. Stream'[i] = <<q, i - k>>
      BY <1>7, <2>2
    <3> QED
      BY <1>2, <2>2, <3>1
  <2> QED
    BY <1>8, <2>1, <2>2
<1>11. Ascends(Stream')
  <2> SUFFICES ASSUME NEW i \in 1 .. Size', NEW j \in 1 .. Size', i < j
               PROVE  Before(Stream'[i], Stream'[j])
    BY <1>5 DEF Ascends
  <2>1. CASE i \in 1 .. k /\ j \in 1 .. k
    BY <1>6, <1>9, <2>1
  <2>2. CASE i \in 1 .. k /\ j - k \in 1 .. Length(q) /\ j = k + (j - k)
    <3>1. Stream'[i] = Stream[i] /\ Stream'[j] = <<q, j - k>>
      BY <1>6, <1>7, <2>2
    <3>2. Stream[i][1] \in 1 .. written
      BY <1>9, <2>2
    <3> QED
      BY <1>2, <3>1, <3>2 DEF Before
  <2>3. CASE /\ i - k \in 1 .. Length(q) /\ i = k + (i - k)
             /\ j - k \in 1 .. Length(q) /\ j = k + (j - k)
    <3>1. Stream'[i] = <<q, i - k>> /\ Stream'[j] = <<q, j - k>>
      BY <1>7, <2>3
    <3>2. i - k < j - k
      BY <1>2, <2>3
    <3> QED
      BY <3>1, <3>2 DEF Before
  <2>4. ~(j \in 1 .. k /\ i - k \in 1 .. Length(q))
    BY <1>2
  <2> QED
    BY <1>8, <2>1, <2>2, <2>3, <2>4
<1>12. Behind'
  <2> SUFFICES ASSUME NEW m \in DOMAIN published
               PROVE  /\ 1 \in DOMAIN published[m]
                      /\ published[m][1][1] \in 1 .. q /\ published[m][1][2] = 1
                      /\ \A i \in 1 .. Size' : Before(published[m][1], Stream'[i])
    BY <1>1, <1>5 DEF Behind
  <2>1. /\ 1 \in DOMAIN published[m]
        /\ published[m][1][1] \in 1 .. written /\ published[m][1][2] = 1
        /\ \A i \in 1 .. k : Before(published[m][1], Stream[i])
    BY <1>5 DEF PacketInv, Ordered, Behind
  <2>2. ASSUME NEW i \in 1 .. Size' PROVE Before(published[m][1], Stream'[i])
    <3>1. CASE i \in 1 .. k
      BY <1>6, <2>1, <3>1
    <3>2. CASE i - k \in 1 .. Length(q) /\ i = k + (i - k)
      <4>1. Stream'[i] = <<q, i - k>>
        BY <1>7, <3>2
      <4> QED
        BY <1>2, <2>1, <4>1 DEF Before
    <3> QED
      BY <1>8, <3>1, <3>2
  <2> QED
    BY <1>2, <2>1, <2>2
<1>13. ASSUME ~Leftovers'
       PROVE  Unbroken(Stream') /\ \A i \in DOMAIN published' : Whole(published'[i])
  <2>1. ~Leftovers
    BY <1>1, <1>13 DEF Leftovers, KeepsPending
  <2>2. Unbroken(Stream) /\ (k # 0 => Stream[k] = <<written, Length(written)>>)
    BY <1>1, <2>1 DEF PacketInv, Ordered, EndsWhole
  <2>3. ASSUME NEW i \in 1 .. Size', i + 1 \in 1 .. Size'
        PROVE  Follows(Stream'[i], Stream'[i + 1])
    <3>1. CASE i + 1 \in 1 .. k
      <4>1. i \in 1 .. k
        BY <1>2, <3>1
      <4>2. Follows(Stream[i], Stream[i + 1])
        BY <1>5, <2>2, <3>1, <4>1 DEF Unbroken
      <4> QED
        BY <1>6, <3>1, <4>1, <4>2
    <3>2. CASE i = k
      <4>1. Stream'[i] = <<written, Length(written)>>
        BY <1>6, <2>2, <3>2
      <4>2. Stream'[i + 1] = <<q, 1>>
        BY <1>3, <1>7, <3>2
      <4> QED
        BY <4>1, <4>2 DEF Follows
    <3>3. CASE i > k
      <4>1. /\ i - k \in 1 .. Length(q) /\ (i - k) + 1 \in 1 .. Length(q)
            /\ i = k + (i - k) /\ i + 1 = k + ((i - k) + 1)
        BY <1>2, <1>3, <1>5, <2>3, <3>3
      <4>2. Stream'[i] = <<q, i - k>> /\ Stream'[i + 1] = <<q, (i - k) + 1>>
        BY <1>7, <4>1
      <4>3. i - k < Length(q)
        BY <1>3, <4>1
      <4> QED
        BY <4>2, <4>3 DEF Follows
    <3> QED
      BY <1>2, <2>3, <3>1, <3>2, <3>3
  <2>4. \A i \in DOMAIN published' : Whole(published'[i])
    BY <1>1, <2>1, Zenon DEF PacketInv, Ordered, Whole
  <2> QED
    BY <1>5, <2>3, <2>4 DEF Unbroken
<1>14. Ordered'
  <2>1. InOrder'
    BY <1>1, Zenon DEF PacketInv, Ordered, InOrder
  <2> QED
    BY <1>10, <1>11, <1>12, <1>13, <2>1 DEF Ordered
<1>15. DownIsEmpty' /\ EndsWhole'
  <2>1. Stream'[Size'] = <<q, Length(q)>>
    BY <1>3, <1>5, <1>7
  <2> QED
    BY <1>1, <2>1 DEF DownIsEmpty, EndsWhole
<1>16. ASSUME ~discarded', ~Leftovers'
       PROVE  /\ Size' # 0 => Stream'[1][2] = 1
              /\ \A p \in first' .. written' :
                   \/ \E m \in DOMAIN published' : NumberOf(published'[m]) = p
                   \/ \E i \in DOMAIN Stream' : Stream'[i] = <<p, 1>>
  <2>1. /\ k # 0 => Stream[1][2] = 1
        /\ \A p \in first .. written :
             \/ \E m \in DOMAIN published : NumberOf(published[m]) = p
             \/ \E i \in DOMAIN Stream : Stream[i] = <<p, 1>>
    <3>1. conn = "up" /\ ~Leftovers
      BY <1>1, <1>16 DEF Leftovers, KeepsPending
    <3>2. ~discarded
      BY <1>1, <1>16, Zenon
    <3> QED
      BY <3>1, <3>2 DEF PacketInv, NoneMissing
  <2>2. Stream'[1][2] = 1
    <3>1. CASE k = 0
      <4>1. Stream'[1] = <<q, 1>>
        BY <1>3, <1>7, <3>1
      <4> QED
        BY <4>1
    <3>2. CASE k # 0
      BY <1>2, <1>6, <2>1, <3>2
    <3> QED
      BY <3>1, <3>2
  <2>3. ASSUME NEW p \in first' .. written'
        PROVE  \/ \E m \in DOMAIN published' : NumberOf(published'[m]) = p
               \/ \E i \in DOMAIN Stream' : Stream'[i] = <<p, 1>>
    <3>1. CASE p = q
      <4>1. Stream'[k + 1] = <<p, 1>> /\ k + 1 \in 1 .. Size'
        BY <1>3, <1>7, <3>1
      <4> QED
        BY <1>5, <4>1
    <3>2. CASE p # q
      <4>1. p \in first .. written
        BY <1>1, <1>2, <2>3, <3>2, Sizes DEF PacketInv, PacketTypeOK
      <4>2. \/ \E m \in DOMAIN published : NumberOf(published[m]) = p
            \/ \E i \in 1 .. k : Stream[i] = <<p, 1>>
        BY <1>5, <2>1, <4>1
      <4> QED
        BY <1>1, <1>5, <1>6, <4>2
    <3> QED
      BY <3>1, <3>2
  <2> QED
    BY <2>2, <2>3
<1>17. NoneMissing'
  BY <1>16, Zenon DEF NoneMissing
<1> QED
  BY <1>4, <1>14, <1>15, <1>17 DEF PacketInv

\* ProcessBytes drops a header that does not parse: with nothing discarded and
\* no leftovers there is none.
LEMMA SkipHeaderSafe == PacketInv /\ SkipHeader => PacketInv'
<1> SUFFICES ASSUME PacketInv, SkipHeader PROVE PacketInv'
  OBVIOUS
<1>1. /\ Len(pending) >= HeaderCells /\ ~HeaderParses /\ Drop(HeaderCells)
      /\ UNCHANGED <<platform, conn, written, toWrite, wire, published, sessions, discarded,
                      first, leftover>>
  BY DEF SkipHeader
<1>2. PacketTypeOK /\ HeaderCells \in 0 .. Len(pending) /\ UNCHANGED <<wire, toWrite>>
  BY <1>1, Sizes, Lengths DEF PacketInv
<1>3. /\ pending' \in Seq(Cell) /\ Len(pending') = Len(pending) - HeaderCells
      /\ Size' = Size - HeaderCells /\ Size' \in Nat
      /\ \A i \in 1 .. Size' : i + HeaderCells \in 1 .. Size /\ Stream'[i] = Stream[i + HeaderCells]
  BY <1>1, <1>2, Dropped
<1>4. PacketTypeOK'
  <2>1. Fits(pending)'
    <3>1. Fits(pending) /\ platform' = platform /\ Len(pending') <= Len(pending)
      BY <1>1, <1>2, <1>3, Sizes, Lengths DEF PacketTypeOK
    <3> QED
      BY <1>3, <3>1, Sizes, Lengths DEF Fits, PacketInv
  <2> QED
    BY <1>1, <1>3, <2>1, Zenon DEF PacketInv, PacketTypeOK
<1>5. Ordered'
  <2>1. leftover => leftover'
    BY <1>1
  <2>2. UNCHANGED <<platform, written, published>> /\ HeaderCells \in Nat
    BY <1>1, Sizes
  <2> QED
    BY <1>2, <1>3, <1>4, <2>1, <2>2, PartKept DEF PacketInv
<1>6. EndsWhole'
  <2>1. UNCHANGED <<platform, conn, written, leftover>> /\ HeaderCells \in Nat
    BY <1>1, Sizes
  <2> QED
    BY <1>2, <1>3, <2>1, EndKept DEF PacketInv
<1>7. DownIsEmpty'
  <2>1. pending # <<>>
    BY <1>1, <1>2, Sizes, Lengths
  <2> QED
    BY <1>1, <2>1, Zenon DEF PacketInv, DownIsEmpty, KeepsPending
<1>8. ~(conn = "up" /\ ~discarded /\ ~Leftovers)
  <2> SUFFICES ASSUME conn = "up", ~discarded, ~Leftovers PROVE FALSE
    OBVIOUS
  <2>1. Size # 0 /\ 1 \in 1 .. Len(pending) /\ Stream[1] = pending[1] /\ pending[1] \in Cell
    BY <1>1, <1>2, Sizes, Lengths
  <2>2. pending[1][2] = 1
    BY <2>1 DEF PacketInv, NoneMissing
  <2>3. pending[1][1] \in 1 .. Packets /\ pending[1] = <<pending[1][1], 1>>
    BY <2>1, <2>2 DEF Cell
  <2>4. Unbroken(Stream)
    BY DEF PacketInv, Ordered
  <2>5. HeaderParses
    BY <1>1, <1>2, <2>1, <2>3, <2>4, AtHeader
  <2> QED
    BY <1>1, <2>5
<1>9. NoneMissing'
  <2>1. conn' = conn /\ Leftovers' = Leftovers
    BY <1>1 DEF Leftovers, KeepsPending
  <2>2. discarded' = discarded
    BY <1>1, Zenon
  <2> QED
    BY <1>8, <2>1, <2>2, Zenon DEF NoneMissing
<1> QED
  BY <1>4, <1>5, <1>6, <1>7, <1>9 DEF PacketInv

\* The end of a connection: at most the receiver's part stays.
LEMMA CloseSafe == PacketInv /\ Close => PacketInv'
<1> SUFFICES ASSUME PacketInv, Close PROVE PacketInv'
  OBVIOUS
<1>1. /\ conn' = "down" /\ toWrite' = <<>> /\ wire' = <<>>
      /\ pending' = IF KeepsPending THEN pending ELSE <<>>
      /\ UNCHANGED <<platform, written, published, sessions, discarded, first, leftover>>
  BY DEF Close
<1>2. pending' = pending \/ pending' = <<>>
  BY <1>1
<1>3. PacketTypeOK'
  <2>1. /\ {toWrite, wire, pending}' \subseteq Seq(Cell) /\ Len(wire') <= PipeRoom
    BY <1>1, <1>2, Sizes, Lengths DEF PacketInv
  <2>2. Fits(pending)'
    BY <1>1, <1>2, Sizes DEF PacketInv, PacketTypeOK, Fits
  <2> QED
    BY <1>1, <2>1, <2>2, Zenon DEF PacketInv, PacketTypeOK
<1>4. \A i \in 1 .. Size' : i + 0 \in 1 .. Size /\ Stream'[i] = Stream[i + 0]
  <2>1. Size' = Len(pending')
    BY <1>1, <1>2, Lengths DEF PacketInv, Size
  <2>2. CASE pending' = pending
    BY <2>1, <2>2, Lengths DEF PacketInv, Stream, Size
  <2>3. CASE pending' = <<>>
    BY <2>1, <2>3
  <2> QED
    BY <1>2, <2>2, <2>3
<1>5. Ordered'
  <2>1. leftover => leftover'
    BY <1>1
  <2> QED
    BY <1>1, <1>3, <1>4, <2>1, PartKept DEF PacketInv
<1>6. DownIsEmpty'
  BY <1>1 DEF DownIsEmpty, KeepsPending
<1> QED
  BY <1>1, <1>3, <1>5, <1>6 DEF PacketInv, EndsWhole, NoneMissing

\* A read moves cells to the receiver, or drops them with all it held.
LEMMA ReadSafe == \A n \in 1 .. ReadSize : PacketInv /\ Read(n) => PacketInv'
<1> SUFFICES ASSUME NEW n \in 1 .. ReadSize, PacketInv, Read(n) PROVE PacketInv'
  OBVIOUS
<1> DEFINE held == pending \o SubSeq(wire, 1, n)
           lp == Len(pending)
           lw == Len(wire)
           lt == Len(toWrite)
<1>0. wire' = SubSeq(wire, n + 1, Len(wire))
  BY DEF Read
<1>1. /\ conn # "down" /\ n <= lw
      /\ UNCHANGED <<platform, conn, written, toWrite, published, sessions, first, leftover>>
  BY DEF Read
<1>2. \/ Fits(held) /\ pending' = held /\ UNCHANGED discarded
      \/ pending' = <<>> /\ discarded' = TRUE
  BY DEF Read
<1>3. /\ pending \in Seq(Cell) /\ wire \in Seq(Cell) /\ toWrite \in Seq(Cell) /\ n \in 0 .. Len(wire)
      /\ lp \in Nat /\ lw \in Nat /\ lt \in Nat /\ n \in Nat /\ Size = lp + lw + lt
  BY <1>1, Sizes, Lengths DEF PacketInv, Size
<1>4. PICK h : h = held
  OBVIOUS
<1>5. /\ h \in Seq(Cell) /\ Len(h) = lp + n
      /\ wire' \in Seq(Cell) /\ Len(wire') = lw - n
      /\ \A i \in 1 .. lp : h[i] = pending[i]
      /\ \A i \in 1 .. n : h[lp + i] = wire[i]
      /\ \A i \in 1 .. lw - n : wire'[i] = wire[i + n]
  <2>1. h = pending \o SubSeq(wire, 1, n)
    BY <1>4
  <2> QED
    BY <1>0, <1>3, <2>1, PieceAt
<1>6. \/ Fits(h) /\ pending' = h /\ UNCHANGED discarded
      \/ pending' = <<>> /\ discarded' = TRUE
  BY <1>2, <1>4, Zenon
<1> HIDE DEF held
<1>7. PacketTypeOK'
  <2>1. pending' \in Seq(Cell) /\ Len(wire') <= PipeRoom
    <3>1. pending' = h \/ pending' = <<>>
      BY <1>6
    <3>2. lw <= PipeRoom
      BY DEF PacketInv, PacketTypeOK
    <3>3. pending' \in Seq(Cell)
      <4>1. <<>> \in Seq(Cell) /\ h \in Seq(Cell)
        BY <1>5
      <4> QED
        BY <3>1, <4>1, Zenon
    <3>4. lw - n <= PipeRoom
      BY <1>3, <3>2, Sizes
    <3> QED
      BY <1>5, <3>3, <3>4, Zenon
  <2>2. Fits(pending)'
    <3>1. CASE Fits(h) /\ pending' = h
      BY <1>1, <3>1 DEF Fits
    <3>2. CASE pending' = <<>>
      BY <3>2, Sizes DEF Fits
    <3> QED
      BY <1>6, <3>1, <3>2
  <2>3. discarded' \in BOOLEAN
    BY <1>6, Zenon DEF PacketInv, PacketTypeOK
  <2> QED
    BY <1>1, <1>5, <2>1, <2>2, <2>3, Zenon DEF PacketInv, PacketTypeOK
<1>8. ASSUME Fits(h), pending' = h, UNCHANGED discarded
      PROVE  PacketInv'
  <2>1. Size' = Size /\ Len(pending') = lp + n
    <3>1. Len(pending') = lp + n
      BY <1>5, <1>8, Zenon
    <3> QED
      BY <1>1, <1>3, <1>5, <3>1 DEF Size
  <2>2. ASSUME NEW i \in 1 .. Size PROVE Stream'[i] = Stream[i]
    <3>1. Stream'[i] = IF i <= lp + n THEN h[i]
                       ELSE IF i <= lp + lw THEN wire'[i - lp - n] ELSE toWrite[i - lp - lw]
      <4>1. /\ (lp + n) + (lw - n) = lp + lw
            /\ \A j \in Nat : j - (lp + n) = j - lp - n
            /\ \A j \in Nat : j - (lp + n) - (lw - n) = j - lp - lw
        BY <1>3
      <4>2. i \in Nat /\ i \in 1 .. Size'
        BY <2>1, <1>3
      <4>3. Stream'[i] = IF i <= lp + n THEN h[i]
                         ELSE IF i <= (lp + n) + (lw - n) THEN wire'[i - (lp + n)]
                         ELSE toWrite[i - (lp + n) - (lw - n)]
        BY <1>1, <1>5, <1>8, <2>1, <4>2 DEF Stream
      <4> QED
        BY <1>3, <4>1, <4>2, <4>3
    <3>2. CASE i <= lp
      BY <1>3, <1>5, <3>1, <3>2 DEF Stream
    <3>3. CASE i > lp /\ i <= lp + n
      <4>1. i - lp \in 1 .. n /\ i = lp + (i - lp) /\ i <= lp + lw
        BY <1>3, <3>3
      <4>2. h[i] = wire[i - lp]
        BY <1>5, <4>1
      <4> QED
        BY <1>3, <3>1, <3>3, <4>1, <4>2 DEF Stream
    <3>4. CASE i > lp + n /\ i <= lp + lw
      <4>1. i - lp - n \in 1 .. lw - n /\ i - lp = (i - lp - n) + n
        BY <1>3, <3>4
      <4>2. wire'[i - lp - n] = wire[i - lp]
        BY <1>5, <4>1
      <4> QED
        BY <1>3, <3>1, <3>4, <4>2 DEF Stream
    <3>5. CASE i > lp + lw
      BY <1>3, <3>1, <3>5 DEF Stream
    <3> QED
      BY <1>3, <3>2, <3>3, <3>4, <3>5
  <2>3. Stream' = Stream
    BY <2>1, <2>2 DEF Stream
  <2>4. Ordered'
    <3>1. \A i \in 1 .. Size' : i + 0 \in 1 .. Size /\ Stream'[i] = Stream[i + 0]
      BY <1>3, <2>1, <2>2
    <3>2. leftover => leftover'
      BY <1>1
    <3> QED
      BY <1>1, <1>7, <3>1, <3>2, PartKept DEF PacketInv
  <2>5. DownIsEmpty'
    BY <1>1 DEF DownIsEmpty
  <2>6. EndsWhole' /\ NoneMissing'
    BY <1>1, <1>8, <2>1, <2>3, Zenon DEF PacketInv, EndsWhole, NoneMissing, Leftovers, KeepsPending
  <2> QED
    BY <1>7, <2>4, <2>5, <2>6 DEF PacketInv
<1>9. ASSUME pending' = <<>>, discarded' = TRUE
      PROVE  PacketInv'
  <2>1. Size' = Size - (lp + n) /\ Size' = (lw - n) + lt /\ Size' \in Nat
    <3>1. Len(pending') = 0
      BY <1>9
    <3> QED
      BY <1>1, <1>3, <1>5, <3>1 DEF Size
  <2>2. ASSUME NEW i \in 1 .. Size'
        PROVE  i + (lp + n) \in 1 .. Size /\ Stream'[i] = Stream[i + (lp + n)]
    <3>1. i + (lp + n) \in 1 .. Size
      BY <1>3, <2>1
    <3>2. Stream'[i] = IF i <= lw - n THEN wire'[i] ELSE toWrite[i - (lw - n)]
      <4>1. Len(pending') = 0 /\ toWrite' = toWrite /\ i \in Nat /\ \A j \in Nat : j - 0 = j
        BY <1>1, <1>9, <2>1
      <4>2. Stream'[i] = IF i <= Len(pending') THEN pending'[i]
                         ELSE IF i <= Len(pending') + Len(wire') THEN wire'[i - Len(pending')]
                         ELSE toWrite'[i - Len(pending') - Len(wire')]
        BY DEF Stream
      <4> QED
        BY <1>3, <1>5, <4>1, <4>2
    <3>3. CASE i <= lw - n
      <4>1. i \in 1 .. lw - n
        BY <1>3, <2>1, <3>3
      <4>2. \A j \in 1 .. lw - n : wire'[j] = wire[j + n]
        BY <1>5, Zenon
      <4>3. wire'[i] = wire[i + n]
        BY <4>1, <4>2
      <4>4. Stream[i + (lp + n)] = wire[(i + (lp + n)) - lp]
        BY <1>3, <3>1, <3>3 DEF Stream
      <4>5. (i + (lp + n)) - lp = i + n
        BY <1>3
      <4> QED
        BY <3>1, <3>2, <3>3, <4>3, <4>4, <4>5
    <3>4. CASE i > lw - n
      <4>1. Stream[i + (lp + n)] = toWrite[(i + (lp + n)) - lp - lw]
        BY <1>3, <3>1, <3>4 DEF Stream
      <4>2. (i + (lp + n)) - lp - lw = i - (lw - n)
        BY <1>3
      <4>3. Stream'[i] = toWrite[i - (lw - n)]
        BY <1>3, <3>2, <3>4
      <4> QED
        BY <3>1, <4>1, <4>2, <4>3
    <3> QED
      BY <1>3, <3>3, <3>4
  <2>3. lp + n \in Nat
    BY <1>3
  <2>4. Ordered'
    <3>1. leftover => leftover'
      BY <1>1
    <3> QED
      BY <1>1, <1>7, <2>2, <2>3, <3>1, PartKept DEF PacketInv
  <2>5. EndsWhole'
    BY <1>1, <2>1, <2>2, <2>3, EndKept DEF PacketInv
  <2>6. DownIsEmpty'
    BY <1>1 DEF DownIsEmpty
  <2>7. NoneMissing'
    BY <1>9, Zenon DEF NoneMissing
  <2> QED
    BY <1>7, <2>4, <2>5, <2>6, <2>7 DEF PacketInv
<1> QED
  BY <1>6, <1>8, <1>9

\* A picture is taken off the front, whole and later than every one before it.
LEMMA TakePacketSafe == PacketInv /\ TakePacket => PacketInv'
<1> SUFFICES ASSUME PacketInv, TakePacket PROVE PacketInv'
  OBVIOUS
<1> DEFINE A == Announced
           p == pending[1][1]
           m == Len(published)
<1>1. /\ HeaderParses /\ Len(pending) >= A
      /\ published' = Append(published, SubSeq(pending, 1, A))
      /\ Drop(A)
      /\ UNCHANGED <<platform, conn, written, toWrite, wire, sessions, discarded,
                      first, leftover>>
  BY DEF TakePacket, PacketComplete
<1>2. /\ p \in 1 .. Packets /\ pending[1] = <<p, 1>>
      /\ Len(pending) >= 1 /\ Stream[1] = <<p, 1>> /\ 1 \in 1 .. Size
      /\ A = Length(p) /\ A \in Nat /\ A >= 1 /\ A \in 0 .. Len(pending)
  <2>1. /\ p \in 1 .. Packets /\ pending[1] = <<p, 1>>
        /\ Len(pending) >= 1 /\ Stream[1] = pending[1] /\ 1 \in 1 .. Size
        /\ A = Length(p) /\ A \in Nat /\ A >= 1
    BY <1>1, ParsedHeader DEF PacketInv
  <2>2. A \in 0 .. Len(pending)
    BY <1>1, <2>1, Lengths DEF PacketInv
  <2> QED
    BY <2>1, <2>2
<1>3. /\ pending \in Seq(Cell) /\ Len(pending) \in Nat /\ Size \in Nat /\ DOMAIN Stream = 1 .. Size
      /\ \A i \in 1 .. Len(pending) : i \in 1 .. Size /\ Stream[i] = pending[i]
  BY Lengths DEF PacketInv
<1>4. PICK pic : pic = SubSeq(pending, 1, A)
  OBVIOUS
<1>5. pic \in Seq(Cell) /\ Len(pic) = A /\ \A i \in 1 .. A : pic[i] = pending[i]
  BY <1>2, <1>3, <1>4
<1>6. pic[1] = <<p, 1>> /\ DOMAIN pic = 1 .. A /\ 1 \in DOMAIN pic
  BY <1>2, <1>5
<1>7. published' = Append(published, pic) /\ published \in Seq(Seq(Cell)) /\ m \in Nat
  BY <1>1, <1>4 DEF PacketInv, PacketTypeOK
<1>8. /\ published' \in Seq(Seq(Cell)) /\ DOMAIN published = 1 .. m /\ DOMAIN published' = 1 .. m + 1
      /\ \A i \in 1 .. m : published'[i] = published[i]
      /\ published'[m + 1] = pic
  BY <1>5, <1>7
<1> HIDE DEF A, p, m
<1>9. /\ pending' \in Seq(Cell) /\ Len(pending') = Len(pending) - A
      /\ Size' = Size - A /\ Size' \in Nat
      /\ \A i \in 1 .. Size' : i + A \in 1 .. Size /\ Stream'[i] = Stream[i + A]
  <2>1. UNCHANGED <<wire, toWrite>>
    BY <1>1
  <2> QED
    BY <1>1, <1>2, <2>1, Dropped DEF PacketInv
<1>10. PacketTypeOK'
  <2>1. Fits(pending)'
    <3>1. Len(pending') <= Len(pending)
      BY <1>2, <1>3, <1>9
    <3>2. Fits(pending) /\ platform' = platform
      BY <1>1 DEF PacketInv, PacketTypeOK
    <3> QED
      BY <1>3, <1>9, <3>1, <3>2, Sizes DEF Fits
  <2> QED
    BY <1>1, <1>8, <1>9, <2>1, Zenon DEF PacketInv, PacketTypeOK
<1>11. DOMAIN Stream' = 1 .. Size' /\ DOMAIN Stream \subseteq Nat /\ DOMAIN Stream' \subseteq Nat
  BY <1>3, <1>9 DEF Stream
<1>12. /\ OfPackets(Stream', written') /\ Ascends(Stream')
       /\ Unbroken(Stream) => Unbroken(Stream')
  <2>1. \A i \in DOMAIN Stream' : i + A \in DOMAIN Stream /\ Stream'[i] = Stream[i + A]
    BY <1>3, <1>9, <1>11
  <2>2. /\ OfPackets(Stream, written) => OfPackets(Stream', written)
        /\ Ascends(Stream) => Ascends(Stream')
        /\ Unbroken(Stream) => Unbroken(Stream')
    BY <1>2, <1>11, <2>1, PartOf
  <2> QED
    BY <1>1, <2>2 DEF PacketInv, Ordered
\* The picture's header is before all that stays.
<1>13. ASSUME NEW i \in 1 .. Size' PROVE Before(<<p, 1>>, Stream'[i])
  <2>1. i + A \in 1 .. Size /\ 1 < i + A /\ Stream'[i] = Stream[i + A]
    BY <1>2, <1>9
  <2>2. Before(Stream[1], Stream[i + A])
    BY <1>2, <1>3, <2>1 DEF PacketInv, Ordered, Ascends
  <2> QED
    BY <1>2, <2>1, <2>2
<1>14. p \in 1 .. written
  BY <1>2, <1>3 DEF PacketInv, Ordered, OfPackets
<1>15. \A k \in 1 .. m : /\ 1 \in DOMAIN published[k]
                         /\ published[k][1][1] \in 1 .. written /\ published[k][1][2] = 1
                         /\ \A i \in 1 .. Size : Before(published[k][1], Stream[i])
  BY <1>3, <1>8 DEF PacketInv, Ordered, Behind
<1>16. Behind'
  <2> SUFFICES ASSUME NEW k \in 1 .. m + 1
               PROVE  /\ 1 \in DOMAIN published'[k]
                      /\ published'[k][1][1] \in 1 .. written /\ published'[k][1][2] = 1
                      /\ \A i \in 1 .. Size' : Before(published'[k][1], Stream'[i])
    BY <1>1, <1>8, <1>11 DEF Behind
  <2>1. CASE k \in 1 .. m
    <3>1. published'[k] = published[k]
      BY <1>8, <2>1
    <3>2. \A i \in 1 .. Size' : Before(published[k][1], Stream'[i])
      BY <1>9, <1>15, <2>1
    <3> QED
      BY <1>15, <2>1, <3>1, <3>2
  <2>2. CASE k = m + 1
    <3>1. published'[k] = pic
      BY <1>8, <2>2
    <3> QED
      BY <1>6, <1>13, <1>14, <3>1
  <2> QED
    BY <1>7, <2>1, <2>2 DEF m
<1>17. InOrder'
  <2> SUFFICES ASSUME NEW i \in 1 .. m + 1, NEW j \in 1 .. m + 1, i < j
               PROVE  published'[i][1][1] < published'[j][1][1]
    BY <1>8 DEF InOrder, NumberOf
  <2>1. i \in 1 .. m /\ m \in Nat
    BY <1>7 DEF m
  <2>2. CASE j \in 1 .. m
    BY <1>8, <2>1, <2>2 DEF PacketInv, Ordered, InOrder, NumberOf
  <2>3. CASE j = m + 1
    <3>1. published'[j][1] = <<p, 1>> /\ published'[i] = published[i]
      BY <1>6, <1>8, <2>1, <2>3
    <3>2. Before(published[i][1], <<p, 1>>) /\ published[i][1][2] = 1
      BY <1>2, <1>15, <2>1
    <3> QED
      BY <3>1, <3>2 DEF Before
  <2> QED
    BY <2>1, <2>2, <2>3
<1>18. ASSUME ~Leftovers
       PROVE  /\ Unbroken(Stream)
              /\ \A i \in 1 .. Len(pending) : i <= Length(p) => pending[i] = <<p, i>>
              /\ \A i \in 1 .. Size : i <= Length(p) => Stream[i] = <<p, i>>
  <2>1. Unbroken(Stream)
    BY <1>18 DEF PacketInv, Ordered
  <2> QED
    BY <1>2, <2>1, AtHeader DEF PacketInv
<1>19. ASSUME ~Leftovers PROVE pic = Packet(p)
  <2>1. /\ Packet(p) \in Seq(Cell) /\ Len(Packet(p)) = Length(p)
        /\ \A i \in 1 .. Length(p) : Packet(p)[i] = <<p, i>>
    BY <1>2, PacketCells
  <2>2. \A i \in 1 .. A : pic[i] = <<p, i>>
    BY <1>2, <1>3, <1>5, <1>18, <1>19
  <2>3. \A i \in 1 .. A : pic[i] = Packet(p)[i]
    BY <1>2, <2>1, <2>2
  <2>4. Len(pic) = Len(Packet(p)) /\ Len(pic) = A
    BY <1>2, <1>5, <2>1
  <2>5. \A i \in 1 .. Len(pic) : pic[i] = Packet(p)[i]
    BY <2>3, <2>4
  <2> QED
    BY <1>5, <2>1, <2>4, <2>5, SeqEqual
<1>20. UNCHANGED <<Leftovers, conn>>
  BY <1>1 DEF Leftovers, KeepsPending
<1>21. Ordered'
  <2>1. ASSUME ~Leftovers, NEW i \in 1 .. m + 1 PROVE Whole(published'[i])
    <3>1. CASE i \in 1 .. m
      <4>1. Whole(published[i]) /\ published'[i] = published[i]
        BY <1>8, <2>1, <3>1 DEF PacketInv, Ordered
      <4> QED
        BY <4>1, Zenon
    <3>2. CASE i = m + 1
      BY <1>2, <1>8, <1>19, <2>1, <3>2 DEF Whole
    <3> QED
      BY <1>7, <3>1, <3>2 DEF m
  <2>2. ~Leftovers => \A i \in DOMAIN published' : Whole(published'[i])
    BY <1>8, <2>1
  <2>3. ~Leftovers => Unbroken(Stream')
    BY <1>12, <1>18
  <2>4. (\A i \in DOMAIN published : Whole(published[i]))' <=>
        \A i \in DOMAIN published' : Whole(published'[i])
    BY Zenon DEF Whole
  <2> QED
    BY <1>12, <1>16, <1>17, <1>20, <2>2, <2>3, <2>4 DEF Ordered
<1>22. EndsWhole'
  <2>1. UNCHANGED <<platform, conn, written, leftover>>
    BY <1>1
  <2> QED
    BY <1>2, <1>9, <2>1, EndKept DEF PacketInv
<1>23. DownIsEmpty'
  <2>1. pending # <<>>
    BY <1>2, <1>3
  <2> QED
    BY <1>1, <2>1, Zenon DEF PacketInv, DownIsEmpty, KeepsPending
<1>24. ASSUME conn = "up", ~discarded, ~Leftovers
       PROVE  /\ Size' # 0 => Stream'[1][2] = 1
              /\ \A q \in first .. written :
                   \/ \E k \in 1 .. m + 1 : published'[k][1][1] = q
                   \/ \E i \in 1 .. Size' : Stream'[i] = <<q, 1>>
  <2>1. ASSUME Size' # 0 PROVE Stream'[1][2] = 1
    <3>1. 1 + A \in 1 .. Size /\ Stream'[1] = Stream[1 + A]
      BY <1>9, <2>1
    <3>2. A \in 1 .. Size /\ A + 1 \in 1 .. Size /\ A + 1 = 1 + A
      BY <1>2, <1>3, <3>1
    <3>3. Stream[A] = <<p, Length(p)>>
      BY <1>2, <1>18, <1>24, <3>2
    <3>4. Follows(Stream[A], Stream[A + 1])
      BY <1>3, <1>18, <1>24, <3>2 DEF Unbroken
    <3>5. Stream[A + 1] = <<p + 1, 1>>
      BY <1>2, <3>3, <3>4 DEF Follows
    <3> QED
      BY <3>1, <3>2, <3>5
  <2>2. ASSUME NEW q \in first .. written
        PROVE  \/ \E k \in 1 .. m + 1 : published'[k][1][1] = q
               \/ \E i \in 1 .. Size' : Stream'[i] = <<q, 1>>
    <3>1. \/ \E k \in 1 .. m : published[k][1][1] = q
          \/ \E i \in 1 .. Size : Stream[i] = <<q, 1>>
      BY <1>3, <1>8, <1>24, <2>2 DEF PacketInv, NoneMissing, NumberOf
    <3>2. CASE \E k \in 1 .. m : published[k][1][1] = q
      BY <1>7, <1>8, <3>2 DEF m
    <3>3. ASSUME NEW i \in 1 .. Size, Stream[i] = <<q, 1>>
          PROVE  \/ \E k \in 1 .. m + 1 : published'[k][1][1] = q
                 \/ \E j \in 1 .. Size' : Stream'[j] = <<q, 1>>
      <4>1. CASE i <= A
        <5>1. <<q, 1>> = <<p, i>>
          BY <1>2, <1>18, <1>24, <3>3, <4>1
        <5>2. published'[m + 1][1][1] = q /\ m + 1 \in 1 .. m + 1
          BY <1>6, <1>7, <1>8, <5>1 DEF m
        <5> QED
          BY <5>2
      <4>2. CASE i > A
        <5>1. i - A \in 1 .. Size' /\ (i - A) + A = i
          BY <1>2, <1>3, <1>9, <4>2
        <5>2. Stream'[i - A] = <<q, 1>>
          BY <1>9, <3>3, <5>1
        <5> QED
          BY <5>1, <5>2
      <4> QED
        BY <1>2, <1>3, <4>1, <4>2
    <3> QED
      BY <3>1, <3>2, <3>3
  <2> QED
    BY <2>1, <2>2
<1>25. NoneMissing'
  <2>1. discarded' = discarded
    BY <1>1, Zenon
  <2>2. first' = first /\ written' = written
    BY <1>1
  <2> QED
    BY <1>8, <1>11, <1>20, <1>24, <2>1, <2>2, Zenon DEF NoneMissing, NumberOf
<1> QED
  BY <1>10, <1>21, <1>22, <1>23, <1>25 DEF PacketInv

LEMMA PacketStutterSafe == PacketInv /\ UNCHANGED packetVars => PacketInv'
<1> SUFFICES ASSUME PacketInv, UNCHANGED packetVars PROVE PacketInv'
  OBVIOUS
<1>1. UNCHANGED <<platform, conn, written, toWrite, wire, pending, published, sessions,
                  discarded, first, leftover>>
  BY DEF packetVars
<1>2. UNCHANGED <<Size, Stream, Leftovers, KeepsPending, PacketTypeOK, InOrder>>
  BY <1>1, Zenon DEF Size, Stream, Leftovers, KeepsPending, PacketTypeOK, Fits, InOrder
<1> QED
  BY <1>1, <1>2, Zenon
     DEF PacketInv, Ordered, Behind, Whole, DownIsEmpty, EndsWhole, NoneMissing

LEMMA PacketNextSafe == PacketInv /\ [PacketNext]_packetVars => PacketInv'
<1> SUFFICES ASSUME PacketInv, [PacketNext]_packetVars PROVE PacketInv'
  OBVIOUS
<1>1. CASE Connect \/ WriteFrame \/ HangUp \/ TakePacket \/ SkipHeader \/ Close
  BY <1>1, ConnectSafe, WriteFrameSafe, HangUpSafe, TakePacketSafe, SkipHeaderSafe, CloseSafe
<1>2. CASE \E n \in 1 .. PipeRoom : WritePiece(n)
  BY <1>2, WritePieceSafe
<1>3. CASE \E n \in 1 .. ReadSize : Read(n)
  BY <1>3, ReadSafe
<1>4. CASE UNCHANGED packetVars
  BY <1>4, PacketStutterSafe
<1> QED
  BY <1>1, <1>2, <1>3, <1>4 DEF PacketNext

LEMMA StreamKept == PacketSpec => []PacketInv
<1> QED
  BY PacketInitSafe, PacketNextSafe, PTL DEF PacketSpec

\* Once all is read nothing is left of this connection's packets: a rest that
\* is no whole packet would have to end within one.
LEMMA SettledArrives == PacketInv => LostOnlyByLimitOrLeftovers
<1> SUFFICES ASSUME PacketInv, conn = "up", toWrite = <<>>, wire = <<>>, ~Looping,
                    ~discarded, ~Leftovers, written >= first
             PROVE  /\ pending = <<>>
                    /\ first .. written \subseteq {NumberOf(published[i]) : i \in DOMAIN published}
  BY DEF LostOnlyByLimitOrLeftovers, Settled, EveryPictureArrived
<1>1. /\ Size = Len(pending) /\ Len(pending) \in Nat /\ pending \in Seq(Cell) /\ DOMAIN Stream = 1 .. Size
      /\ \A i \in 1 .. Len(pending) : Stream[i] = pending[i] /\ pending[i] \in Cell
  BY Lengths DEF PacketInv, Size
<1>2. /\ Size # 0 => Stream[1][2] = 1 /\ Stream[Size] = <<written, Length(written)>>
      /\ \A p \in first .. written :
             \/ \E k \in DOMAIN published : NumberOf(published[k]) = p
             \/ \E i \in DOMAIN Stream : Stream[i] = <<p, 1>>
  BY DEF PacketInv, NoneMissing, EndsWhole
<1>3. Len(pending) = 0
  <2> SUFFICES ASSUME Len(pending) # 0 PROVE FALSE
    OBVIOUS
  <2>1. PICK p \in 1 .. Packets : pending[1] = <<p, 1>> /\ 1 \in 1 .. Len(pending)
    <3>1. 1 \in 1 .. Len(pending) /\ pending[1] \in Cell /\ pending[1][2] = 1
      BY <1>1, <1>2
    <3> QED
      BY <3>1 DEF Cell
  <2>2. Length(p) \in Nat /\ Length(p) >= HeaderCells /\ HeaderCells \in Nat
    BY Sizes
  <2>3. Unbroken(Stream) /\ Ascends(Stream)
    BY DEF PacketInv, Ordered
  <2>4. /\ \A i \in 1 .. Len(pending) : i <= Length(p) => pending[i] = <<p, i>>
        /\ Len(pending) >= HeaderCells => HeaderParses
    BY <1>1, <2>1, <2>3, AtHeader DEF PacketInv
  <2>5. CASE Len(pending) >= Length(p)
    <3>1. HeaderParses
      BY <1>1, <2>2, <2>4, <2>5
    <3>2. Announced = Length(p)
      BY <2>1 DEF Announced, Length
    <3> QED
      BY <2>5, <3>1, <3>2 DEF Looping, PacketComplete
  <2>6. CASE Len(pending) < Length(p)
    <3>1. pending[Len(pending)] = <<p, Len(pending)>>
      <4>1. Len(pending) \in 1 .. Len(pending) /\ Len(pending) <= Length(p)
        BY <1>1, <2>2, <2>6
      <4> QED
        BY <2>4, <4>1
    <3>2. pending[Len(pending)] = <<written, Length(written)>>
      BY <1>1, <1>2
    <3> QED
      BY <2>6, <3>1, <3>2
  <2> QED
    BY <1>1, <2>2, <2>5, <2>6
<1>4. pending = <<>>
  BY <1>1, <1>3
<1>5. ASSUME NEW p \in first .. written
      PROVE  p \in {NumberOf(published[i]) : i \in DOMAIN published}
  BY <1>1, <1>2, <1>3
<1> QED
  BY <1>4, <1>5

\* However write_frame's bytes are cut into pieces (write_all_to_pipe, the
\* reads of frame_receiver.cpp and IPCReceiver.swift), the pictures the receiver
\* hands on come in the order they were written, none twice, and each is one
\* packet, unless cells of an earlier connection stand in front.
THEOREM PicturesComeWhole == PacketSpec => []WholeAndInOrder
<1>1. PacketInv => WholeAndInOrder
  BY DEF PacketInv, Ordered, WholeAndInOrder
<1> QED
  BY <1>1, StreamKept, PTL

\* ProcessBytes holds no complete picture back and skips none: on an open
\* connection with all bytes read every picture arrived, unless the limit of
\* pending_bytes_ threw cells away or an earlier connection left some.
THEOREM NothingIsLost == PacketSpec => []LostOnlyByLimitOrLeftovers
<1> QED
  BY StreamKept, SettledArrives, PTL
=============================================================================
