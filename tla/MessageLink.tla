---------------------------- MODULE MessageLink ----------------------------
(***************************************************************************)
(* What a transport connection promises the two programs that hold its     *)
(* ends, whatever happens below: each direction is a queue, a failure keeps*)
(* a beginning of it, and nothing sent after a failure gets through.  So   *)
(* each end receives, in order and once, a beginning of what was sent.     *)
(***************************************************************************)
EXTENDS Naturals, Sequences

CONSTANTS End,          \* the two ends of the connection
          Peer(_),      \* the other end
          Payload       \* what the programs send

VARIABLES queue,   \* queue[e]: sent by e, not yet received by its peer
          lost     \* lost[e]: the direction from e has failed

Init == /\ queue = [e \in End |-> <<>>]
        /\ lost = [e \in End |-> FALSE]

Send(e, message) ==
    /\ queue' = IF lost[e] THEN queue
                           ELSE [queue EXCEPT ![e] = Append(@, message)]
    /\ UNCHANGED lost

Receive(e) ==
    /\ queue[Peer(e)] # <<>>
    /\ queue' = [queue EXCEPT ![Peer(e)] = Tail(@)]
    /\ UNCHANGED lost

Fail(directions) ==
    /\ lost' = [e \in End |-> lost[e] \/ e \in directions]
    /\ DOMAIN queue' = End
    /\ \A e \in directions :
          \E k \in 0 .. Len(queue[e]) : queue'[e] = SubSeq(queue[e], 1, k)
    /\ \A e \in End \ directions : queue'[e] = queue[e]

Next == \/ \E e \in End : Receive(e) \/ \E message \in Payload : Send(e, message)
        \/ \E directions \in SUBSET End : Fail(directions)

Spec == Init /\ [][Next]_<<queue, lost>>
=============================================================================
