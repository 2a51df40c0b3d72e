--------------------------- MODULE Retransmission ---------------------------
(***************************************************************************)
(* Why everything in flight can be sent again: an inductive invariant of   *)
(* Connection, on top of the one of Delivery.                              *)
(*                                                                         *)
(* The segments of a stream are cut once, in send_data, and sent again as  *)
(* they are.  The receiver takes a segment as a whole, so it acknowledges  *)
(* only where one segment ends and the next begins, and the queue of the   *)
(* sender, from which handle_acks takes whole segments, stays in step with *)
(* its window, from which it takes bytes.                                  *)
(***************************************************************************)
EXTENDS Delivery

\* where a data segment of e lies in its stream: from byte Place on, up to byte After
Place(e, seg) == wrapping_sub(seg.seq_num, FirstSeq(e))
After(e, seg) == Place(e, seg) + Len(seg.payload)

\* the queue cuts what is in the window into consecutive pieces
Consecutive(e, t) == LET q == t.unacked_segs IN
    /\ \A k \in 1 .. Len(q) :
         /\ q[k].payload # << >>
         /\ Place(e, q[k]) = IF k = 1 THEN AckedBy(e, t) ELSE After(e, q[k - 1])
    /\ SentBy(e, t) = IF Len(q) = 0 THEN AckedBy(e, t) ELSE After(e, q[Len(q)])

\* the places between segments, as far as they are not acknowledged
Cuts(e, t) == {AckedBy(e, t)} \cup {After(e, t.unacked_segs[k]) : k \in 1 .. Len(t.unacked_segs)}

\* a data segment in flight is old, or in the queue
InFlightQueued(e, t) ==
    \A seg \in t.socket :
        \/ seg.payload = << >>
        \/ After(e, seg) <= AckedBy(e, t)
        \/ \E k \in 1 .. Len(t.unacked_segs) : seg = t.unacked_segs[k]

\* before Estab the queue holds nothing but a SYN, until that is acknowledged
OnlySyn(e, t) ==
    /\ \A k \in 1 .. Len(t.unacked_segs) : t.unacked_segs[k].seq_num = InitialSeq[e]
    /\ t.seq_base # InitialSeq[e] => t.unacked_segs = << >>

QueueInStep(e, t) ==
    /\ Greeting(t) => OnlySyn(e, t)
    /\ t.state = "Estab" => Consecutive(e, t) /\ InFlightQueued(e, t)

\* the receiver, whose TCB is u, holds a segment of e's queue as a whole or not at all
WholeSegments(e, t, u) ==
    \A k \in 1 .. Len(t.unacked_segs) : \A i, j \in Slot :
        {Len(u.byte_output) + i, Len(u.byte_output) + j}
            \subseteq Place(e, t.unacked_segs[k]) .. After(e, t.unacked_segs[k]) - 1
        => (u.recv_window[i] = None <=> u.recv_window[j] = None)

\* an ACK of u in flight, or queued, acknowledges something old or up to a cut
AtCut(e, t, n) == n <= AckedBy(e, t) \/ n \in Cuts(e, t)

AcksAtCuts(e, t, u) ==
    \A n \in 0 .. Len(u.byte_output) :
        \/ PureAck(peer(e), n) \in u.socket
        \/ \E k \in 1 .. Len(u.unacked_segs) : u.unacked_segs[k] = PureAck(peer(e), n)
        => AtCut(e, t, n)

PeerInStep(e, t, u) ==
    t.state = "Estab" =>
        /\ Len(u.byte_output) \in Cuts(e, t)
        /\ WholeSegments(e, t, u)
        /\ AcksAtCuts(e, t, u)

(* Segments are cut once: the queue of an established end is its window in *)
(* pieces, old datagrams aside only these are in flight, and the other end *)
(* holds and acknowledges whole pieces only (tcp.rs 141-154, 213-234).     *)
CutInvariant ==
    \A e \in Endpoint :
        /\ QueueInStep(e, tcb[e])
        /\ PeerInStep(e, tcb[e], tcb[peer(e)])
=============================================================================
