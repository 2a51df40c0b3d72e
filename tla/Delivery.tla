------------------------------ MODULE Delivery ------------------------------
(***************************************************************************)
(* Why a connection delivers the right bytes: an inductive invariant of    *)
(* Connection.                                                             *)
(*                                                                         *)
(* It speaks of one endpoint e at a time, whose TCB is t, and of what e    *)
(* needs to know of its peer: how many bytes the peer has been given, and  *)
(* how many it has sent.  A step of e can only make those two grow.        *)
(***************************************************************************)
EXTENDS Connection

\* how many bytes of Stream[e] have been acknowledged, and how many sent
AckedBy(e, t) == IF t.seq_base = InitialSeq[e] THEN 0
                 ELSE wrapping_sub(t.seq_base, FirstSeq(e))
SentBy(e, t)  == AckedBy(e, t) + Len(t.send_window)

\* the handshake has not got as far as Estab
Greeting(t) == t.state \in {"Listen", "SynSent", "SynRecd"}

(***************************************************************************)
(* The datagrams e may have in flight or queued: each acknowledges only    *)
(* what e has been given, and holds only what e has sent; a FIN is the     *)
(* last thing.                                                             *)
(***************************************************************************)
Sound(e, t, seg) ==
    \/ seg = Syn(e)
    \/ seg = SynAck(e)
    \/ \E n \in 0 .. Len(t.byte_output) : seg = PureAck(e, n)
    \/ t.state = "Closed" /\ seg = Fin(t.seq_base)
    \/ \E i \in 0 .. SentBy(e, t) - 1 :
         \E n \in 1 .. min(MAX_PAYLOAD_SIZE, SentBy(e, t) - i) : seg = Data(e, i, n)

SoundOutput(e, t) ==
    /\ \A seg \in t.socket : Sound(e, t, seg)
    /\ \A k \in 1 .. Len(t.unacked_segs) : Sound(e, t, t.unacked_segs[k])

\* nothing is sent, acknowledged or delivered before Estab, and the numbers are set in it
Phase(e, t) ==
    /\ t.state # "Panicked"
    /\ Greeting(t) => AckedBy(e, t) = 0 /\ t.send_window = << >> /\ t.byte_output = << >>
    /\ t.state = "Listen" => t.seq_base = InitialSeq[e]
    /\ t.state = "Estab" => t.seq_base # InitialSeq[e]
    /\ t.state \in {"SynRecd", "Estab"} => t.ack_base = At(peer(e), Len(t.byte_output))

\* window and buffer hold the rest of the `given' bytes the application has handed over
SendSide(e, t, given) ==
    /\ SentBy(e, t) + Len(t.send_buffer) = given
    /\ \A i \in 1 .. Len(t.send_window) : t.send_window[i] = Stream[e][AckedBy(e, t) + i]
    /\ \A i \in 1 .. Len(t.send_buffer) : t.send_buffer[i] = Stream[e][SentBy(e, t) + i]

\* output and window hold bytes of the peer's stream, in their places, of the `sent' it has sent
HoldsStream(e, t, sent) ==
    /\ Len(t.byte_output) <= sent
    /\ \A i \in 1 .. Len(t.byte_output) : t.byte_output[i] = Stream[peer(e)][i]
    /\ \A i \in Slot : t.recv_window[i] # None =>
         /\ Len(t.byte_output) + i + 1 <= sent
         /\ t.recv_window[i] = Stream[peer(e)][Len(t.byte_output) + i + 1]

\* and what can be delivered has been
ReceiveSide(e, t, sent) ==
    /\ HoldsStream(e, t, sent)
    /\ t.recv_window[0] = None

\* e has handed over `given' bytes, its peer was given `got' bytes and has sent `sent'
InStep(e, t, given, got, sent) ==
    /\ Phase(e, t)
    /\ SoundOutput(e, t)
    /\ SendSide(e, t, given)
    /\ ReceiveSide(e, t, sent)
    /\ AckedBy(e, t) <= got
    /\ got <= SentBy(e, t)

\* nothing but a SYN goes out while one end still listens
Silence(e) ==
    LET t == tcb[peer(e)]
    IN  tcb[e].state = "Listen" =>
            /\ tcb[e].socket = {} /\ tcb[e].unacked_segs = << >>
            /\ t.state \in {"Listen", "SynSent"}
            /\ \A seg \in t.socket : seg = Syn(peer(e))
            /\ \A k \in 1 .. Len(t.unacked_segs) : t.unacked_segs[k] = Syn(peer(e))

(* Each end holds exactly the part of both streams that its sequence       *)
(* numbers say, and the numbers of the two ends fit: what one has seen     *)
(* acknowledged <= what the other was given <= what the one has sent, and  *)
(* no datagram in flight or queued says otherwise, closes and losses       *)
(* included (tcp.rs 127-154, 165-298).                                     *)
DeliveryInvariant ==
    \A e \in Endpoint :
        /\ InStep(e, tcb[e], handed[e],
                  Len(tcb[peer(e)].byte_output), SentBy(peer(e), tcb[peer(e)]))
        /\ Silence(e)
=============================================================================
