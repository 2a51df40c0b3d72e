----------------------------- MODULE Connection -----------------------------
(***************************************************************************)
(* One connection: the TCB of the client and the TCB of the server, each   *)
(* driven by its own thread (run_tcp), the applications that feed them     *)
(* through the data_input channel, and the UDP network between them.       *)
(*                                                                         *)
(* One iteration of run_tcp takes one input or times out, and touches no   *)
(* state of another thread, so each iteration is one action.  A datagram   *)
(* in flight is in the `socket' field of the TCB that sent it.  UDP may    *)
(* deliver datagrams in any order, any number of times, or never.          *)
(***************************************************************************)
EXTENDS Tcb, SequencesExt

CONSTANTS
    Client, Server,     \* the two endpoints
    Stream,             \* Stream[e]: the bytes the application at e sends
    MaxSend,            \* the most bytes one TCBInput::Send carries
    InitialSeq,         \* seq_base of a new TCB: 1 in TCB::new
    Closers,            \* the endpoints whose application may close
    Duplicating,        \* TRUE: a datagram may be delivered more than once
    Lossy,              \* the kinds of datagram the network may lose
    MaxLosses           \* and how many of them: a bound of the instance

Endpoint == {Client, Server}

peer(e) == IF e = Client THEN Server ELSE Client

\* what a segment is for; every segment the program makes has one kind
Kind(seg) == CASE seg.flags = {} -> "DATA"
               [] seg.flags = {"SYN", "ACK"} -> "SYNACK"
               [] OTHER -> CHOOSE f \in Flag : seg.flags = {f}

(***************************************************************************)
(* The last conjunct says that a connection does not reuse a sequence      *)
(* number: 2^32 leaves room for 4 GB, and the model keeps old datagrams in *)
(* flight for ever, where the Internet forgets them.                       *)
(***************************************************************************)
ASSUME ConnectionAssumption ==
    /\ Client # Server
    /\ Stream \in [Endpoint -> Seq(Byte)]
    /\ MaxSend \in Nat \ {0}
    /\ InitialSeq \in [Endpoint -> SeqNum]
    /\ Closers \subseteq Endpoint
    /\ Duplicating \in BOOLEAN
    /\ Lossy \subseteq {"DATA", "SYN", "SYNACK", "ACK", "FIN"}
    /\ MaxLosses \in Nat
    /\ \A e \in Endpoint : Len(Stream[e]) + 2 * WINDOW_SIZE + 2 <= SEQ_SPACE

VARIABLES
    tcb,        \* tcb[e]: the TCB of endpoint e
    handed,     \* handed[e]: how many bytes of Stream[e] the TCB has taken
    losses      \* how many datagrams the network has lost

vars == <<tcb, handed, losses>>

TypeOK ==
    /\ tcb \in [Endpoint -> TCB]
    /\ handed \in [Endpoint -> Nat]
    /\ losses \in 0 .. MaxLosses
    /\ \A e \in Endpoint :
         /\ handed[e] <= Len(Stream[e])
         /\ Len(tcb[e].send_window) <= WINDOW_SIZE
         /\ tcb[e].dupe_acks < 3

Init ==
    /\ tcb = [e \in Endpoint |-> new(InitialSeq[e])]
    /\ handed = [e \in Endpoint |-> 0]
    /\ losses = 0

\* run_tcp is still in its loop
Running(e) == tcb[e].state \notin {"Closed", "Panicked"}

-----------------------------------------------------------------------------
(* Inputs from the application: each is one arm of handle_input_recv.      *)

\* run_client sends SendSyn first of all and once
SendSyn ==
    /\ tcb[Client].state = "Listen"
    /\ tcb' = [tcb EXCEPT ![Client] = send_syn(@)]
    /\ UNCHANGED <<handed, losses>>

Send(e) ==
    /\ Running(e)
    /\ \E n \in 1 .. min(MaxSend, Len(Stream[e]) - handed[e]) :
         /\ tcb' = [tcb EXCEPT ![e] = send(@, SubSeq(Stream[e], handed[e] + 1, handed[e] + n))]
         /\ handed' = [handed EXCEPT ![e] = @ + n]
    /\ UNCHANGED losses

\* run_client closes when it has its answer, run_server_tcb when it has no file
Close(e) ==
    /\ e \in Closers
    /\ tcb[e].state \in {"SynRecd", "Estab"}
    /\ tcb' = [tcb EXCEPT ![e] = send_close(@)]
    /\ UNCHANGED <<handed, losses>>

-----------------------------------------------------------------------------
(* The network and the clock.                                              *)

\* the receiving thread passes a datagram on, and the TCB handles it
Receive(e, seg) ==
    /\ Running(e)
    /\ seg \in tcb[peer(e)].socket
    /\ tcb' = [tcb EXCEPT
                 ![e] = handle_seg(@, seg),
                 ![peer(e)].socket = IF Duplicating THEN @ ELSE @ \ {seg}]
    /\ UNCHANGED <<handed, losses>>

\* no input came for TIMEOUT seconds
Timeout(e) ==
    /\ Running(e)
    /\ tcb' = [tcb EXCEPT ![e] = handle_resend(@)]
    /\ UNCHANGED <<handed, losses>>

Lose(e, seg) ==
    /\ seg \in tcb[e].socket
    /\ Kind(seg) \in Lossy
    /\ losses < MaxLosses
    /\ losses' = losses + 1
    /\ tcb' = [tcb EXCEPT ![e].socket = @ \ {seg}]
    /\ UNCHANGED handed

Next ==
    \/ SendSyn
    \/ \E e \in Endpoint :
         \/ Send(e)
         \/ Close(e)
         \/ Timeout(e)
         \/ \E seg \in tcb[peer(e)].socket : Receive(e, seg)
         \/ \E seg \in tcb[e].socket : Lose(e, seg)

Spec == Init /\ [][Next]_vars

\* where the stream of e starts in sequence numbers: its first byte follows the SYN
FirstSeq(e) == wrapping_add(InitialSeq[e], 1)

\* the sequence number of byte n of the stream of e, counted from 0
At(e, n) == wrapping_add(FirstSeq(e), n)

\* the datagrams of e, by what they are for
Syn(e)        == [make_seg EXCEPT !.flags = {"SYN"}, !.seq_num = InitialSeq[e]]
SynAck(e)     == [make_seg EXCEPT !.flags = {"SYN", "ACK"}, !.seq_num = InitialSeq[e],
                                  !.ack_num = FirstSeq(peer(e))]
PureAck(e, n) == [make_seg EXCEPT !.flags = {"ACK"}, !.ack_num = At(peer(e), n)]
Fin(seq)      == [make_seg EXCEPT !.flags = {"FIN"}, !.seq_num = seq]
Data(e, i, n) == [make_seg EXCEPT !.seq_num = At(e, i),
                                  !.payload = SubSeq(Stream[e], i + 1, i + n)]

\* every datagram that an endpoint ever sends is one of these
Genuine(e) ==
    LET size == Len(Stream[e])
    IN  {Syn(e), SynAck(e), Fin(InitialSeq[e])}
        \cup {PureAck(e, n) : n \in 0 .. Len(Stream[peer(e)])}
        \cup {Fin(At(e, n)) : n \in 0 .. size}
        \cup UNION {{Data(e, i, n) : n \in 1 .. min(MAX_PAYLOAD_SIZE, size - i)} :
                     i \in 0 .. size - 1}

(***************************************************************************)
(* The client program opens the connection, a TCB with nothing to do times *)
(* out (recv_timeout), and no datagram stays in flight for ever: it is     *)
(* lost or received (Duplicating is FALSE here, so receiving takes it      *)
(* out; said of the states because ENABLED Receive is slow to evaluate).   *)
(* Nothing obliges an application to send or close.                        *)
(***************************************************************************)
Fairness ==
    /\ WF_vars(SendSyn)
    /\ \A e \in Endpoint :
         /\ WF_vars(Timeout(e))
         /\ \A seg \in Genuine(peer(e)) :
              []<>(Running(e) => seg \notin tcb[peer(e)].socket)

LiveSpec == Spec /\ Fairness

-----------------------------------------------------------------------------
(* Safety.                                                                 *)

\* how many bytes of Stream[e] the TCB of e has seen acknowledged
Acked(e) == IF tcb[e].seq_base = InitialSeq[e] THEN 0
            ELSE wrapping_sub(tcb[e].seq_base, FirstSeq(e))

Delivered(e) == tcb[e].byte_output

(* The bytes handed to the application at e are a prefix of the bytes that *)
(* the application at the other end has sent: nothing is lost, repeated,   *)
(* reordered or made up, whatever the network does to the datagrams        *)
(* (handle_payload, tcp.rs 165-211).                                       *)
PrefixDelivered ==
    \A e \in Endpoint :
        IsPrefix(Delivered(e), Taken(Stream[peer(e)], handed[peer(e)]))

(* Neither `send_window.drain(..num_acked_bytes)' (tcp.rs 232) nor         *)
(* `recv_window[window_index_base + i]' (tcp.rs 174) is ever out of range: *)
(* the two windows of a connection stay aligned.                           *)
NoPanic == \A e \in Endpoint : tcb[e].state # "Panicked"

(* A byte leaves the send window only when the application at the other    *)
(* end has it, and what is acknowledged, in the window and in the buffer   *)
(* is together all that was handed over (tcp.rs 131-136, 227-233).         *)
NothingForgotten ==
    \A e \in Endpoint :
        /\ Acked(e) <= Len(Delivered(peer(e)))
        /\ tcb[e].send_window \o tcb[e].send_buffer
             = SubSeq(Stream[e], Acked(e) + 1, handed[e])

(* In Estab the queue of unacknowledged segments holds the send window and *)
(* nothing else, cut into consecutive pieces from seq_base on: every byte  *)
(* in flight can be sent again, and the segment a timeout sends is the     *)
(* oldest (tcp.rs 217-225, 303, 315).                                      *)
UnackedCoversWindow ==
    \A e \in Endpoint :
        LET t == tcb[e]
            segs == t.unacked_segs
            Place(k) == wrapping_sub(segs[k].seq_num, t.seq_base)
            After(k) == Place(k) + Len(segs[k].payload)
        IN  t.state = "Estab" =>
              /\ \A k \in DOMAIN segs :
                   /\ Place(k) = IF k = 1 THEN 0 ELSE After(k - 1)
                   /\ segs[k].payload = SubSeq(t.send_window, Place(k) + 1, After(k))
              /\ Len(t.send_window) = IF segs = << >> THEN 0 ELSE After(Len(segs))

(* A byte in the receive window is the byte of the peer's stream that      *)
(* belongs there, so that a gap is filled with the right data (tcp.rs      *)
(* 172-175), and the first slot is empty between steps: what can be        *)
(* delivered has been (tcp.rs 184-198).                                    *)
ReceiveWindowInStep ==
    \A e \in Endpoint : LET t == tcb[e] IN
        /\ t.recv_window[0] = None
        /\ \A i \in Slot : t.recv_window[i] # None =>
              /\ Len(t.byte_output) + i + 1 <= handed[peer(e)]
              /\ t.recv_window[i] = Stream[peer(e)][Len(t.byte_output) + i + 1]

(* The handshake leaves the two ends agreed on where both streams start:   *)
(* an established end knows the other's initial sequence number, and the   *)
(* other has left Listen (tcp.rs 252-287).                                 *)
HandshakeAgrees ==
    \A e \in Endpoint :
        tcb[e].state = "Estab" =>
            /\ tcb[peer(e)].state # "Listen"
            /\ tcb[e].ack_base = wrapping_add(FirstSeq(peer(e)), Len(Delivered(e)))
            /\ tcb[e].seq_base # InitialSeq[e]

(* Sequence numbers only move forward, and by no more than a window: an    *)
(* old or repeated ACK never takes seq_base back, an old segment never     *)
(* ack_base (tcp.rs 214-228, 195).                                         *)
WindowsMoveForward ==
    [][\A e \in Endpoint :
         /\ wrapping_sub(tcb'[e].seq_base, tcb[e].seq_base) <= WINDOW_SIZE
         /\ tcb[e].state = "Estab" =>
              wrapping_sub(tcb'[e].ack_base, tcb[e].ack_base) <= WINDOW_SIZE]_vars

(* An ACK that acknowledges something new is not a duplicate: only one     *)
(* that repeats an old number counts towards the "Triple Duplicate ACK!"   *)
(* of handle_acks (tcp.rs 238-249).                                        *)
OnlyDuplicatesCounted ==
    [][\A e \in Endpoint :
         tcb'[e].dupe_acks > tcb[e].dupe_acks => tcb'[e].seq_base = tcb[e].seq_base]_vars

(* The connection implements the byte stream: the abstract specification   *)
(* that an application relies on (TCBInput::Send and TCB::recv).           *)
Abstract == INSTANCE ByteStream WITH
    Other    <- [e \in Endpoint |-> peer(e)],
    taken    <- handed,
    received <- [e \in Endpoint |-> tcb[e].byte_output],
    open     <- [e \in Endpoint |-> Running(e)]

ImplementsByteStream == Abstract!Spec

-----------------------------------------------------------------------------
(* Liveness.                                                               *)

(* The handshake completes at both ends: a lost SYN or SYN-ACK is sent     *)
(* again on a timeout (tcp.rs 119-121, 302-307).                           *)
HandshakeCompletes ==
    tcb[Client].state = "SynSent" ~> \A e \in Endpoint : tcb[e].state = "Estab"

(* Once both ends are established, a byte that was handed over reaches the *)
(* other application: lost segments are sent again, the window slides, and *)
(* what waits in send_buffer gets its turn (tcp.rs 127-139, 213-234).      *)
EventuallyDelivered ==
    \A e \in Endpoint : \A n \in 1 .. Len(Stream[e]) :
        (handed[e] >= n /\ \A f \in Endpoint : tcb[f].state = "Estab")
            ~> Len(Delivered(peer(e))) >= n

(* When one end has closed, so does the other (tcp.rs 160-162, 294-300).   *)
CloseReachesPeer ==
    \A e \in Endpoint : tcb[e].state = "Closed" ~> tcb[peer(e)].state = "Closed"

=============================================================================
