-------------------------------- MODULE Tcb ---------------------------------
(***************************************************************************)
(* One endpoint of a connection: struct TCB of tcp.rs and its handlers.    *)
(*                                                                         *)
(* A TCB is a record with the fields of the struct, and a handler is an    *)
(* operator from a TCB (and its argument) to the TCB it leaves behind.     *)
(* `socket' is the set of datagrams handed to send_to and still in flight, *)
(* and `byte_output' everything sent down the byte channel so far.         *)
(* A state "Panicked" is added to TCBState: the thread that runs the TCB   *)
(* has died of an out-of-range drain or index.  A handler that may panic   *)
(* leaves it behind, and nothing but the FIN test must then be guarded,    *)
(* because the other handlers act in named states only.                    *)
(*                                                                         *)
(* Left out: ports (a TCB has one peer), segment size and checksum (module *)
(* Wire has them), and the printing that is commented out.                 *)
(***************************************************************************)
EXTENDS Wrapping, Sequences, FiniteSets

CONSTANTS
    WINDOW_SIZE,        \* 65000 in the build
    MAX_PAYLOAD_SIZE,   \* 1500 in the build
    Byte,               \* the values of a byte
    None                \* the empty slot of the receive window

ASSUME WindowAssumption ==
    /\ WINDOW_SIZE \in Nat \ {0}
    /\ MAX_PAYLOAD_SIZE \in Nat \ {0}
    /\ 2 * WINDOW_SIZE <= SEQ_SPACE
    /\ None \notin Byte

TCBState == {"Listen", "SynSent", "SynRecd", "Estab", "Closed"}

Flag == {"SYN", "ACK", "FIN"}

Segment == [seq_num : SeqNum, ack_num : SeqNum,
            flags : SUBSET Flag, payload : Seq(Byte)]

Slot == 0 .. WINDOW_SIZE - 1

TCB == [state       : TCBState \cup {"Panicked"},
        socket      : SUBSET Segment,
        byte_output : Seq(Byte),
        send_buffer : Seq(Byte),
        send_window : Seq(Byte),
        recv_window : [Slot -> Byte \cup {None}],
        seq_base    : SeqNum,
        ack_base    : SeqNum,
        unacked_segs: Seq(Segment),
        dupe_acks   : Nat]

new(isn) == [state        |-> "Listen",
             socket       |-> {},
             byte_output  |-> << >>,
             send_buffer  |-> << >>,
             send_window  |-> << >>,
             recv_window  |-> [i \in Slot |-> None],
             seq_base     |-> isn,
             ack_base     |-> 1,
             unacked_segs |-> << >>,
             dupe_acks    |-> 0]

-----------------------------------------------------------------------------
(* Helpers for what the code takes from VecDeque and from std::cmp.        *)

min(a, b) == IF a <= b THEN a ELSE b

Least(S) == CHOOSE n \in S : \A m \in S : n <= m

\* VecDeque::drain(..n): what is left, and what is taken out
Dropped(s, n) == SubSeq(s, n + 1, Len(s))
Taken(s, n)   == SubSeq(s, 1, n)

-----------------------------------------------------------------------------
(* Sending a segment.                                                      *)

make_seg == [seq_num |-> 0, ack_num |-> 0, flags |-> {}, payload |-> << >>]

resend_seg(t, seg) == [t EXCEPT !.socket = @ \cup {seg}]

send_ack(t, seg) == resend_seg(t, seg)

send_seg(t, seg) ==
    [resend_seg(t, seg) EXCEPT !.unacked_segs = Append(@, seg)]

\* the oldest unacknowledged segment goes out again
Estab_handle_resend(t) ==
    IF t.unacked_segs = << >> \/ t.state # "Estab" THEN t
    ELSE resend_seg(t, Head(t.unacked_segs))
handle_resend(t) ==
    IF t.unacked_segs = << >> THEN t ELSE resend_seg(t, Head(t.unacked_segs))

send_syn(t) ==
    [send_seg(t, [make_seg EXCEPT !.flags = {"SYN"}, !.seq_num = t.seq_base])
        EXCEPT !.state = "SynSent"]

Silent_send_close(t) == [t EXCEPT !.state = "Closed"]
send_close(t) ==
    [send_seg(t, [make_seg EXCEPT !.flags = {"FIN"}, !.seq_num = t.seq_base])
        EXCEPT !.state = "Closed"]

-----------------------------------------------------------------------------
(* Sending data.                                                           *)

\* the number of segments that `size' bytes are cut into
SegmentsFor(size) == Least({k \in 0 .. size : k * MAX_PAYLOAD_SIZE >= size})

send_data(t, data, next_seq) ==
    LET sent(k) == (k - 1) * MAX_PAYLOAD_SIZE
        segs == [k \in 1 .. SegmentsFor(Len(data)) |->
                   [make_seg EXCEPT
                      !.seq_num = wrapping_add(next_seq, sent(k)),
                      !.payload = SubSeq(data, sent(k) + 1,
                                         min(sent(k) + MAX_PAYLOAD_SIZE, Len(data)))]]
    IN  [t EXCEPT !.socket = @ \cup {segs[k] : k \in DOMAIN segs},
                  !.unacked_segs = @ \o segs]

\* how much of the buffer the window has room for
Unbounded_send_amt(t) == Len(t.send_buffer)
send_amt(t) == min(Len(t.send_buffer), WINDOW_SIZE - Len(t.send_window))

fill_send_window(t) ==
    LET data_to_send == Taken(t.send_buffer, send_amt(t))
    IN  IF t.state # "Estab" THEN t
        ELSE send_data([t EXCEPT !.send_window = @ \o data_to_send,
                                 !.send_buffer = Dropped(@, send_amt(t))],
                       data_to_send,
                       wrapping_add(t.seq_base, Len(t.send_window)))

\* TCBInput::Send
send(t, data) == fill_send_window([t EXCEPT !.send_buffer = @ \o data])

-----------------------------------------------------------------------------
(* Receiving a segment: handle_seg and the four handlers it calls.         *)

\* the segments at or after ack_num stay queued
After_StillUnacked(ack_num, seg) ==
    in_wrapped_range(wrapping_add(ack_num, 1), wrapping_add(ack_num, WINDOW_SIZE), seg.seq_num)
StillUnacked(ack_num, seg) ==
    in_wrapped_range(ack_num, wrapping_add(ack_num, WINDOW_SIZE), seg.seq_num)

\* unacked_segs.retain: the segments still unacknowledged, in their order
retain_unacked(segs, ack_num) ==
    LET kept == {i \in DOMAIN segs : StillUnacked(ack_num, segs[i])}
        Rank(i) == Cardinality({j \in kept : j <= i})
    IN  [k \in 1 .. Cardinality(kept) |-> segs[CHOOSE i \in kept : Rank(i) = k]]

\* an ACK that falls in the send window
Unchecked_new_ack(t, seg) == "ACK" \in seg.flags
new_ack(t, seg) ==
    LET ack_lb == wrapping_add(t.seq_base, 1)
    IN  /\ "ACK" \in seg.flags
        /\ in_wrapped_range(ack_lb, wrapping_add(ack_lb, WINDOW_SIZE), seg.ack_num)

\* handle_acks, its first half: the send window moves up to ack_num
accept_ack(t, seg) ==
    LET num_acked_bytes == wrapping_sub(seg.ack_num, t.seq_base)
        acked == [t EXCEPT
                    !.unacked_segs = retain_unacked(@, seg.ack_num),
                    !.seq_base = seg.ack_num]
    IN  CASE ~ new_ack(t, seg) -> t
          [] new_ack(t, seg) /\ t.state # "Estab" -> acked
          [] new_ack(t, seg) /\ t.state = "Estab" /\ num_acked_bytes > Len(t.send_window) ->
               [acked EXCEPT !.state = "Panicked"]
          [] OTHER ->
               fill_send_window([acked EXCEPT !.send_window = Dropped(@, num_acked_bytes)])

\* handle_acks, its second half: three "duplicates" resend the oldest segment
count_dupe_ack(t, seg) ==
    LET dupe_ack_lb == wrapping_sub(t.seq_base, WINDOW_SIZE - 1)
        dupe == /\ t.state = "Estab"
                /\ "ACK" \in seg.flags
                /\ in_wrapped_range(dupe_ack_lb, wrapping_add(dupe_ack_lb, WINDOW_SIZE), seg.seq_num)
    IN  CASE ~ dupe -> t
          [] dupe /\ t.dupe_acks + 1 >= 3 -> [handle_resend(t) EXCEPT !.dupe_acks = 0]
          [] OTHER -> [t EXCEPT !.dupe_acks = @ + 1]

handle_acks(t, seg) == count_dupe_ack(accept_ack(t, seg), seg)

\* the sequence number that follows a SYN
At_peer_next(seg) == seg.seq_num
peer_next(seg) == wrapping_add(seg.seq_num, 1)

handle_shake(t, seg) ==
    LET synack == [make_seg EXCEPT !.flags = {"SYN", "ACK"},
                                   !.seq_num = t.seq_base, !.ack_num = peer_next(seg)]
        ack == [make_seg EXCEPT !.flags = {"ACK"}, !.ack_num = peer_next(seg)]
    IN  CASE t.state = "Listen" /\ "SYN" \in seg.flags ->
               send_seg([t EXCEPT !.state = "SynRecd", !.ack_base = peer_next(seg)], synack)
          [] t.state = "SynSent" /\ {"SYN", "ACK"} \subseteq seg.flags ->
               fill_send_window(
                 send_ack([t EXCEPT !.state = "Estab", !.ack_base = peer_next(seg)], ack))
          [] t.state = "SynRecd" /\ "ACK" \in seg.flags ->
               fill_send_window([t EXCEPT !.state = "Estab"])
          [] OTHER -> t

\* the leading slots of the receive window that are filled
FilledPrefix(window) ==
    Least({n \in 0 .. WINDOW_SIZE : n = WINDOW_SIZE \/ window[n] = None})

\* where the payload of a segment goes in the receive window
Shifted_window_index_base(t, seg) == wrapping_sub(seg.seq_num, t.ack_base) + 1
window_index_base(t, seg) == wrapping_sub(seg.seq_num, t.ack_base)

\* n times pop_front, push_back(None)
Stale_slide(window, n) == [i \in Slot |-> IF i + n \in Slot THEN window[i + n] ELSE window[i]]
slide(window, n) == [i \in Slot |-> IF i + n \in Slot THEN window[i + n] ELSE None]

\* the loop of handle_payload: the filled slots are sent on and the window slides
deliver_prefix(t) ==
    LET n == FilledPrefix(t.recv_window)
    IN  [t EXCEPT
           !.byte_output = @ \o [i \in 1 .. n |-> t.recv_window[i - 1]],
           !.ack_base = wrapping_add(@, n),
           !.recv_window = slide(@, n)]

\* only the segment that is expected next is acknowledged
Any_acknowledged(t, seg) == TRUE
acknowledged(t, seg) == seg.seq_num = t.ack_base

handle_payload(t, seg) ==
    LET size == Len(seg.payload)
        in_window == in_wrapped_range(t.ack_base, wrapping_add(t.ack_base, WINDOW_SIZE), seg.seq_num)
        index == window_index_base(t, seg)
        covered == index .. index + size - 1
        stored == IF in_window
                  THEN [t EXCEPT !.recv_window =
                          [i \in Slot |-> IF i \in covered
                                          THEN seg.payload[i - index + 1]
                                          ELSE @[i]]]
                  ELSE t
        delivered == deliver_prefix(stored)
    IN  CASE t.state # "Estab" -> t
          [] t.state = "Estab" /\ in_window /\ ~ covered \subseteq Slot ->
               [t EXCEPT !.state = "Panicked"]
          [] t.state = "Estab" /\ covered \subseteq Slot /\ acknowledged(t, seg) ->
               send_ack(delivered, [make_seg EXCEPT !.flags = {"ACK"},
                                                    !.ack_num = delivered.ack_base])
          [] OTHER -> stored

Lingering_handle_close(t) == IF t.send_window = << >> THEN [t EXCEPT !.state = "Closed"] ELSE t
handle_close(t) == [t EXCEPT !.state = "Closed"]

handle_seg(t, seg) ==
    LET handled == handle_payload(handle_shake(handle_acks(t, seg), seg), seg)
    IN  IF "FIN" \in seg.flags /\ handled.state # "Panicked"
        THEN handle_close(handled)
        ELSE handled
=============================================================================
