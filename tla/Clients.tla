------------------------------ MODULE Clients -------------------------------
(***************************************************************************)
(* What the clients of System send, and an inductive invariant from which  *)
(* it follows that they send nothing else: Server leaves its clients open, *)
(* and this module closes them.                                            *)
(***************************************************************************)
EXTENDS System, Sessions

\* the bytes of a client's stream
client_text == encoded(Story)

Syn == [make_seg EXCEPT !.flags = {"SYN"}, !.seq_num = 1]
Ack(n) == [make_seg EXCEPT !.flags = {"ACK"}, !.ack_num = n]
Fin(n) == [make_seg EXCEPT !.flags = {"FIN"}, !.seq_num = n]
\* n bytes of the stream, after its first i
Data(i, n) == [make_seg EXCEPT !.seq_num = NumberOf(i), !.payload = SubSeq(client_text, i + 1, i + n)]

ClientSegments ==
    {Syn} \cup {Ack(n) : n \in SeqNum}
    \cup {Fin(NumberOf(i)) : i \in 0 .. Len(client_text)}
    \cup UNION {{Data(i, n) : n \in 1 .. min(MAX_PAYLOAD_SIZE, Len(client_text) - i)} :
                  i \in 0 .. Len(client_text) - 1}

(***************************************************************************)
(* Sent is what these clients send.  The length of the string is not cut,  *)
(* and the stream does not come back to the numbers where it began.        *)
(***************************************************************************)
ASSUME StoryAssumption ==
    /\ Sent = [p \in Peer |-> ClientSegments]
    /\ Len(Story) <= MAX_BYTE
    /\ Len(client_text) + WINDOW_SIZE < SEQ_SPACE

-----------------------------------------------------------------------------
ClientInput == {SendSyn, Close, Send(client_text)} \cup [kind : {"Receive"}, seg : Segment]

Client == [tcb     : TCB,
           input   : Seq(ClientInput),
           dropped : BOOLEAN,
           read    : Nat,
           session : {"Contents", "Echo", "Joining", "Done", "Died"},
           got     : Seq(Seq(Byte)),
           run     : Nat,
           initial : Seq(Byte),
           refused : SUBSET Nat]

ClientsTyped ==
    /\ client \in [Peer -> Client]
    /\ down \in [Peer -> SUBSET Segment]

Greeting(t) == t.state \in {"Listen", "SynSent"}

\* before Estab nothing but a SYN goes out, and nothing comes in
Fresh(t) ==
    /\ t.seq_base = 1
    /\ t.send_window = << >> /\ t.send_buffer = << >> /\ t.byte_output = << >>
    /\ \A i \in Slot : t.recv_window[i] = None
    /\ \A seg \in t.socket : seg = Syn
    /\ \A k \in 1 .. Len(t.unacked_segs) : t.unacked_segs[k] = Syn

\* window and buffer are the end of the text, and seq_base says where they begin
SendsText(text, t) ==
    \E k \in 0 .. Len(text) :
        /\ t.seq_base = NumberOf(k)
        /\ k + Len(t.send_window) + Len(t.send_buffer) = Len(text)
        /\ \A i \in 1 .. Len(t.send_window) : t.send_window[i] = text[k + i]
        /\ \A i \in 1 .. Len(t.send_buffer) : t.send_buffer[i] = text[k + Len(t.send_window) + i]

\* where the bytes that have come end, one of the numbers follows
EndsAt(numbers, t) ==
    /\ t.ack_base \in numbers
    /\ \A i \in Slot :
         t.recv_window[i] # None /\ (i + 1 \in Slot => t.recv_window[i + 1] = None) =>
             wrapping_add(t.ack_base, i + 1) \in numbers

\* the TCB of a client that has been given the text and may acknowledge the numbers
ClientSide(numbers, text, t) ==
    /\ Len(t.send_window) <= WINDOW_SIZE /\ t.dupe_acks < 3
    /\ t.state # "SynRecd"
    /\ Greeting(t) => Fresh(t) /\ text = << >>
    /\ t.state = "Estab" => SendsText(text, t) /\ EndsAt(numbers, t)
    /\ \A seg \in t.socket :
         seg \in ClientSegments /\ ("ACK" \in seg.flags => seg.ack_num \in numbers)
    /\ \A k \in 1 .. Len(t.unacked_segs) :
         t.unacked_segs[k] \in ClientSegments /\ "ACK" \notin t.unacked_segs[k].flags

-----------------------------------------------------------------------------
\* all that the server has ever sent to p, and the numbers that follow such segments
OfServer(p) == UNION {conns[p][i].tcb.socket : i \in DOMAIN conns[p]}
Answerable(segs) == {next_seq(seg) : seg \in segs}

\* the string has not got to the TCB
Untold(c) == c.session = "Contents" \/ \E k \in 1 .. Len(c.input) : c.input[k].kind = "Send"
given(c) == IF Untold(c) THEN << >> ELSE client_text

InputInStep(segs, c) ==
    /\ c.tcb.state = "Listen" <=> \E k \in 1 .. Len(c.input) : c.input[k] = SendSyn
    /\ \A k \in 1 .. Len(c.input) : LET in == c.input[k] IN
         /\ in = SendSyn => k = 1
         /\ in.kind \in {"Send", "Close"} => c.session # "Contents"
         /\ in.kind = "Send" => \A j \in 1 .. Len(c.input) : c.input[j].kind = "Send" => j = k
         /\ in.kind = "Receive" => in.seg \in segs

\* a client that the server has sent no more than these segments
ClientInStep(segs, c) ==
    /\ ClientSide(Answerable(segs), given(c), c.tcb)
    /\ c.dropped => ~ Running(c)
    /\ c.read <= Len(c.tcb.byte_output)
    /\ Greeting(c.tcb) => c.session = "Contents"
    /\ InputInStep(segs, c)

\* the server acknowledges a SYN with 2, and repeats no other ACK
ServerSide(t) ==
    /\ \A seg \in t.socket : "SYN" \in seg.flags => seg.ack_num = 2 /\ seg.payload = << >>
    /\ \A k \in 1 .. Len(t.unacked_segs) : LET seg == t.unacked_segs[k] IN
         /\ "SYN" \in seg.flags => seg.ack_num = 2 /\ seg.payload = << >>
         /\ "ACK" \in seg.flags => "SYN" \in seg.flags

\* while a client waits for its SYN-ACK, no other ACK comes to it or is provoked
NoOtherAck(segs) == \A seg \in segs : "ACK" \in seg.flags => "SYN" \in seg.flags
GivenOnly(c, segs) == \A k \in 1 .. Len(c.input) :
    c.input[k].kind = "Receive" => c.input[k].seg \in segs

Quiet(p) ==
    /\ NoOtherAck(down[p])
    /\ \A k \in 1 .. Len(client[p].input) :
         client[p].input[k].kind = "Receive" => NoOtherAck({client[p].input[k].seg})
    /\ \A i \in DOMAIN conns[p] : Running(conns[p][i]) => GivenOnly(conns[p][i], {Syn})

(* What a client has sent is a part of its stream, in its place, or        *)
(* acknowledges what the server has sent: also with data that is stored    *)
(* ahead of its turn, with the datagrams of several connections of the     *)
(* server in one window, and with ACKs that no segment of its own has      *)
(* earned (lib.rs 148-187, tcp.rs 127-154, 165-261).                       *)
ClientInvariant ==
    /\ ClientsTyped
    /\ \A p \in Peer :
         /\ ClientInStep(OfServer(p), client[p])
         /\ \A i \in DOMAIN conns[p] : ServerSide(conns[p][i].tcb)
         /\ down[p] \subseteq OfServer(p)
         /\ Greeting(client[p].tcb) => Quiet(p)
=============================================================================
