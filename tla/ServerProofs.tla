---------------------------- MODULE ServerProofs ----------------------------
(***************************************************************************)
(* Theorems about the server, for every window, payload size, sequence     *)
(* space, set of peers and set of segments that they send.                 *)
(***************************************************************************)
EXTENDS Sessions, TcbProofs

-----------------------------------------------------------------------------
(* Only handle_shake and handle_payload change what has been received, or  *)
(* go on to a state in which more is.                                      *)

HasReceived(t) == {"byte_output", "recv_window", "ack_base", "state"} \subseteq DOMAIN t

Keeps(t, u) == HasReceived(t) =>
    /\ HasReceived(u)
    /\ u.byte_output = t.byte_output
    /\ u.recv_window = t.recv_window
    /\ u.ack_base = t.ack_base
    /\ u.state \in {t.state, "Closed", "Panicked"}

LEMMA KeepsTwice ==
    ASSUME NEW t, NEW u, NEW v, Keeps(t, u), Keeps(u, v)
    PROVE  Keeps(t, v)
BY DEF Keeps

LEMMA SendSegKeeps ==
    ASSUME NEW t, NEW seg
    PROVE  /\ Keeps(t, resend_seg(t, seg))
           /\ Keeps(t, send_ack(t, seg))
           /\ Keeps(t, send_seg(t, seg))
BY DEF Keeps, HasReceived, resend_seg, send_ack, send_seg

LEMMA HandleResendKeeps ==
    ASSUME NEW t
    PROVE  Keeps(t, handle_resend(t))
BY SendSegKeeps DEF Keeps, handle_resend

LEMMA SendCloseKeeps ==
    ASSUME NEW t
    PROVE  Keeps(t, send_close(t))
BY DEF Keeps, HasReceived, send_close, send_seg, resend_seg

LEMMA FillSendWindowKeeps ==
    ASSUME NEW t
    PROVE  Keeps(t, fill_send_window(t))
<1> DEFINE window == t.send_window \o Taken(t.send_buffer, send_amt(t))
           filled == [t EXCEPT !.send_window = window,
                               !.send_buffer = Dropped(@, send_amt(t))]
           seq == wrapping_add(t.seq_base, Len(t.send_window))
           data == Taken(t.send_buffer, send_amt(t))
<1>1. \A u, d, s : Keeps(u, send_data(u, d, s))
  BY DEF Keeps, HasReceived, send_data
<1>2. Keeps(t, filled)
  BY DEF Keeps, HasReceived
<1>3. fill_send_window(t) = IF t.state # "Estab" THEN t
                            ELSE send_data(filled, data, seq)
  BY DEF fill_send_window
<1> HIDE DEF filled, data, seq
<1>4. Keeps(filled, send_data(filled, data, seq))
  BY <1>1
<1>5. QED
  BY <1>2, <1>3, <1>4 DEF Keeps

LEMMA SendKeeps ==
    ASSUME NEW t, NEW data
    PROVE  Keeps(t, send(t, data))
<1> DEFINE u == [t EXCEPT !.send_buffer = @ \o data]
<1>1. Keeps(t, u)
  BY DEF Keeps, HasReceived
<1>2. send(t, data) = fill_send_window(u)
  BY DEF send
<1> HIDE DEF u
<1>3. QED
  BY <1>1, <1>2, FillSendWindowKeeps DEF Keeps

LEMMA HandleAcksKeeps ==
    ASSUME NEW t, NEW seg
    PROVE  Keeps(t, handle_acks(t, seg))
<1>1. Keeps(t, accept_ack(t, seg))
  <2> DEFINE num == wrapping_sub(seg.ack_num, t.seq_base)
             acked == [t EXCEPT !.unacked_segs = retain_unacked(@, seg.ack_num),
                                !.seq_base = seg.ack_num]
             panicked == [acked EXCEPT !.state = "Panicked"]
             drained == [acked EXCEPT !.send_window = Dropped(@, num)]
  <2>1. Keeps(t, acked)
    BY DEF Keeps, HasReceived
  <2>2. accept_ack(t, seg) =
          CASE ~ new_ack(t, seg) -> t
            [] new_ack(t, seg) /\ t.state # "Estab" -> acked
            [] new_ack(t, seg) /\ t.state = "Estab" /\ num > Len(t.send_window) -> panicked
            [] OTHER -> fill_send_window(drained)
    BY DEF accept_ack
  <2> HIDE DEF acked
  <2>3. Keeps(acked, panicked) /\ Keeps(acked, drained)
    BY DEF Keeps, HasReceived
  <2> HIDE DEF panicked, drained
  <2>4. Keeps(drained, fill_send_window(drained))
    BY FillSendWindowKeeps
  <2> HIDE DEF num
  <2>5. QED
    BY <2>1, <2>2, <2>3, <2>4 DEF Keeps
<1>2. ASSUME NEW u PROVE Keeps(u, count_dupe_ack(u, seg))
  <2> DEFINE resent == [handle_resend(u) EXCEPT !.dupe_acks = 0]
             counted == [u EXCEPT !.dupe_acks = @ + 1]
  <2>1. Keeps(u, handle_resend(u))
    BY HandleResendKeeps
  <2>2. Keeps(handle_resend(u), resent) /\ Keeps(u, counted)
    BY DEF Keeps, HasReceived
  <2>3. count_dupe_ack(u, seg) \in {u, resent, counted}
    BY DEF count_dupe_ack
  <2> HIDE DEF resent, counted
  <2>4. QED
    BY <2>1, <2>2, <2>3 DEF Keeps
<1>3. QED
  BY <1>1, <1>2 DEF handle_acks, Keeps

LEMMA HandleShakeKeeps ==
    ASSUME NEW t, HasReceived(t), NEW seg
    PROVE  LET u == handle_shake(t, seg)
           IN  /\ HasReceived(u)
               /\ u.byte_output = t.byte_output /\ u.recv_window = t.recv_window
               /\ \/ Keeps(t, u)
                  \/ /\ t.state = "Listen" /\ "SYN" \in seg.flags
                     /\ u.state = "SynRecd" /\ u.ack_base = peer_next(seg)
                  \/ t.state = "SynSent"
                  \/ /\ t.state = "SynRecd"
                     /\ u.state \in {"Estab", "Closed", "Panicked"} /\ u.ack_base = t.ack_base
<1> DEFINE u == handle_shake(t, seg)
           next == peer_next(seg)
           listened == [t EXCEPT !.state = "SynRecd", !.ack_base = next]
           answered == [t EXCEPT !.state = "Estab", !.ack_base = next]
           acked == [t EXCEPT !.state = "Estab"]
           synack == [make_seg EXCEPT !.flags = {"SYN", "ACK"},
                                      !.seq_num = t.seq_base, !.ack_num = next]
           ack == [make_seg EXCEPT !.flags = {"ACK"}, !.ack_num = next]
<1>1. u = CASE t.state = "Listen" /\ "SYN" \in seg.flags -> send_seg(listened, synack)
            [] t.state = "SynSent" /\ {"SYN", "ACK"} \subseteq seg.flags ->
                 fill_send_window(send_ack(answered, ack))
            [] t.state = "SynRecd" /\ "ACK" \in seg.flags -> fill_send_window(acked)
            [] OTHER -> t
  BY Zenon DEF handle_shake
<1> HIDE DEF u, next, synack, ack
<1>2. /\ \A x \in {listened, answered, acked} :
           HasReceived(x) /\ x.byte_output = t.byte_output /\ x.recv_window = t.recv_window
      /\ listened.state = "SynRecd" /\ listened.ack_base = next
      /\ acked.state = "Estab" /\ acked.ack_base = t.ack_base
  BY DEF HasReceived
<1> HIDE DEF listened, answered, acked
<1>3. CASE u = send_seg(listened, synack) /\ t.state = "Listen" /\ "SYN" \in seg.flags
  <2>1. Keeps(listened, u) /\ u.state = listened.state
    <3>1. HasReceived(listened)
      BY <1>2
    <3>2. QED
      BY <1>3, <3>1, SendSegKeeps DEF HasReceived, send_seg, resend_seg
  <2>2. QED
    BY <1>2, <1>3, <2>1 DEF Keeps, u, next
<1>4. CASE u = fill_send_window(send_ack(answered, ack)) /\ t.state = "SynSent"
  <2>1. Keeps(answered, send_ack(answered, ack))
    BY SendSegKeeps
  <2>2. Keeps(send_ack(answered, ack), u)
    BY <1>4, FillSendWindowKeeps
  <2>3. Keeps(answered, u)
    BY <2>1, <2>2, KeepsTwice
  <2>4. QED
    BY <1>2, <1>4, <2>3 DEF Keeps, u
<1>5. CASE u = fill_send_window(acked) /\ t.state = "SynRecd"
  <2>1. Keeps(acked, u)
    BY <1>5, FillSendWindowKeeps
  <2>2. QED
    BY <1>2, <1>5, <2>1 DEF Keeps, u
<1>6. CASE u = t
  BY <1>6 DEF Keeps, u
<1>7. QED
  BY <1>1, <1>3, <1>4, <1>5, <1>6

(* The loop of handle_payload appends to the byte channel.                 *)
LEMMA HandlePayloadOutput ==
    ASSUME NEW t, WellTyped(t), NEW seg \in Segment
    PROVE  Len(t.byte_output) <= Len(handle_payload(t, seg).byte_output)
<1> DEFINE u == handle_payload(t, seg)
           panicked == [t EXCEPT !.state = "Panicked"]
<1>1. \A s : WellTyped(s) => Len(s.byte_output) \in Nat
  BY LenProperties DEF WellTyped, TCB
<1>2. panicked.byte_output = t.byte_output
  BY DEF WellTyped, TCB
<1> HIDE DEF panicked
<1>3. CASE u = t \/ u = panicked
  BY <1>1, <1>2, <1>3
<1>4. ASSUME NEW s, WellTyped(s), Stored(t, seg, s), u = s
      PROVE  Len(t.byte_output) <= Len(u.byte_output)
  BY <1>1, <1>4 DEF Stored
<1>5. ASSUME NEW s, WellTyped(s), Stored(t, seg, s), NEW ack,
             u = send_ack(deliver_prefix(s), ack)
      PROVE  Len(t.byte_output) <= Len(u.byte_output)
  <2> DEFINE v == deliver_prefix(s)
             n == FilledPrefix(s.recv_window)
  <2>1. n \in Nat /\ Len(v.byte_output) = Len(s.byte_output) + n
    BY <1>5, DeliverPrefixProperties
  <2>2. WellTyped(v)
    BY <1>5, DeliverPrefixType
  <2> HIDE DEF v, n
  <2>3. u.byte_output = v.byte_output
    <3>1. u = send_ack(v, ack)
      BY <1>5 DEF v
    <3>2. HasReceived(v)
      BY <2>2 DEF WellTyped, TCB, HasReceived
    <3> HIDE DEF u
    <3>3. QED
      BY <3>1, <3>2, SendSegKeeps DEF Keeps
  <2>4. s.byte_output = t.byte_output
    BY <1>5 DEF Stored
  <2>5. QED
    BY <1>1, <2>1, <2>3, <2>4
<1> HIDE DEF u
<1>6. QED
  BY <1>3, <1>4, <1>5, HandlePayloadCases DEF u, panicked

(* Before handle_payload, nothing is delivered.                            *)
LEMMA ShakenOutput ==
    ASSUME NEW t, WellTyped(t), NEW seg \in Segment
    PROVE  LET u == handle_shake(handle_acks(t, seg), seg)
           IN  WellTyped(u) /\ u.byte_output = t.byte_output
<1> DEFINE v == handle_acks(t, seg)
<1>1. HasReceived(t)
  BY DEF WellTyped, TCB, HasReceived
<1>2. WellTyped(v) /\ HasReceived(v) /\ v.byte_output = t.byte_output
  BY <1>1, HandleAcksType, HandleAcksKeeps DEF Keeps
<1> HIDE DEF v
<1>3. WellTyped(handle_shake(v, seg)) /\ handle_shake(v, seg).byte_output = v.byte_output
  BY <1>2, HandleShakeType, HandleShakeKeeps
<1>4. QED
  BY <1>2, <1>3 DEF v

LEMMA HandleSegOutput ==
    ASSUME NEW t, WellTyped(t), NEW seg \in Segment
    PROVE  Len(t.byte_output) <= Len(handle_seg(t, seg).byte_output)
<1> DEFINE shaken == handle_shake(handle_acks(t, seg), seg)
           received == handle_payload(shaken, seg)
<1>1. WellTyped(shaken) /\ shaken.byte_output = t.byte_output
  BY ShakenOutput
<1> HIDE DEF shaken
<1>2. WellTyped(received) /\ Len(t.byte_output) <= Len(received.byte_output)
  BY <1>1, HandlePayloadType, HandlePayloadOutput
<1> HIDE DEF received
<1>3. handle_close(received).byte_output = received.byte_output
  BY <1>2 DEF WellTyped, TCB, handle_close
<1>4. QED
  BY <1>2, <1>3 DEF handle_seg, received, shaken

-----------------------------------------------------------------------------
(* The steps of one connection preserve its types.                         *)

ConnOK(c) ==
    /\ c \in Conn
    /\ WellTyped(c.tcb)
    /\ c.read <= Len(c.tcb.byte_output)

LEMMA InputSegments ==
    /\ \A p \in Peer : Sent[p] \subseteq Segment
    /\ \A p \in Peer : \A seg \in Sent[p] : Receive(seg) \in TCBInput
    /\ Close \in TCBInput
    /\ \A data \in Seq(Byte) : Send(data) \in TCBInput
<1>1. \A p \in Peer : Sent[p] \subseteq Segment
  BY ServerAssumption
<1>2. \A p \in Peer : \A seg \in Sent[p] : seg \in UNION {Sent[q] : q \in Peer}
  OBVIOUS
<1>3. \A p \in Peer : \A seg \in Sent[p] : Receive(seg) \in TCBInput
  BY <1>2, Zenon DEF TCBInput
<1>4. \A data \in Seq(Byte) : Send(data) \in [kind : {"Send"}, data : Seq(Byte)]
  BY DEF Send
<1>5. QED
  BY <1>1, <1>3, <1>4, Zenon DEF TCBInput

(* Each kind of input carries what its handler takes.                      *)
LEMMA InputKinds ==
    ASSUME NEW in \in TCBInput
    PROVE  \/ in.kind = "Receive" /\ in.seg \in Segment
           \/ in.kind = "Send" /\ in.data \in Seq(Byte)
           \/ in.kind = "Close"
<1>1. CASE in \in {Receive(seg) : seg \in UNION {Sent[p] : p \in Peer}}
  <2>1. PICK p \in Peer : \E seg \in Sent[p] : in = Receive(seg)
    BY <1>1
  <2>2. QED
    BY <2>1, InputSegments DEF Receive
<1>2. CASE in \in [kind : {"Send"}, data : Seq(Byte)]
  BY <1>2
<1>3. CASE in = Close
  BY <1>3 DEF Close
<1>4. QED
  BY <1>1, <1>2, <1>3 DEF TCBInput

LEMMA NewConnType ==
    ASSUME NEW seg, Receive(seg) \in TCBInput
    PROVE  ConnOK(NewConn(seg))
<1>1. WellTyped(new(1)) /\ new(1) \in TCB
  <2>1. 1 \in SeqNum
    BY WindowAssumption, SeqSpaceAssumption DEF SeqNum
  <2>2. QED
    BY <2>1, NewType DEF WellTyped
<1>2. new(1).byte_output = << >> /\ Len(<< >>) = 0
  BY DEF new
<1>3. << >> \in Seq(Byte) /\ << Receive(seg) >> \in Seq(TCBInput)
  BY EmptySeq
<1> DEFINE in == Receive(seg)
           t == new(1)
<1> HIDE DEF in, t
<1>4. NewConn(seg) = [tcb |-> t, input |-> << in >>, dropped |-> FALSE,
                      read |-> 0, string |-> << >>, session |-> "Starting"]
  BY DEF NewConn, in, t
<1>5. NewConn(seg) \in Conn
  BY <1>1, <1>3, <1>4 DEF Conn, in, t
<1>6. QED
  BY <1>1, <1>2, <1>4, <1>5 DEF ConnOK, t

(* Whatever the input, the session's place in the byte channel stays within it. *)
LEMMA HandledType ==
    ASSUME NEW c, ConnOK(c), NEW in \in TCBInput
    PROVE  WellTyped(handled(c, in)) /\ c.read <= Len(handled(c, in).byte_output)
<1>1. /\ WellTyped(c.tcb) /\ c.read \in Nat /\ c.read <= Len(c.tcb.byte_output)
      /\ Len(c.tcb.byte_output) \in Nat /\ HasReceived(c.tcb)
  BY LenProperties DEF ConnOK, Conn, WellTyped, TCB, HasReceived
<1>2. ASSUME in.kind = "Receive", in.seg \in Segment
      PROVE  WellTyped(handled(c, in)) /\ c.read <= Len(handled(c, in).byte_output)
  <2> DEFINE shaken == handle_shake(handle_acks(c.tcb, in.seg), in.seg)
             panicked == [shaken EXCEPT !.state = "Panicked"]
  <2>1. WellTyped(shaken) /\ shaken.byte_output = c.tcb.byte_output
    BY <1>1, <1>2, ShakenOutput
  <2>2. handled(c, in) = panicked \/ handled(c, in) = handle_seg(c.tcb, in.seg)
    BY <1>2 DEF handled
  <2> HIDE DEF shaken
  <2>3. WellTyped(panicked) /\ panicked.byte_output = shaken.byte_output
    BY <2>1 DEF WellTyped, TCB
  <2> HIDE DEF panicked
  <2>4. /\ WellTyped(handle_seg(c.tcb, in.seg))
        /\ Len(c.tcb.byte_output) <= Len(handle_seg(c.tcb, in.seg).byte_output)
        /\ Len(handle_seg(c.tcb, in.seg).byte_output) \in Nat
    <3>1. WellTyped(handle_seg(c.tcb, in.seg))
      BY <1>1, <1>2, HandleSegType
    <3>2. Len(handle_seg(c.tcb, in.seg).byte_output) \in Nat
      BY <3>1, LenProperties DEF WellTyped, TCB
    <3>3. QED
      BY <1>1, <1>2, <3>1, <3>2, HandleSegOutput
  <2>5. QED
    BY <1>1, <2>1, <2>2, <2>3, <2>4
<1>3. ASSUME in.kind = "Send", in.data \in Seq(Byte)
      PROVE  WellTyped(handled(c, in)) /\ c.read <= Len(handled(c, in).byte_output)
  <2>1. handled(c, in) = send(c.tcb, in.data)
    BY <1>3 DEF handled
  <2>2. QED
    BY <1>1, <1>3, <2>1, SendType, SendKeeps DEF Keeps
<1>4. ASSUME in.kind = "Close"
      PROVE  WellTyped(handled(c, in)) /\ c.read <= Len(handled(c, in).byte_output)
  <2>1. handled(c, in) = send_close(c.tcb)
    BY <1>4 DEF handled
  <2>2. QED
    BY <1>1, <2>1, SendCloseType, SendCloseKeeps DEF Keeps
<1>5. QED
  BY <1>2, <1>3, <1>4, InputKinds

(* A string that is complete is taken from the byte channel as a whole.    *)
LEMMA ReadType ==
    ASSUME NEW c, WellTyped(c.tcb), c.read \in Nat, c.read <= Len(c.tcb.byte_output), complete(c)
    PROVE  /\ recv_str(c) \in Seq(Byte)
           /\ c.read + Head(unread(c)) + 1 \in Nat
           /\ c.read + Head(unread(c)) + 1 <= Len(c.tcb.byte_output)
<1> DEFINE out == c.tcb.byte_output
           rest == unread(c)
<1>1. out \in Seq(Byte) /\ Len(out) \in Nat /\ c.read \in 0 .. Len(out)
  BY LenProperties DEF WellTyped, TCB
<1>2. rest \in Seq(Byte) /\ Len(rest) = Len(out) - c.read
  BY <1>1, DrainProperties DEF unread
<1> HIDE DEF rest, out
<1>3. rest # << >> /\ Len(rest) > Head(rest)
  BY DEF complete, rest
<1>4. Head(rest) \in Byte /\ Tail(rest) \in Seq(Byte) /\ Len(Tail(rest)) = Len(rest) - 1
  BY <1>2, <1>3, HeadTailProperties
<1>5. Head(rest) \in Nat
  BY <1>4, ServerAssumption
<1>6. Head(rest) \in 0 .. Len(Tail(rest))
  BY <1>1, <1>2, <1>3, <1>4, <1>5
<1>7. Taken(Tail(rest), Head(rest)) \in Seq(Byte)
  BY <1>4, <1>6, DrainProperties
<1>8. c.read + Head(rest) + 1 \in Nat /\ c.read + Head(rest) + 1 <= Len(out)
  BY <1>1, <1>2, <1>3, <1>5
<1>9. QED
  BY <1>7, <1>8 DEF recv_str, rest, out

LEMMA EncodedType ==
    ASSUME NEW s \in Seq(Byte)
    PROVE  Send(encoded(s)) \in TCBInput
<1>1. Len(s) % (MAX_BYTE + 1) \in Byte
  BY LenProperties, ServerAssumption
<1>2. << Len(s) % (MAX_BYTE + 1) >> \in Seq(Byte)
  BY <1>1
<1>3. encoded(s) \in Seq(Byte)
  BY <1>2, ConcatProperties DEF encoded
<1>4. QED
  BY <1>3, InputSegments

LEMMA EnqueueType ==
    ASSUME NEW c, ConnOK(c), NEW in \in TCBInput
    PROVE  ConnOK(enqueue(c, in))
<1>1. Append(c.input, in) \in Seq(TCBInput)
  BY AppendProperties DEF ConnOK, Conn
<1>2. ConnOK([c EXCEPT !.input = Append(c.input, in)])
  BY <1>1 DEF ConnOK, Conn
<1>3. [c EXCEPT !.input = Append(c.input, in)] = [c EXCEPT !.input = Append(@, in)]
  BY DEF ConnOK, Conn
<1>4. QED
  BY <1>2, <1>3 DEF enqueue

(* The fields that a session sets.                                         *)
LEMMA SessionType ==
    ASSUME NEW c, ConnOK(c),
           NEW place \in {"Starting", "Reading", "Echoing", "Refused", "Ended"}, NEW s \in Seq(Byte)
    PROVE  /\ ConnOK([c EXCEPT !.session = place])
           /\ ConnOK([c EXCEPT !.session = place, !.string = s])
           /\ ConnOK([c EXCEPT !.dropped = TRUE])
BY DEF ConnOK, Conn

-----------------------------------------------------------------------------
(* Type correctness.                                                       *)

(* TypeOK, said of one connection at a time.                               *)
ConnsOK ==
    /\ channels \in [Peer -> Nat]
    /\ conns \in [Peer -> Seq(Conn)]
    /\ files \in [Peer -> Seq(Byte)]
    /\ \A p \in Peer : /\ channels[p] <= Len(conns[p])
                       /\ \A i \in DOMAIN conns[p] : ConnOK(conns[p][i])

LEMMA TypeOKByConn == TypeOK <=> ConnsOK
<1>1. ASSUME conns \in [Peer -> Seq(Conn)], NEW p \in Peer, NEW i \in DOMAIN conns[p]
      PROVE  conns[p][i] \in Conn /\ conns[p][i].tcb \in TCB
  <2>1. conns[p][i] \in Conn
    BY <1>1, ElementOfSeq, LenProperties
  <2>2. QED
    BY <2>1 DEF Conn
<1>2. ASSUME conns \in [Peer -> Seq(Conn)], channels \in [Peer -> Nat], NEW p \in Peer
      PROVE  channels[p] \in 0 .. Len(conns[p]) <=> channels[p] <= Len(conns[p])
  <2>1. Len(conns[p]) \in Nat /\ channels[p] \in Nat
    BY <1>2, LenProperties
  <2>2. QED
    BY <2>1
<1>3. QED
  BY <1>1, <1>2, Zenon DEF TypeOK, ConnsOK, ConnOK, WellTyped

(* A step of one thread rewrites one connection.                           *)
LEMMA ConnStepType ==
    ASSUME TypeOK, NEW p \in Peer, NEW i \in DOMAIN conns[p], NEW c, ConnOK(c),
           conns' = [conns EXCEPT ![p][i] = c], UNCHANGED channels,
           files' \in [Peer -> Seq(Byte)]
    PROVE  TypeOK'
<1>1. ConnsOK /\ conns \in [Peer -> Seq(Conn)] /\ channels \in [Peer -> Nat]
  BY TypeOKByConn DEF ConnsOK
<1>2. conns[p] \in Seq(Conn) /\ i \in 1 .. Len(conns[p])
  BY <1>1, LenProperties
<1>3. conns' = [conns EXCEPT ![p] = [conns[p] EXCEPT ![i] = c]]
  BY <1>1
<1>4. c \in Conn
  BY DEF ConnOK
<1>5. /\ [conns[p] EXCEPT ![i] = c] \in Seq(Conn)
      /\ Len([conns[p] EXCEPT ![i] = c]) = Len(conns[p])
      /\ DOMAIN [conns[p] EXCEPT ![i] = c] = DOMAIN conns[p]
      /\ \A j \in DOMAIN conns[p] :
           [conns[p] EXCEPT ![i] = c][j] = IF j = i THEN c ELSE conns[p][j]
  BY <1>2, <1>4, ExceptSeq, LenProperties
<1> DEFINE s == [conns[p] EXCEPT ![i] = c]
<1> HIDE DEF s
<1>6. \A q \in Peer : conns'[q] = IF q = p THEN s ELSE conns[q]
  BY <1>1, <1>3 DEF s
<1>7. conns' \in [Peer -> Seq(Conn)]
  BY <1>1, <1>3, <1>5 DEF s
<1>8. \A q \in Peer : Len(conns'[q]) = Len(conns[q]) /\ DOMAIN conns'[q] = DOMAIN conns[q]
  BY <1>5, <1>6 DEF s
<1>9. \A q \in Peer : \A j \in DOMAIN conns[q] : ConnOK(conns'[q][j])
  BY <1>1, <1>5, <1>6 DEF ConnsOK, s
<1>10. channels' \in [Peer -> Nat] /\ \A q \in Peer : channels'[q] <= Len(conns'[q])
  BY <1>1, <1>8 DEF ConnsOK
<1>11. TypeOK' <=> ConnsOK'
  BY TypeOKByConn, PTL
<1>12. QED
  BY <1>7, <1>8, <1>9, <1>10, <1>11 DEF ConnsOK

(* What every step of a thread is: it rewrites its connection, and it      *)
(* neither brings a dropped TCB back nor drops one that runs.              *)
Rewrites(p, i, c) ==
    /\ ConnOK(c)
    /\ conns' = [conns EXCEPT ![p][i] = c]
    /\ UNCHANGED channels
    /\ files' \in [Peer -> Seq(Byte)]
    /\ conns[p][i].dropped => c.dropped
    /\ (conns[p][i].dropped => ~ Running(conns[p][i])) => (c.dropped => ~ Running(c))

LEMMA HandleInputStep ==
    ASSUME TypeOK, NEW p \in Peer, NEW i \in DOMAIN conns[p], HandleInput(p, i)
    PROVE  \E c : Rewrites(p, i, c)
<1> DEFINE b == conns[p][i]
           t == handled(b, Head(b.input))
           c == [b EXCEPT !.tcb = t, !.input = Tail(b.input)]
<1>1. ConnsOK /\ ConnOK(b)
  BY TypeOKByConn DEF ConnsOK
<1>2. Running(b) /\ b.input # << >> /\ UNCHANGED <<channels, files>>
  BY DEF HandleInput
<1>3. Head(b.input) \in TCBInput /\ Tail(b.input) \in Seq(TCBInput)
  BY <1>1, <1>2, HeadTailProperties DEF ConnOK, Conn
<1>4. WellTyped(t) /\ b.read <= Len(t.byte_output)
  BY <1>1, <1>3, HandledType
<1>5. conns' = [conns EXCEPT ![p][i] = c]
  BY DEF HandleInput, ConnsOK
<1> HIDE DEF t
<1>6. ConnOK(c) /\ c.dropped = b.dropped
  BY <1>1, <1>3, <1>4 DEF ConnOK, Conn, WellTyped
<1> HIDE DEF c
<1>7. files' \in [Peer -> Seq(Byte)]
  BY <1>1, <1>2 DEF ConnsOK
<1>8. Rewrites(p, i, c)
  BY <1>2, <1>5, <1>6, <1>7 DEF Rewrites
<1>9. QED
  BY <1>8

LEMMA TimeoutStep ==
    ASSUME TypeOK, NEW p \in Peer, NEW i \in DOMAIN conns[p], Timeout(p, i)
    PROVE  \E c : Rewrites(p, i, c)
<1> DEFINE b == conns[p][i]
           t == handle_resend(b.tcb)
           c == [b EXCEPT !.tcb = t]
<1>1. ConnsOK /\ ConnOK(b) /\ HasReceived(b.tcb)
  BY TypeOKByConn DEF ConnsOK, ConnOK, WellTyped, TCB, HasReceived
<1>2. Running(b) /\ UNCHANGED <<channels, files>>
  BY DEF Timeout
<1>3. WellTyped(t) /\ t.byte_output = b.tcb.byte_output
  BY <1>1, HandleResendType, HandleResendKeeps DEF ConnOK, Keeps
<1>4. conns' = [conns EXCEPT ![p][i] = c]
  BY DEF Timeout
<1> HIDE DEF t
<1>5. ConnOK(c) /\ c.dropped = b.dropped
  BY <1>1, <1>3 DEF ConnOK, Conn, WellTyped
<1> HIDE DEF c
<1>6. files' \in [Peer -> Seq(Byte)]
  BY <1>1, <1>2 DEF ConnsOK
<1>7. Rewrites(p, i, c)
  BY <1>2, <1>4, <1>5, <1>6 DEF Rewrites
<1>8. QED
  BY <1>7

LEMMA DropStep ==
    ASSUME TypeOK, NEW p \in Peer, NEW i \in DOMAIN conns[p], Drop(p, i)
    PROVE  \E c : Rewrites(p, i, c)
<1> DEFINE b == conns[p][i]
           c == [b EXCEPT !.dropped = TRUE]
<1>1. ConnsOK /\ ConnOK(b)
  BY TypeOKByConn DEF ConnsOK
<1>2. ~ Running(b) /\ UNCHANGED <<channels, files>> /\ conns' = [conns EXCEPT ![p][i] = c]
  BY DEF Drop
<1>3. ConnOK(c) /\ c.dropped = TRUE /\ c.tcb = b.tcb
  BY <1>1 DEF ConnOK, Conn
<1> HIDE DEF c
<1>4. files' \in [Peer -> Seq(Byte)]
  BY <1>1, <1>2 DEF ConnsOK
<1>5. Rewrites(p, i, c)
  BY <1>2, <1>3, <1>4 DEF Rewrites, Running
<1>6. QED
  BY <1>5

(* A session leaves the TCB to its thread.                                 *)
LEMMA SessionRewrites ==
    ASSUME TypeOK, NEW p \in Peer, NEW i \in DOMAIN conns[p], NEW c, ConnOK(c),
           c.tcb = conns[p][i].tcb, c.dropped = conns[p][i].dropped,
           conns' = [conns EXCEPT ![p][i] = c],
           UNCHANGED channels, files' \in [Peer -> Seq(Byte)]
    PROVE  \E d : Rewrites(p, i, d)
<1>1. Rewrites(p, i, c)
  BY DEF Rewrites, Running
<1>2. QED
  BY <1>1

LEMMA EnqueueFields ==
    ASSUME NEW c, ConnOK(c), NEW in
    PROVE  enqueue(c, in).tcb = c.tcb /\ enqueue(c, in).dropped = c.dropped
BY DEF ConnOK, Conn, enqueue

LEMMA OpenStep ==
    ASSUME TypeOK, NEW p \in Peer, NEW i \in DOMAIN conns[p], Open(p, i)
    PROVE  \E c : Rewrites(p, i, c)
<1> DEFINE b == conns[p][i]
           in == Send(encoded(files[p]))
<1>1. ConnsOK /\ ConnOK(b) /\ files[p] \in Seq(Byte)
  BY TypeOKByConn DEF ConnsOK
<1>2. PICK c \in {refuse(b), greet(b, files[p])} : conns' = [conns EXCEPT ![p][i] = c]
  BY DEF Open
<1>3. UNCHANGED channels /\ files' \in [Peer -> Seq(Byte)]
  BY <1>1 DEF Open, ConnsOK
<1>4. ConnOK(enqueue(b, Close)) /\ ConnOK(enqueue(b, in))
  BY <1>1, EncodedType, EnqueueType, InputSegments
<1>5. PICK d, place : /\ d \in {enqueue(b, Close), enqueue(b, in)}
                      /\ place \in {"Refused", "Reading"}
                      /\ c = [d EXCEPT !.session = place]
  BY <1>2 DEF refuse, greet
<1>6. ConnOK(d) /\ d.tcb = b.tcb /\ d.dropped = b.dropped
  BY <1>1, <1>4, <1>5, EnqueueFields
<1>7. ConnOK(c) /\ c.tcb = d.tcb /\ c.dropped = d.dropped
  <2>1. place \in {"Starting", "Reading", "Echoing", "Refused", "Ended"}
    BY <1>5
  <2>2. ConnOK(c)
    BY <1>5, <1>6, <2>1, SessionType, EmptySeq
  <2>3. QED
    BY <1>5, <1>6, <2>2 DEF ConnOK, Conn
<1>8. QED
  BY <1>2, <1>3, <1>6, <1>7, SessionRewrites

LEMMA ReadStep ==
    ASSUME TypeOK, NEW p \in Peer, NEW i \in DOMAIN conns[p], Read(p, i)
    PROVE  \E c : Rewrites(p, i, c)
<1> DEFINE b == conns[p][i]
           place == b.read + Head(unread(b)) + 1
           s == recv_str(b)
           c == [b EXCEPT !.session = "Echoing", !.string = s, !.read = place]
<1>1. ConnsOK /\ ConnOK(b) /\ files[p] \in Seq(Byte)
  BY TypeOKByConn DEF ConnsOK
<1>2. complete(b) /\ UNCHANGED channels /\ files' = [files EXCEPT ![p] = files[p] \o s]
  BY DEF Read
<1>3. s \in Seq(Byte) /\ place \in Nat /\ place <= Len(b.tcb.byte_output)
  BY <1>1, <1>2, ReadType DEF ConnOK, Conn
<1>4. conns' = [conns EXCEPT ![p][i] = c]
  BY DEF Read
<1> HIDE DEF s, place
<1>5. ConnOK(c) /\ c.tcb = b.tcb /\ c.dropped = b.dropped
  BY <1>1, <1>3 DEF ConnOK, Conn
<1> HIDE DEF c
<1>6. files' \in [Peer -> Seq(Byte)]
  <2>1. files[p] \o s \in Seq(Byte)
    BY <1>1, <1>3, ConcatProperties
  <2>2. QED
    BY <1>1, <1>2, <2>1 DEF ConnsOK
<1>7. QED
  BY <1>2, <1>4, <1>5, <1>6, SessionRewrites

LEMMA EchoStep ==
    ASSUME TypeOK, NEW p \in Peer, NEW i \in DOMAIN conns[p], Echo(p, i)
    PROVE  \E c : Rewrites(p, i, c)
<1> DEFINE b == conns[p][i]
           d == enqueue(b, Send(encoded(b.string)))
           place == IF b.dropped THEN "Ended" ELSE "Reading"
           c == echoed(b)
<1>1. ConnsOK /\ ConnOK(b) /\ b.string \in Seq(Byte)
  BY TypeOKByConn DEF ConnsOK, ConnOK, Conn
<1>2. conns' = [conns EXCEPT ![p][i] = c] /\ UNCHANGED <<channels, files>>
  BY DEF Echo
<1>3. ConnOK(d) /\ d.tcb = b.tcb /\ d.dropped = b.dropped
  BY <1>1, EncodedType, EnqueueType, EnqueueFields
<1>4. c = [d EXCEPT !.session = place, !.string = << >>]
  BY DEF echoed
<1> HIDE DEF d
<1>5. ConnOK(c) /\ c.tcb = b.tcb /\ c.dropped = b.dropped
  <2>1. << >> \in Seq(Byte) /\ place \in {"Starting", "Reading", "Echoing", "Refused", "Ended"}
    BY EmptySeq
  <2> HIDE DEF place
  <2>2. ConnOK([d EXCEPT !.session = place, !.string = << >>])
    BY <1>3, <2>1, SessionType
  <2>3. /\ [d EXCEPT !.session = place, !.string = << >>].tcb = d.tcb
        /\ [d EXCEPT !.session = place, !.string = << >>].dropped = d.dropped
    BY <1>3 DEF ConnOK, Conn
  <2>4. QED
    BY <1>3, <1>4, <2>2, <2>3
<1> HIDE DEF c
<1>6. files' \in [Peer -> Seq(Byte)]
  BY <1>1, <1>2 DEF ConnsOK
<1>7. QED
  BY <1>2, <1>5, <1>6, SessionRewrites

LEMMA HangUpStep ==
    ASSUME TypeOK, NEW p \in Peer, NEW i \in DOMAIN conns[p], HangUp(p, i)
    PROVE  \E c : Rewrites(p, i, c)
<1> DEFINE b == conns[p][i]
           c == [b EXCEPT !.session = "Ended"]
<1>1. ConnsOK /\ ConnOK(b)
  BY TypeOKByConn DEF ConnsOK
<1>2. conns' = [conns EXCEPT ![p][i] = c] /\ UNCHANGED <<channels, files>>
  BY DEF HangUp
<1>3. ConnOK(c) /\ c.tcb = b.tcb /\ c.dropped = b.dropped
  BY <1>1 DEF ConnOK, Conn
<1> HIDE DEF c
<1>4. files' \in [Peer -> Seq(Byte)]
  BY <1>1, <1>2 DEF ConnsOK
<1>5. QED
  BY <1>2, <1>3, <1>4, SessionRewrites

LEMMA ThreadStep ==
    ASSUME TypeOK, NEW p \in Peer, NEW i \in DOMAIN conns[p], Thread(p, i)
    PROVE  \E c : Rewrites(p, i, c)
BY HandleInputStep, TimeoutStep, DropStep, OpenStep, ReadStep, EchoStep, HangUpStep DEF Thread

(* The main thread puts a segment into the channel of p, which rewrites    *)
(* the connection at its other end, or starts a new connection.            *)
ForwardsTo(p, seg) ==
    /\ valid_channel_found(p)
    /\ channels[p] \in DOMAIN conns[p]
    /\ \E c : Rewrites(p, channels[p], c)

Connects(p, seg) ==
    /\ ~ valid_channel_found(p)
    /\ ConnOK(NewConn(seg)) /\ ~ NewConn(seg).dropped
    /\ conns' = [conns EXCEPT ![p] = Append(@, NewConn(seg))]
    /\ channels' = [channels EXCEPT ![p] = Len(conns[p]) + 1]
    /\ UNCHANGED files

LEMMA ReceiveStep ==
    ASSUME TypeOK, NEW p \in Peer, NEW seg \in Sent[p], multiplexed_receive(p, seg)
    PROVE  ForwardsTo(p, seg) \/ Connects(p, seg)
<1> DEFINE i == channels[p]
           b == conns[p][i]
           c == [b EXCEPT !.input = Append(@, Receive(seg))]
<1>1. ConnsOK /\ Receive(seg) \in TCBInput
  BY TypeOKByConn, InputSegments
<1>2. UNCHANGED files /\ files' \in [Peer -> Seq(Byte)]
  BY <1>1 DEF multiplexed_receive, ConnsOK
<1>3. CASE valid_channel_found(p)
  <2>1. i \in DOMAIN conns[p]
    <3>1. i \in Nat /\ i # 0 /\ i <= Len(conns[p]) /\ conns[p] \in Seq(Conn)
      BY <1>1, <1>3 DEF ConnsOK, valid_channel_found
    <3>2. QED
      BY <3>1, LenProperties
  <2>2. ConnOK(b) /\ ~ b.dropped
    BY <1>1, <1>3, <2>1 DEF ConnsOK, valid_channel_found
  <2>3. conns' = [conns EXCEPT ![p][i] = c] /\ UNCHANGED channels
    BY <1>3 DEF multiplexed_receive
  <2>4. c = enqueue(b, Receive(seg))
    BY <2>2 DEF enqueue
  <2>5. ConnOK(c) /\ c.tcb = b.tcb /\ c.dropped = b.dropped
    BY <1>1, <2>2, <2>4, EnqueueType, EnqueueFields
  <2> HIDE DEF c
  <2>6. \E d : Rewrites(p, i, d)
    BY <1>2, <2>1, <2>3, <2>5, SessionRewrites
  <2>7. QED
    BY <1>3, <2>1, <2>6 DEF ForwardsTo
<1>4. CASE ~ valid_channel_found(p)
  <2>1. ConnOK(NewConn(seg)) /\ ~ NewConn(seg).dropped
    BY <1>1, NewConnType DEF NewConn
  <2>2. QED
    BY <1>4, <2>1 DEF multiplexed_receive, Connects
<1>5. QED
  BY <1>3, <1>4

LEMMA ConnectsType ==
    ASSUME TypeOK, NEW p \in Peer, NEW seg, Connects(p, seg)
    PROVE  TypeOK'
<1> DEFINE c == NewConn(seg)
           s == Append(conns[p], c)
           n == Len(conns[p])
<1>1. ConnsOK /\ conns[p] \in Seq(Conn)
  BY TypeOKByConn DEF ConnsOK
<1>2. ConnOK(c) /\ c \in Conn
  BY DEF Connects, ConnOK
<1>3. /\ conns' = [conns EXCEPT ![p] = s]
      /\ channels' = [channels EXCEPT ![p] = n + 1]
      /\ UNCHANGED files
  BY DEF Connects
<1> HIDE DEF c
<1>4. /\ s \in Seq(Conn) /\ Len(s) = n + 1 /\ n \in Nat /\ DOMAIN s = 1 .. n + 1
      /\ DOMAIN conns[p] = 1 .. n
      /\ \A i \in 1 .. n : s[i] = conns[p][i]
      /\ s[n + 1] = c
  BY <1>1, <1>2, AppendProperties, LenProperties
<1> HIDE DEF s, n
<1>5. \A i \in DOMAIN s : ConnOK(s[i])
  BY <1>1, <1>2, <1>4 DEF ConnsOK
<1>6. \A q \in Peer : /\ conns'[q] = IF q = p THEN s ELSE conns[q]
                      /\ channels'[q] = IF q = p THEN n + 1 ELSE channels[q]
  BY <1>1, <1>3 DEF ConnsOK
<1>7. conns' \in [Peer -> Seq(Conn)] /\ channels' \in [Peer -> Nat]
  BY <1>1, <1>3, <1>4 DEF ConnsOK
<1>8. ASSUME NEW q \in Peer
      PROVE  channels'[q] <= Len(conns'[q]) /\ \A i \in DOMAIN conns'[q] : ConnOK(conns'[q][i])
  <2>1. CASE q = p
    BY <1>4, <1>5, <1>6, <2>1
  <2>2. CASE q # p
    BY <1>1, <1>6, <2>2 DEF ConnsOK
  <2>3. QED
    BY <2>1, <2>2
<1>9. TypeOK' <=> ConnsOK'
  BY TypeOKByConn, PTL
<1>10. QED
  BY <1>1, <1>3, <1>7, <1>8, <1>9 DEF ConnsOK

LEMMA RewritesType ==
    ASSUME TypeOK, NEW p \in Peer, NEW i \in DOMAIN conns[p], \E c : Rewrites(p, i, c)
    PROVE  TypeOK'
BY ConnStepType DEF Rewrites

LEMMA InitType == Init => TypeOK
<1> SUFFICES ASSUME Init PROVE TypeOK
  OBVIOUS
<1>1. \A p \in Peer : channels[p] = 0 /\ conns[p] = << >>
  BY DEF Init
<1>2. /\ channels \in [Peer -> Nat]
      /\ conns \in [Peer -> Seq(Conn)]
      /\ files \in [Peer -> Seq(Byte)]
  <2>1. << >> \in Seq(Conn) /\ << >> \in Seq(Byte)
    BY EmptySeq
  <2>2. QED
    BY <2>1 DEF Init
<1>3. ConnsOK
  BY <1>1, <1>2 DEF ConnsOK
<1>4. QED
  BY <1>3, TypeOKByConn

LEMMA StepType == TypeOK /\ [Next]_vars => TypeOK'
<1> SUFFICES ASSUME TypeOK, [Next]_vars PROVE TypeOK'
  OBVIOUS
<1>1. ASSUME NEW p \in Peer, NEW seg \in Sent[p], multiplexed_receive(p, seg)
      PROVE  TypeOK'
  BY <1>1, ReceiveStep, RewritesType, ConnectsType DEF ForwardsTo
<1>2. ASSUME NEW p \in Peer, NEW i \in DOMAIN conns[p], Thread(p, i)
      PROVE  TypeOK'
  BY <1>2, ThreadStep, RewritesType
<1>3. CASE UNCHANGED vars
  <2>1. ConnsOK' <=> ConnsOK
    BY <1>3 DEF ConnsOK, vars
  <2>2. TypeOK' <=> ConnsOK'
    BY TypeOKByConn, PTL
  <2>3. QED
    BY <2>1, <2>2, TypeOKByConn
<1>4. QED
  BY <1>1, <1>2, <1>3 DEF Next

(* Every reachable state of the server is well typed, whatever its clients *)
(* send: a TCB keeps within its window, and a session never reads past     *)
(* what its TCB has sent it (tcp.rs 83-89, lib.rs 49-52).                  *)
THEOREM TypeCorrect == Spec => []TypeOK
<1>1. QED
  BY InitType, StepType, PTL DEF Spec

-----------------------------------------------------------------------------
(* One TCB per peer.                                                       *)

(* The map holds the newest connection of a peer, and the TCBs of all the  *)
(* others have been dropped, which happens only after their threads end:   *)
(* multiplexed_receive makes a connection only when a send to the newest   *)
(* one has failed.                                                         *)
OnlyNewestExists ==
    \A p \in Peer :
        /\ channels[p] = Len(conns[p])
        /\ \A i \in DOMAIN conns[p] :
             /\ i # Len(conns[p]) => conns[p][i].dropped
             /\ conns[p][i].dropped => ~ Running(conns[p][i])

LEMMA RewritesNewest ==
    ASSUME TypeOK, OnlyNewestExists, NEW p \in Peer, NEW i \in DOMAIN conns[p],
           NEW c, Rewrites(p, i, c)
    PROVE  OnlyNewestExists'
<1>1. conns \in [Peer -> Seq(Conn)] /\ conns[p] \in Seq(Conn) /\ c \in Conn
  BY TypeOKByConn DEF ConnsOK, Rewrites, ConnOK
<1> DEFINE s == [conns[p] EXCEPT ![i] = c]
<1>2. i \in 1 .. Len(conns[p])
  BY <1>1, LenProperties
<1>3. /\ Len(s) = Len(conns[p]) /\ DOMAIN s = DOMAIN conns[p]
      /\ \A j \in DOMAIN conns[p] : s[j] = IF j = i THEN c ELSE conns[p][j]
  BY <1>1, <1>2, ExceptSeq, LenProperties
<1>4. conns' = [conns EXCEPT ![p] = s] /\ UNCHANGED channels
  BY <1>1 DEF Rewrites
<1>5. /\ conns[p][i].dropped => c.dropped
      /\ c.dropped => ~ Running(c)
  BY DEF Rewrites, OnlyNewestExists
<1> HIDE DEF s
<1>6. \A q \in Peer : conns'[q] = IF q = p THEN s ELSE conns[q]
  BY <1>1, <1>4
<1>7. ASSUME NEW q \in Peer
      PROVE  /\ channels'[q] = Len(conns'[q])
             /\ \A j \in DOMAIN conns'[q] :
                  /\ j # Len(conns'[q]) => conns'[q][j].dropped
                  /\ conns'[q][j].dropped => ~ Running(conns'[q][j])
  <2>1. CASE q = p
    BY <1>3, <1>4, <1>5, <1>6, <2>1 DEF OnlyNewestExists
  <2>2. CASE q # p
    BY <1>4, <1>6, <2>2 DEF OnlyNewestExists
  <2>3. QED
    BY <2>1, <2>2
<1>8. QED
  BY <1>7 DEF OnlyNewestExists, Running

LEMMA ConnectsNewest ==
    ASSUME TypeOK, OnlyNewestExists, NEW p \in Peer, NEW seg, Connects(p, seg)
    PROVE  OnlyNewestExists'
<1> DEFINE c == NewConn(seg)
           s == Append(conns[p], c)
           n == Len(conns[p])
<1>1. ConnsOK /\ conns[p] \in Seq(Conn) /\ c \in Conn /\ ~ c.dropped
  BY TypeOKByConn DEF ConnsOK, Connects, ConnOK
<1>2. conns' = [conns EXCEPT ![p] = s] /\ channels' = [channels EXCEPT ![p] = n + 1]
  BY DEF Connects
<1> HIDE DEF c
<1>3. /\ Len(s) = n + 1 /\ n \in Nat /\ DOMAIN s = 1 .. n + 1 /\ DOMAIN conns[p] = 1 .. n
      /\ \A i \in 1 .. n : s[i] = conns[p][i]
      /\ s[n + 1] = c
  BY <1>1, AppendProperties, LenProperties
<1>4. \A i \in 1 .. n : conns[p][i].dropped /\ ~ Running(conns[p][i])
  <2>1. n # 0 => n \in DOMAIN conns[p] /\ conns[p][n].dropped
    BY <1>3 DEF Connects, valid_channel_found, OnlyNewestExists
  <2>2. QED
    BY <1>3, <2>1 DEF OnlyNewestExists
<1> HIDE DEF s, n
<1>5. \A q \in Peer : /\ conns'[q] = IF q = p THEN s ELSE conns[q]
                      /\ channels'[q] = IF q = p THEN n + 1 ELSE channels[q]
  BY <1>1, <1>2 DEF ConnsOK
<1>6. ASSUME NEW q \in Peer
      PROVE  /\ channels'[q] = Len(conns'[q])
             /\ \A j \in DOMAIN conns'[q] :
                  /\ j # Len(conns'[q]) => conns'[q][j].dropped
                  /\ conns'[q][j].dropped => ~ Running(conns'[q][j])
  <2>1. CASE q = p
    BY <1>1, <1>3, <1>4, <1>5, <2>1
  <2>2. CASE q # p
    BY <1>5, <2>2 DEF OnlyNewestExists
  <2>3. QED
    BY <2>1, <2>2
<1>7. QED
  BY <1>6 DEF OnlyNewestExists, Running

LEMMA StepNewest == TypeOK /\ OnlyNewestExists /\ [Next]_vars => OnlyNewestExists'
<1> SUFFICES ASSUME TypeOK, OnlyNewestExists, [Next]_vars PROVE OnlyNewestExists'
  OBVIOUS
<1>1. ASSUME NEW p \in Peer, NEW seg \in Sent[p], multiplexed_receive(p, seg)
      PROVE  OnlyNewestExists'
  BY <1>1, ReceiveStep, RewritesNewest, ConnectsNewest DEF ForwardsTo
<1>2. ASSUME NEW p \in Peer, NEW i \in DOMAIN conns[p], Thread(p, i)
      PROVE  OnlyNewestExists'
  BY <1>2, ThreadStep, RewritesNewest
<1>3. CASE UNCHANGED vars
  BY <1>3 DEF OnlyNewestExists, vars, Running
<1>4. QED
  BY <1>1, <1>2, <1>3 DEF Next

(* A peer never has two TCBs that run, and its datagrams go to the one     *)
(* that does (lib.rs 99-128), whatever the clients send and however the    *)
(* threads interleave.                                                     *)
THEOREM OneLiveTcbHolds == Spec => []OneLiveTcb
<1>1. Init => OnlyNewestExists
  <2>1. Len(<< >>) = 0 /\ DOMAIN << >> = {}
    OBVIOUS
  <2>2. QED
    BY <2>1 DEF Init, OnlyNewestExists
<1>2. OnlyNewestExists => OneLiveTcb
  BY DEF OnlyNewestExists, OneLiveTcb
<1>3. QED
  BY <1>1, <1>2, StepNewest, TypeCorrect, PTL DEF Spec


-----------------------------------------------------------------------------
(* What a TCB of the server has received of its client's text.             *)

Fits(T) == T \in Seq(Byte) /\ Len(T) + WINDOW_SIZE <= SEQ_SPACE

Spoken(T, seg) ==
    /\ seg \in Segment
    /\ "SYN" \in seg.flags => seg.seq_num = 1
    /\ seg.payload # << >> => PlacedIn(T, seg)

LEMMA TextNumbers ==
    ASSUME NEW T, Fits(T)
    PROVE  /\ Len(T) \in Nat /\ Len(T) < SEQ_SPACE /\ Len(T) + WINDOW_SIZE <= SEQ_SPACE
           /\ WINDOW_SIZE \in Nat /\ 1 <= WINDOW_SIZE /\ WINDOW_SIZE \in SeqNum
           /\ SEQ_SPACE \in Nat /\ 1 \in SeqNum
<1>1. /\ WINDOW_SIZE \in Nat /\ 1 <= WINDOW_SIZE /\ 2 * WINDOW_SIZE <= SEQ_SPACE
      /\ SEQ_SPACE \in Nat
  BY WindowAssumption, SeqSpaceAssumption
<1>2. Len(T) \in Nat /\ Len(T) + WINDOW_SIZE <= SEQ_SPACE
  BY LenProperties DEF Fits
<1>3. WINDOW_SIZE \in SeqNum /\ 1 \in SeqNum
  BY <1>1 DEF SeqNum
<1>4. Len(T) < SEQ_SPACE
  BY <1>1, <1>2
<1>5. QED
  BY <1>1, <1>2, <1>3, <1>4

LEMMA NumberProperties ==
    ASSUME NEW n \in Nat, n < SEQ_SPACE
    PROVE  /\ NumberOf(n) \in SeqNum
           /\ NumberOf(0) = wrapping_add(1, 1)
           /\ \A m \in Nat : n + m < SEQ_SPACE => wrapping_add(NumberOf(n), m) = NumberOf(n + m)
           /\ \A m \in Nat : m < SEQ_SPACE =>
                wrapping_sub(NumberOf(n), NumberOf(m)) = wrapping_sub(n, m)
<1> DEFINE x == wrapping_add(1, 1)
<1>1. SEQ_SPACE \in Nat /\ 1 \in SeqNum
  BY WindowAssumption, SeqSpaceAssumption DEF SeqNum
<1>2. x \in SeqNum
  BY <1>1, WrappingType
<1> HIDE DEF x
<1>3. \A m : NumberOf(m) = wrapping_add(x, m)
  BY DEF NumberOf, x
<1>4. \A m \in Nat : m < SEQ_SPACE => m \in SeqNum
  BY <1>1 DEF SeqNum
<1>5. NumberOf(n) \in SeqNum
  BY <1>2, <1>3, <1>4, WrappingType
<1>6. NumberOf(0) = x
  BY <1>1, <1>2, <1>3 DEF wrapping_add, SeqNum
<1>7. ASSUME NEW m \in Nat, n + m < SEQ_SPACE
      PROVE  wrapping_add(NumberOf(n), m) = NumberOf(n + m)
  BY <1>2, <1>3, <1>7, WrapAdd
<1>8. ASSUME NEW m \in Nat, m < SEQ_SPACE
      PROVE  wrapping_sub(NumberOf(n), NumberOf(m)) = wrapping_sub(n, m)
  BY <1>2, <1>3, <1>4, <1>8, WrapDistance
<1>9. QED
  BY <1>5, <1>6, <1>7, <1>8 DEF x

LEMMA TcbHasReceived ==
    ASSUME NEW t, WellTyped(t)
    PROVE  HasReceived(t) /\ Len(t.byte_output) \in Nat
BY LenProperties DEF WellTyped, TCB, HasReceived

LEMMA KeepsReceived ==
    ASSUME NEW T, NEW t, NEW u, HasReceived(t), Received(T, t), Keeps(t, u)
    PROVE  Received(T, u)
BY DEF Keeps, Received, HoldsText

(* A TCB that listens takes the number of its client's first byte from the *)
(* SYN (tcp.rs 252-264), and no other handshake of the server sets it.     *)
LEMMA HandleShakeReceived ==
    ASSUME NEW T, NEW t, WellTyped(t), Received(T, t), NEW seg, Spoken(T, seg)
    PROVE  Received(T, handle_shake(t, seg))
<1> DEFINE u == handle_shake(t, seg)
<1>1. HasReceived(t)
  BY TcbHasReceived
<1>2. /\ u.byte_output = t.byte_output /\ u.recv_window = t.recv_window
      /\ \/ Keeps(t, u)
         \/ /\ t.state = "Listen" /\ "SYN" \in seg.flags
            /\ u.state = "SynRecd" /\ u.ack_base = peer_next(seg)
         \/ t.state = "SynSent"
         \/ /\ t.state = "SynRecd"
            /\ u.state \in {"Estab", "Closed", "Panicked"} /\ u.ack_base = t.ack_base
  BY <1>1, HandleShakeKeeps
<1> HIDE DEF u
<1>3. CASE Keeps(t, u)
  BY <1>1, <1>3, KeepsReceived DEF u
<1>4. CASE t.state = "Listen" /\ "SYN" \in seg.flags
           /\ u.state = "SynRecd" /\ u.ack_base = peer_next(seg)
  <2>1. u.ack_base = wrapping_add(1, 1)
    BY <1>4 DEF Spoken, peer_next
  <2>2. Len(u.byte_output) = 0
    BY <1>2, <1>4 DEF Received
  <2>3. 0 \in Nat /\ 0 < SEQ_SPACE
    BY SeqSpaceAssumption
  <2>4. u.ack_base = NumberOf(Len(u.byte_output))
    BY <2>1, <2>2, <2>3, NumberProperties
  <2>5. QED
    BY <1>2, <1>4, <2>4 DEF Received, HoldsText, u
<1>5. CASE t.state = "SynRecd" /\ u.state \in {"Estab", "Closed", "Panicked"}
           /\ u.ack_base = t.ack_base
  BY <1>2, <1>5 DEF Received, HoldsText, u
<1>6. QED
  BY <1>2, <1>3, <1>4, <1>5 DEF Received


(* A payload in the window of an established TCB starts at or beyond what  *)
(* has been delivered: the text is so short that an old number is not      *)
(* taken for a new one (tcp.rs 165-183).                                   *)
LEMMA PlacedAhead ==
    ASSUME NEW T, Fits(T), NEW t, WellTyped(t), Len(t.byte_output) <= Len(T),
           t.ack_base = NumberOf(Len(t.byte_output)),
           NEW seg \in Segment, NEW i \in Nat, i < Len(T), seg.seq_num = NumberOf(i),
           in_wrapped_range(t.ack_base, wrapping_add(t.ack_base, WINDOW_SIZE), seg.seq_num)
    PROVE  /\ Len(t.byte_output) <= i
           /\ window_index_base(t, seg) = i - Len(t.byte_output)
<1> DEFINE d == Len(t.byte_output)
<1>1. /\ d \in Nat /\ d <= Len(T) /\ Len(T) \in Nat /\ Len(T) + WINDOW_SIZE <= SEQ_SPACE
      /\ Len(T) < SEQ_SPACE /\ WINDOW_SIZE \in Nat /\ WINDOW_SIZE \in SeqNum /\ SEQ_SPACE \in Nat
  BY TcbHasReceived, TextNumbers
<1>2. t.ack_base = NumberOf(d)
  OBVIOUS
<1> HIDE DEF d
<1>3. i < SEQ_SPACE /\ d < SEQ_SPACE
  BY <1>1
<1>4. NumberOf(i) \in SeqNum /\ NumberOf(d) \in SeqNum
  BY <1>1, <1>3, NumberProperties
<1>5. wrapping_sub(NumberOf(i), NumberOf(d)) = wrapping_sub(i, d)
  BY <1>1, <1>3, NumberProperties
<1>6. wrapping_sub(i, d) < WINDOW_SIZE
  BY <1>1, <1>2, <1>4, <1>5, RangeIsDistance
<1>7. d <= i
  <2>1. \A a, b, l, w, s \in Nat : a < l /\ b <= l /\ l + w <= s /\ ~ b <= a => w <= a - b + s
    BY ONLY SMT
  <2>2. ~ d <= i => WINDOW_SIZE <= i - d + SEQ_SPACE
    BY <1>1, <2>1
  <2>3. ~ d <= i => wrapping_sub(i, d) = i - d + SEQ_SPACE
    BY DEF wrapping_sub
  <2>4. QED
    BY <1>1, <1>6, <2>2, <2>3
<1>8. window_index_base(t, seg) = i - d
  BY <1>2, <1>5, <1>7 DEF window_index_base, wrapping_sub
<1>9. QED
  BY <1>7, <1>8 DEF d

(* So it is stored where it belongs.                                       *)
LEMMA StoredHolds ==
    ASSUME NEW T, Fits(T), NEW t, WellTyped(t), HoldsText(T, t),
           t.ack_base = NumberOf(Len(t.byte_output)),
           NEW seg, Spoken(T, seg), NEW s, Stored(t, seg, s)
    PROVE  HoldsText(T, s) /\ s.ack_base = NumberOf(Len(s.byte_output))
<1> DEFINE d == Len(t.byte_output)
           index == window_index_base(t, seg)
           size == Len(seg.payload)
           covered == index .. index + size - 1
           in_window == in_wrapped_range(t.ack_base, wrapping_add(t.ack_base, WINDOW_SIZE),
                                         seg.seq_num)
<1>1. /\ s.byte_output = t.byte_output /\ s.ack_base = t.ack_base
      /\ \/ s.recv_window = t.recv_window
         \/ /\ in_window
            /\ \A j \in Slot : s.recv_window[j] = IF j \in covered THEN seg.payload[j - index + 1]
                                                  ELSE t.recv_window[j]
  BY DEF Stored
<1>2. CASE s.recv_window = t.recv_window
  BY <1>1, <1>2 DEF HoldsText
<1>3. CASE /\ in_window
           /\ \A j \in Slot : s.recv_window[j] = IF j \in covered THEN seg.payload[j - index + 1]
                                                 ELSE t.recv_window[j]
  <2>1. ASSUME NEW j \in Slot, j \in covered
        PROVE  d + j + 1 <= Len(T) /\ seg.payload[j - index + 1] = T[d + j + 1]
    <3>1. /\ seg \in Segment /\ seg.payload \in Seq(Byte) /\ size \in Nat /\ index \in Nat
          /\ d \in Nat /\ Len(T) \in Nat /\ j \in Nat
      <4>1. seg \in Segment /\ seg.payload \in Seq(Byte) /\ seg.seq_num \in SeqNum
        BY DEF Spoken, Segment
      <4>2. t.ack_base \in SeqNum
        BY DEF WellTyped, TCB
      <4>3. index \in SeqNum
        BY <4>1, <4>2, WrappingType DEF window_index_base
      <4>4. index \in Nat
        <5> HIDE DEF index
        <5>1. QED
          BY <4>3 DEF SeqNum
      <4>5. size \in Nat
        BY <4>1, LenProperties
      <4>6. d \in Nat /\ Len(T) \in Nat
        BY TcbHasReceived, TextNumbers
      <4>7. QED
        BY <4>1, <4>4, <4>5, <4>6 DEF Slot
    <3> HIDE DEF index
    <3>2. size # 0 /\ j - index + 1 \in 1 .. size
      <4> HIDE DEF size
      <4>1. QED
        BY <2>1, <3>1
    <3>3. PICK i \in 0 .. Len(T) - 1 :
            /\ seg.seq_num = NumberOf(i)
            /\ i + size <= Len(T)
            /\ \A k \in 1 .. size : seg.payload[k] = T[i + k]
      <4>1. seg.payload # << >>
        BY <3>2, EmptySeq
      <4>2. QED
        BY <4>1 DEF Spoken, PlacedIn
    <3>4. i \in Nat /\ i < Len(T)
      BY <3>1
    <3>5. d <= i /\ index = i - d
      <4>1. d <= Len(T)
        BY DEF HoldsText
      <4>2. QED
        BY <1>3, <3>1, <3>3, <3>4, <4>1, PlacedAhead DEF index
    <3>6. seg.payload[j - index + 1] = T[i + (j - index + 1)]
      BY <3>2, <3>3
    <3> HIDE DEF size, d
    <3>7. i + (j - index + 1) = d + j + 1
      BY <3>1, <3>4, <3>5
    <3>8. d + j + 1 <= Len(T)
      <4>1. j - index + 1 <= size /\ j - index + 1 \in Nat
        BY <3>1, <3>2
      <4>2. i + (j - index + 1) <= Len(T)
        BY <3>1, <3>3, <3>4, <4>1
      <4>3. QED
        BY <3>7, <4>2
    <3>9. QED
      BY <3>6, <3>7, <3>8
  <2>2. ASSUME NEW j \in Slot, s.recv_window[j] # None
        PROVE  d + j + 1 <= Len(T) /\ s.recv_window[j] = T[d + j + 1]
    <3>1. CASE j \in covered
      BY <1>3, <2>1, <3>1
    <3>2. CASE j \notin covered
      BY <1>3, <2>2, <3>2 DEF HoldsText
    <3>3. QED
      BY <3>1, <3>2
  <2>3. QED
    BY <1>1, <2>2 DEF HoldsText
<1>4. QED
  BY <1>1, <1>2, <1>3


(* What is delivered is the next part of the text, and the window slides   *)
(* along it (tcp.rs 184-198).                                              *)
LEMMA DeliverHolds ==
    ASSUME NEW T, Fits(T), NEW t, WellTyped(t), HoldsText(T, t),
           t.ack_base = NumberOf(Len(t.byte_output))
    PROVE  LET u == deliver_prefix(t)
           IN  HoldsText(T, u) /\ u.ack_base = NumberOf(Len(u.byte_output))
<1> DEFINE u == deliver_prefix(t)
           n == FilledPrefix(t.recv_window)
           d == Len(t.byte_output)
<1>1. /\ d \in Nat /\ Len(T) \in Nat /\ Len(T) < SEQ_SPACE /\ SEQ_SPACE \in Nat
  BY TcbHasReceived, TextNumbers
<1>2. /\ n \in Nat /\ n <= WINDOW_SIZE
      /\ \A i \in Nat : i < n => i \in Slot /\ t.recv_window[i] # None
      /\ n \in Slot => t.recv_window[n] = None
      /\ Len(u.byte_output) = d + n
      /\ \A i \in 1 .. d + n :
           u.byte_output[i] = IF i <= d THEN t.byte_output[i] ELSE t.recv_window[i - d - 1]
      /\ n = 0 => u.byte_output = t.byte_output
      /\ \A i \in Slot : u.recv_window[i] = IF i + n \in Slot THEN t.recv_window[i + n] ELSE None
      /\ u.ack_base = wrapping_add(t.ack_base, n)
  BY DeliverPrefixProperties
<1>3. /\ d <= Len(T)
      /\ \A i \in 1 .. d : t.byte_output[i] = T[i]
      /\ \A i \in Slot : t.recv_window[i] # None =>
           d + i + 1 <= Len(T) /\ t.recv_window[i] = T[d + i + 1]
  BY DEF HoldsText
<1>4. t.ack_base = NumberOf(d)
  OBVIOUS
<1> HIDE DEF u, n, d
<1>5. d + n <= Len(T)
  <2>1. CASE n = 0
    BY <1>1, <1>3, <2>1
  <2>2. CASE n # 0
    <3>1. n - 1 \in Nat /\ n - 1 < n /\ d + (n - 1) + 1 = d + n
      BY <1>1, <1>2, <2>2
    <3>2. QED
      BY <1>2, <1>3, <3>1
  <2>3. QED
    BY <2>1, <2>2
<1>6. ASSUME NEW i \in 1 .. d + n PROVE u.byte_output[i] = T[i]
  <2>1. CASE i <= d
    <3>1. i \in 1 .. d
      BY <1>1, <1>2, <2>1
    <3>2. QED
      BY <1>2, <1>3, <2>1, <3>1
  <2>2. CASE ~ i <= d
    <3>1. i - d - 1 \in Nat /\ i - d - 1 < n /\ d + (i - d - 1) + 1 = i
      BY <1>1, <1>2, <2>2
    <3>2. t.recv_window[i - d - 1] = T[d + (i - d - 1) + 1]
      BY <1>2, <1>3, <3>1
    <3>3. QED
      BY <1>2, <2>2, <3>1, <3>2
  <2>3. QED
    BY <2>1, <2>2
<1>7. ASSUME NEW i \in Slot, u.recv_window[i] # None
      PROVE  d + n + i + 1 <= Len(T) /\ u.recv_window[i] = T[d + n + i + 1]
  <2>1. i + n \in Slot /\ u.recv_window[i] = t.recv_window[i + n]
    BY <1>2, <1>7
  <2>2. d + (i + n) + 1 = d + n + i + 1
    <3>1. i \in Nat
      BY DEF Slot
    <3>2. QED
      BY <1>1, <1>2, <3>1
  <2>3. QED
    BY <1>3, <1>7, <2>1, <2>2
<1>8. HoldsText(T, u)
  BY <1>2, <1>5, <1>6, <1>7 DEF HoldsText
<1>9. u.ack_base = NumberOf(d + n)
  <2>1. d < SEQ_SPACE /\ d + n < SEQ_SPACE
    BY <1>1, <1>2, <1>3, <1>5
  <2>2. QED
    BY <1>1, <1>2, <1>4, <2>1, NumberProperties
<1>10. QED
  BY <1>2, <1>8, <1>9 DEF u

LEMMA HandlePayloadReceived ==
    ASSUME NEW T, Fits(T), NEW t, WellTyped(t), Received(T, t), NEW seg, Spoken(T, seg)
    PROVE  Received(T, handle_payload(t, seg))
<1> DEFINE u == handle_payload(t, seg)
           panicked == [t EXCEPT !.state = "Panicked"]
<1>1. seg \in Segment
  BY DEF Spoken
<1>2. \/ u = t
      \/ u = panicked
      \/ /\ t.state = "Estab"
         /\ \E s : /\ WellTyped(s) /\ Stored(t, seg, s)
                   /\ \/ u = s
                      \/ u = send_ack(deliver_prefix(s), delivery_ack(deliver_prefix(s)))
  BY <1>1, HandlePayloadCases
<1> HIDE DEF u
<1>3. CASE u = t
  BY <1>3 DEF u
<1>4. CASE u = panicked
  <2>1. Keeps(t, panicked) /\ HasReceived(t)
    BY TcbHasReceived DEF Keeps, HasReceived
  <2>2. QED
    BY <1>4, <2>1, KeepsReceived DEF u
<1>5. ASSUME t.state = "Estab", NEW s, WellTyped(s), Stored(t, seg, s),
             \/ u = s
             \/ u = send_ack(deliver_prefix(s), delivery_ack(deliver_prefix(s)))
      PROVE  Received(T, u)
  <2>1. s.state = "Estab" /\ HoldsText(T, s) /\ s.ack_base = NumberOf(Len(s.byte_output))
    <3>1. HoldsText(T, t) /\ t.ack_base = NumberOf(Len(t.byte_output))
      BY <1>5 DEF Received
    <3>2. s.state = "Estab"
      BY <1>5 DEF Stored
    <3>3. QED
      BY <1>5, <3>1, <3>2, StoredHolds
  <2>2. CASE u = s
    BY <2>1, <2>2 DEF Received
  <2>3. CASE u = send_ack(deliver_prefix(s), delivery_ack(deliver_prefix(s)))
    <3> DEFINE v == deliver_prefix(s)
    <3>1. HoldsText(T, v) /\ v.ack_base = NumberOf(Len(v.byte_output)) /\ v.state = s.state
      BY <1>5, <2>1, DeliverHolds, DeliverPrefixProperties
    <3>2. WellTyped(v)
      BY <1>5, DeliverPrefixType
    <3>3. u = send_ack(v, delivery_ack(v))
      BY <2>3
    <3> HIDE DEF v
    <3>4. Received(T, v)
      BY <2>1, <3>1 DEF Received
    <3>5. Keeps(v, u) /\ HasReceived(v)
      BY <3>2, <3>3, SendSegKeeps, TcbHasReceived
    <3>6. QED
      BY <3>4, <3>5, KeepsReceived
  <2>4. QED
    BY <1>5, <2>2, <2>3
<1>6. QED
  BY <1>2, <1>3, <1>4, <1>5 DEF u

(* Whatever a TCB is handed, it goes on holding a part of its client's     *)
(* text in its place (handle_input_recv, tcp.rs 105-125).                  *)
LEMMA HandledReceived ==
    ASSUME NEW T, Fits(T), NEW c, ConnOK(c), Received(T, c.tcb),
           NEW in \in TCBInput, in.kind = "Receive" => Spoken(T, in.seg)
    PROVE  Received(T, handled(c, in))
<1> DEFINE t == c.tcb
<1>1. WellTyped(t) /\ HasReceived(t)
  BY TcbHasReceived DEF ConnOK
<1>2. ASSUME in.kind = "Receive" PROVE Received(T, handled(c, in))
  <2> DEFINE acked == handle_acks(t, in.seg)
             shaken == handle_shake(acked, in.seg)
             panicked == [shaken EXCEPT !.state = "Panicked"]
             received == handle_payload(shaken, in.seg)
  <2>1. Spoken(T, in.seg) /\ in.seg \in Segment
    BY <1>2 DEF Spoken
  <2>2. WellTyped(acked) /\ Received(T, acked)
    BY <1>1, <2>1, HandleAcksType, HandleAcksKeeps, KeepsReceived
  <2> HIDE DEF acked
  <2>3. WellTyped(shaken) /\ Received(T, shaken)
    BY <2>1, <2>2, HandleShakeType, HandleShakeReceived
  <2>4. handled(c, in) = panicked \/ handled(c, in) = handle_seg(t, in.seg)
    BY <1>2 DEF handled, acked
  <2>5. handle_seg(t, in.seg) = received \/ handle_seg(t, in.seg) = handle_close(received)
    BY DEF handle_seg, acked
  <2> HIDE DEF shaken
  <2>6. WellTyped(received) /\ Received(T, received)
    BY <2>1, <2>3, HandlePayloadType, HandlePayloadReceived
  <2> HIDE DEF received
  <2>7. Keeps(shaken, panicked) /\ HasReceived(shaken)
    BY <2>3, TcbHasReceived DEF Keeps, HasReceived
  <2>8. Keeps(received, handle_close(received)) /\ HasReceived(received)
    BY <2>6, TcbHasReceived DEF Keeps, HasReceived, handle_close
  <2>9. QED
    BY <2>3, <2>4, <2>5, <2>6, <2>7, <2>8, KeepsReceived
<1>3. CASE in.kind = "Send"
  <2>1. handled(c, in) = send(t, in.data)
    BY <1>3 DEF handled
  <2>2. QED
    BY <1>1, <2>1, SendKeeps, KeepsReceived
<1>4. CASE in.kind = "Close"
  <2>1. handled(c, in) = send_close(t)
    BY <1>4 DEF handled
  <2>2. QED
    BY <1>1, <2>1, SendCloseKeeps, KeepsReceived
<1>5. QED
  BY <1>2, <1>3, <1>4, InputKinds


-----------------------------------------------------------------------------
(* What a session reads.                                                   *)

LEMMA StartsProperties ==
    ASSUME NEW T, T \in Seq(Byte)
    PROVE  /\ 0 \in Starts(T)
           /\ \A b \in Starts(T) : b < Len(T) /\ b + T[b + 1] + 1 <= Len(T)
                                   => b + T[b + 1] + 1 \in Starts(T)
<1>1. Len(T) \in Nat
  BY LenProperties
<1>2. 0 \in Starts(T)
  BY <1>1 DEF Starts, ClosedUnderStrings
<1>3. ASSUME NEW b \in Starts(T), b < Len(T), b + T[b + 1] + 1 <= Len(T)
      PROVE  b + T[b + 1] + 1 \in Starts(T)
  <2> DEFINE next == b + T[b + 1] + 1
  <2>1. b \in Nat
    BY <1>1 DEF Starts
  <2>2. T[b + 1] \in Nat
    <3>1. b + 1 \in 1 .. Len(T)
      BY <1>1, <1>3, <2>1
    <3>2. T[b + 1] \in Byte
      BY <3>1, ElementOfSeq
    <3>3. QED
      BY <3>2, ServerAssumption
  <2>3. next \in 0 .. Len(T)
    BY <1>1, <1>3, <2>1, <2>2
  <2>4. ASSUME NEW B \in SUBSET (0 .. Len(T)), ClosedUnderStrings(T, B) PROVE next \in B
    BY <1>3, <2>4 DEF Starts, ClosedUnderStrings
  <2> HIDE DEF next
  <2>5. next \in Starts(T)
    BY <2>3, <2>4 DEF Starts
  <2>6. QED
    BY <2>5 DEF next
<1>4. QED
  BY <1>2, <1>3

(* A session that stands where a string starts reads that string, and then *)
(* stands where the next one starts (recv_str, lib.rs 49-52).              *)
LEMMA ReadInStep ==
    ASSUME NEW T, Fits(T), Strings(T), NEW c, ConnOK(c), HoldsText(T, c.tcb),
           c.read \in Starts(T), complete(c)
    PROVE  /\ recv_str(c) \in Seq(Char)
           /\ c.read + Head(unread(c)) + 1 \in Starts(T)
           /\ c.read < Len(T) /\ After(T, c.read) <= Len(T)
           /\ recv_str(c) = StringAt(T, c.read)
           /\ c.read + Head(unread(c)) + 1 = After(T, c.read)
<1> DEFINE out == c.tcb.byte_output
           b == c.read
           rest == unread(c)
           n == Head(rest)
           tail == Tail(rest)
           s == Taken(tail, n)
<1>1. /\ out \in Seq(Byte) /\ Len(out) \in Nat /\ b \in Nat /\ b <= Len(out)
      /\ T \in Seq(Byte) /\ Len(T) \in Nat /\ Len(out) <= Len(T)
      /\ \A i \in 1 .. Len(out) : out[i] = T[i]
  BY LenProperties DEF ConnOK, Conn, WellTyped, TCB, Fits, HoldsText
<1>2. rest # << >> /\ Len(rest) > n
  BY DEF complete
<1> HIDE DEF out, b
<1>3. /\ rest \in Seq(Byte) /\ Len(rest) = Len(out) - b
      /\ \A i \in 1 .. Len(out) - b : rest[i] = out[b + i]
  <2>1. b \in 0 .. Len(out)
    BY <1>1
  <2>2. rest = Dropped(out, b)
    BY DEF unread, out, b
  <2> HIDE DEF rest
  <2>3. QED
    BY <1>1, <2>1, <2>2, DrainProperties
<1> HIDE DEF rest
<1>4. /\ n = rest[1] /\ n \in Byte /\ n \in Nat
      /\ tail \in Seq(Byte) /\ Len(tail) = Len(rest) - 1
      /\ \A i \in 1 .. Len(tail) : tail[i] = rest[i + 1]
  <2>1. /\ Head(rest) = rest[1] /\ Head(rest) \in Byte
        /\ tail \in Seq(Byte) /\ Len(tail) = Len(rest) - 1
        /\ \A i \in 1 .. Len(tail) : tail[i] = rest[i + 1]
    BY <1>2, <1>3, HeadTailProperties
  <2>2. n \in Nat
    BY <2>1, ServerAssumption
  <2>3. QED
    BY <2>1, <2>2
<1> HIDE DEF n, tail
<1>5. b < Len(T) /\ b + n + 1 <= Len(out) /\ b + n + 1 <= Len(T)
  <2>1. \A x, y, m, l \in Nat : x - y > m /\ x <= l => y < l /\ y + m + 1 <= x /\ y + m + 1 <= l
    BY ONLY SMT
  <2>2. Len(out) - b > n /\ n \in Nat
    BY <1>2, <1>3, <1>4
  <2>3. QED
    BY <1>1, <2>1, <2>2
<1>6. n = T[b + 1]
  <2>1. 1 \in 1 .. Len(out) - b /\ b + 1 \in 1 .. Len(out)
    BY <1>1, <1>4, <1>5
  <2>2. QED
    BY <1>1, <1>3, <1>4, <2>1
<1>7. b + n + 1 \in Starts(T)
  BY <1>1, <1>5, <1>6, StartsProperties DEF b
<1>8. /\ s \in Seq(Byte) /\ Len(s) = n /\ \A i \in 1 .. n : s[i] = tail[i]
  <2>1. n \in 0 .. Len(tail)
    BY <1>1, <1>2, <1>3, <1>4
  <2>2. QED
    BY <1>4, <2>1, DrainProperties
<1> HIDE DEF s
<1>9. ASSUME NEW i \in 1 .. n PROVE s[i] \in Char
  <2>1. /\ i \in 1 .. Len(tail) /\ i + 1 \in 1 .. Len(out) - b
        /\ b + (i + 1) \in 1 .. Len(out) /\ b + (i + 1) = b + 1 + i /\ b + 1 + i <= Len(T)
    BY <1>1, <1>3, <1>4, <1>5
  <2>2. s[i] = T[b + 1 + i]
    BY <1>1, <1>3, <1>4, <1>8, <2>1
  <2>3. QED
    BY <1>5, <1>6, <2>1, <2>2 DEF Strings, b
<1>10. s \in Seq(Char)
  <2>1. DOMAIN s = 1 .. n /\ s = [i \in 1 .. n |-> s[i]]
    BY <1>8, LenProperties
  <2>2. [i \in 1 .. n |-> s[i]] \in Seq(Char)
    BY <1>4, <1>9, IsASeq
  <2>3. QED
    BY <2>1, <2>2
<1>11. s = StringAt(T, b)
  <2> DEFINE u == SubSeq(T, b + 2, b + 1 + n)
  <2>1. \A i \in b + 2 .. b + 1 + n : T[i] \in Byte
    <3> TAKE i \in b + 2 .. b + 1 + n
    <3>1. i \in 1 .. Len(T)
      BY <1>1, <1>4, <1>5
    <3>2. QED
      BY <1>1, <3>1, ElementOfSeq
  <2>2. b + 2 \in Int /\ b + 1 + n \in Int
    BY <1>1, <1>4
  <2>3. /\ u \in Seq(Byte)
        /\ Len(u) = IF b + 2 <= b + 1 + n THEN (b + 1 + n) - (b + 2) + 1 ELSE 0
        /\ \A i \in 1 .. (b + 1 + n) - (b + 2) + 1 : u[i] = T[(b + 2) + i - 1]
    BY <2>1, <2>2, SubSeqProperties
  <2> HIDE DEF u
  <2>4. (b + 1 + n) - (b + 2) + 1 = n /\ (b + 2 <= b + 1 + n <=> n # 0)
    BY <1>1, <1>4
  <2>5. Len(u) = n
    BY <2>3, <2>4
  <2>6. ASSUME NEW i \in 1 .. n PROVE s[i] = u[i]
    <3>1. /\ i \in 1 .. Len(tail) /\ i + 1 \in 1 .. Len(out) - b
          /\ b + (i + 1) \in 1 .. Len(out) /\ b + (i + 1) = (b + 2) + i - 1
      BY <1>1, <1>3, <1>4, <1>5
    <3>2. s[i] = T[(b + 2) + i - 1]
      BY <1>1, <1>3, <1>4, <1>8, <3>1
    <3>3. QED
      BY <2>3, <2>4, <3>2
  <2>7. s = u
    BY <1>8, <2>3, <2>5, <2>6, SeqEqual
  <2>8. QED
    BY <1>6, <2>7 DEF u, StringAt
<1>12. b + n + 1 = After(T, b)
  BY <1>1, <1>4, <1>6 DEF After
<1>13. QED
  BY <1>5, <1>7, <1>10, <1>11, <1>12 DEF recv_str, s, tail, n, rest, b


-----------------------------------------------------------------------------
(* Sessions stay in step.                                                  *)

LEMMA TalkProperties ==
    ASSUME NEW text, ClientsTalk(text), NEW p \in Peer
    PROVE  /\ Fits(text[p]) /\ Strings(text[p])
           /\ \A seg \in Sent[p] : Spoken(text[p], seg)
BY InputSegments DEF ClientsTalk, Fits, Spoken

(* What a session does with its own fields and with the channel.           *)
LEMMA SessionFieldsInStep ==
    ASSUME NEW text, NEW p \in Peer, NEW c, ConnOK(c), SessionInStep(text, p, c),
           NEW place, NEW s
    PROVE  /\ SessionInStep(text, p, [c EXCEPT !.session = place])
           /\ SessionInStep(text, p, [c EXCEPT !.session = place, !.string = s])
           /\ SessionInStep(text, p, [c EXCEPT !.dropped = TRUE])
BY DEF ConnOK, Conn, SessionInStep

LEMMA EnqueueInStep ==
    ASSUME NEW text, NEW p \in Peer, NEW c, ConnOK(c), SessionInStep(text, p, c),
           NEW in \in TCBInput, in.kind = "Receive" => in.seg \in Sent[p]
    PROVE  SessionInStep(text, p, enqueue(c, in))
<1> DEFINE q == Append(c.input, in)
           d == [c EXCEPT !.input = Append(@, in)]
<1>1. c.input \in Seq(TCBInput) /\ Len(c.input) \in Nat
  BY LenProperties DEF ConnOK, Conn
<1>2. /\ Len(q) = Len(c.input) + 1
      /\ \A k \in 1 .. Len(c.input) : q[k] = c.input[k]
      /\ q[Len(c.input) + 1] = in
  BY <1>1, AppendProperties
<1> HIDE DEF q
<1>3. \A k \in 1 .. Len(q) : q[k].kind = "Receive" => q[k].seg \in Sent[p]
  <2> TAKE k \in 1 .. Len(q)
  <2>1. CASE k = Len(c.input) + 1
    BY <1>2, <2>1
  <2>2. CASE k # Len(c.input) + 1
    <3>1. k \in 1 .. Len(c.input)
      BY <1>1, <1>2, <2>2
    <3>2. QED
      BY <1>2, <3>1 DEF SessionInStep
  <2>3. QED
    BY <2>1, <2>2
<1>4. d.tcb = c.tcb /\ d.read = c.read /\ d.input = q
  BY DEF ConnOK, Conn, q
<1> HIDE DEF d
<1>5. SessionInStep(text, p, d)
  BY <1>3, <1>4 DEF SessionInStep
<1>6. QED
  BY <1>5 DEF enqueue, d

(* A new TCB has received nothing, and its session has read nothing.       *)
LEMMA NewConnInStep ==
    ASSUME NEW text, ClientsTalk(text), NEW p \in Peer, NEW seg \in Sent[p]
    PROVE  SessionInStep(text, p, NewConn(seg))
<1> DEFINE T == text[p]
           t == new(1)
           c == NewConn(seg)
<1>1. Fits(T) /\ Len(T) \in Nat /\ T \in Seq(Byte)
  BY TalkProperties, TextNumbers DEF Fits
<1>2. /\ t.byte_output = << >> /\ t.state = "Listen"
      /\ \A i \in Slot : t.recv_window[i] = None
  BY DEF new
<1>3. c.tcb = t /\ c.read = 0 /\ c.input = << Receive(seg) >>
  BY DEF NewConn
<1> HIDE DEF T, t, c
<1>4. Received(T, t)
  BY <1>1, <1>2 DEF Received, HoldsText
<1>5. 0 \in Starts(T)
  BY <1>1, StartsProperties
<1>6. Receive(seg).seg \in Sent[p]
  BY DEF Receive
<1> DEFINE in == Receive(seg)
<1> HIDE DEF in
<1>7. Len(<< in >>) = 1 /\ << in >>[1] = in
  OBVIOUS
<1>8. \A k \in 1 .. 1 : << in >>[k].kind = "Receive" => << in >>[k].seg \in Sent[p]
  BY <1>6, <1>7 DEF in
<1>9. QED
  BY <1>3, <1>4, <1>5, <1>7, <1>8 DEF SessionInStep, T, c, in

(* One connection at a time.                                               *)
LEMMA SessionStep ==
    ASSUME TypeOK, NEW text, SessionInvariant(text), NEW p \in Peer,
           NEW i \in DOMAIN conns[p], NEW c, c \in Conn, SessionInStep(text, p, c),
           conns' = [conns EXCEPT ![p][i] = c],
           NEW s \in Seq(Char), files' = files \/ files' = [files EXCEPT ![p] = files[p] \o s]
    PROVE  SessionInvariant(text)'
<1> DEFINE q == [conns[p] EXCEPT ![i] = c]
<1>1. /\ conns \in [Peer -> Seq(Conn)] /\ conns[p] \in Seq(Conn) /\ i \in 1 .. Len(conns[p])
      /\ files \in [Peer -> Seq(Byte)]
  BY TypeOKByConn, LenProperties DEF ConnsOK
<1>2. /\ DOMAIN q = DOMAIN conns[p]
      /\ \A j \in DOMAIN conns[p] : q[j] = IF j = i THEN c ELSE conns[p][j]
  BY <1>1, ExceptSeq, LenProperties
<1>3. conns' = [conns EXCEPT ![p] = q]
  BY <1>1
<1> HIDE DEF q
<1>4. \A r \in Peer : conns'[r] = IF r = p THEN q ELSE conns[r]
  BY <1>1, <1>3
<1>5. \A r \in Peer : files'[r] \in Seq(Char)
  <2>1. files[p] \o s \in Seq(Char)
    <3>1. files[p] \in Seq(Char)
      BY DEF SessionInvariant
    <3>2. QED
      BY <3>1, ConcatProperties
  <2>2. QED
    BY <1>1, <2>1 DEF SessionInvariant
<1>6. ASSUME NEW r \in Peer, NEW j \in DOMAIN conns'[r]
      PROVE  SessionInStep(text, r, conns'[r][j])
  <2>1. CASE r = p
    BY <1>2, <1>4, <1>6, <2>1 DEF SessionInvariant
  <2>2. CASE r # p
    BY <1>4, <1>6, <2>2 DEF SessionInvariant
  <2>3. QED
    BY <2>1, <2>2
<1>7. QED
  BY <1>5, <1>6 DEF SessionInvariant, SessionInStep


LEMMA HandleInputInStep ==
    ASSUME TypeOK, NEW text, ClientsTalk(text), SessionInvariant(text),
           NEW p \in Peer, NEW i \in DOMAIN conns[p], HandleInput(p, i),
           NEW c, conns' = [conns EXCEPT ![p][i] = c]
    PROVE  SessionInStep(text, p, c)
<1> DEFINE b == conns[p][i]
           in == Head(b.input)
           rest == Tail(b.input)
           t == handled(b, in)
           d == [b EXCEPT !.tcb = t, !.input = rest]
<1>1. ConnsOK /\ ConnOK(b) /\ SessionInStep(text, p, b) /\ Fits(text[p])
  BY TypeOKByConn, TalkProperties DEF ConnsOK, SessionInvariant
<1>2. b.input \in Seq(TCBInput) /\ b.input # << >>
  BY <1>1 DEF ConnOK, Conn, HandleInput
<1>3. /\ in \in TCBInput /\ in = b.input[1] /\ Len(b.input) \in Nat /\ 1 <= Len(b.input)
      /\ Len(rest) = Len(b.input) - 1
      /\ \A k \in 1 .. Len(rest) : rest[k] = b.input[k + 1]
  <2>1. Len(b.input) \in Nat /\ Len(b.input) # 0
    BY <1>2, EmptySeq, LenProperties
  <2>2. QED
    BY <1>2, <2>1, HeadTailProperties
<1>4. c = d
  <2>1. conns' = [conns EXCEPT ![p][i] = d]
    BY DEF HandleInput
  <2>2. conns'[p][i] = d /\ conns'[p][i] = c
    BY <1>1, <2>1 DEF ConnsOK
  <2>3. QED
    BY <2>2
<1> HIDE DEF t, rest, in
<1>5. d.tcb = t /\ d.input = rest /\ d.read = b.read
  BY <1>1 DEF ConnOK, Conn
<1> HIDE DEF d
<1>6. in.kind = "Receive" => Spoken(text[p], in.seg)
  <2>1. 1 \in 1 .. Len(b.input)
    BY <1>3
  <2>2. QED
    BY <1>1, <1>3, <2>1, TalkProperties DEF SessionInStep
<1>7. Received(text[p], t)
  <2>1. Received(text[p], b.tcb)
    BY <1>1 DEF SessionInStep
  <2> HIDE DEF b
  <2>2. QED
    BY <1>1, <1>3, <1>6, <2>1, HandledReceived DEF t
<1>8. \A k \in 1 .. Len(rest) : rest[k].kind = "Receive" => rest[k].seg \in Sent[p]
  <2> TAKE k \in 1 .. Len(rest)
  <2>1. k + 1 \in 1 .. Len(b.input)
    BY <1>3
  <2>2. QED
    BY <1>1, <1>3, <2>1 DEF SessionInStep
<1>9. QED
  BY <1>1, <1>4, <1>5, <1>7, <1>8 DEF SessionInStep

LEMMA TimeoutInStep ==
    ASSUME TypeOK, NEW text, SessionInvariant(text),
           NEW p \in Peer, NEW i \in DOMAIN conns[p], Timeout(p, i),
           NEW c, conns' = [conns EXCEPT ![p][i] = c]
    PROVE  SessionInStep(text, p, c)
<1> DEFINE b == conns[p][i]
           t == handle_resend(b.tcb)
           d == [b EXCEPT !.tcb = t]
<1>1. ConnsOK /\ ConnOK(b) /\ SessionInStep(text, p, b)
  BY TypeOKByConn DEF ConnsOK, SessionInvariant
<1>2. c = d
  <2>1. conns' = [conns EXCEPT ![p][i] = d]
    BY DEF Timeout
  <2>2. conns'[p][i] = d /\ conns'[p][i] = c
    BY <1>1, <2>1 DEF ConnsOK
  <2>3. QED
    BY <2>2
<1>3. Received(text[p], t)
  <2>1. HasReceived(b.tcb) /\ Received(text[p], b.tcb)
    BY <1>1, TcbHasReceived DEF ConnOK, SessionInStep
  <2> HIDE DEF b
  <2>2. QED
    BY <2>1, HandleResendKeeps, KeepsReceived
<1> HIDE DEF t
<1>4. d.tcb = t /\ d.input = b.input /\ d.read = b.read
  BY <1>1 DEF ConnOK, Conn
<1> HIDE DEF d
<1>5. QED
  BY <1>1, <1>2, <1>3, <1>4 DEF SessionInStep

LEMMA OpenInStep ==
    ASSUME TypeOK, NEW text, SessionInvariant(text),
           NEW p \in Peer, NEW i \in DOMAIN conns[p], Open(p, i),
           NEW c, conns' = [conns EXCEPT ![p][i] = c]
    PROVE  SessionInStep(text, p, c)
<1> DEFINE b == conns[p][i]
           in == Send(encoded(files[p]))
<1>1. ConnsOK /\ ConnOK(b) /\ SessionInStep(text, p, b) /\ files[p] \in Seq(Byte)
  BY TypeOKByConn DEF ConnsOK, SessionInvariant
<1>2. /\ in \in TCBInput /\ Close \in TCBInput
      /\ in.kind # "Receive" /\ Close.kind # "Receive"
  <2>1. in \in TCBInput /\ Close \in TCBInput
    BY <1>1, EncodedType, InputSegments
  <2>2. QED
    BY <2>1 DEF Send, Close
<1>3. /\ ConnOK(enqueue(b, Close)) /\ SessionInStep(text, p, enqueue(b, Close))
      /\ ConnOK(enqueue(b, in)) /\ SessionInStep(text, p, enqueue(b, in))
  BY <1>1, <1>2, EnqueueType, EnqueueInStep
<1>4. PICK d \in {refuse(b), greet(b, files[p])} : conns' = [conns EXCEPT ![p][i] = d]
  BY DEF Open
<1>5. c = d
  <2>1. conns'[p][i] = d /\ conns'[p][i] = c
    BY <1>1, <1>4 DEF ConnsOK
  <2>2. QED
    BY <2>1
<1>6. SessionInStep(text, p, refuse(b)) /\ SessionInStep(text, p, greet(b, files[p]))
  BY <1>3, SessionFieldsInStep DEF refuse, greet
<1>7. QED
  BY <1>4, <1>5, <1>6

LEMMA EchoInStep ==
    ASSUME TypeOK, NEW text, SessionInvariant(text),
           NEW p \in Peer, NEW i \in DOMAIN conns[p], Echo(p, i),
           NEW c, conns' = [conns EXCEPT ![p][i] = c]
    PROVE  SessionInStep(text, p, c)
<1> DEFINE b == conns[p][i]
           in == Send(encoded(b.string))
           place == IF b.dropped THEN "Ended" ELSE "Reading"
<1>1. ConnsOK /\ ConnOK(b) /\ SessionInStep(text, p, b) /\ b.string \in Seq(Byte)
  BY TypeOKByConn DEF ConnsOK, SessionInvariant, ConnOK, Conn
<1>2. in \in TCBInput /\ in.kind # "Receive"
  BY <1>1, EncodedType DEF Send
<1> DEFINE d == enqueue(b, in)
<1>3. ConnOK(d) /\ SessionInStep(text, p, d)
  BY <1>1, <1>2, EnqueueType, EnqueueInStep
<1>4. echoed(b) = [d EXCEPT !.session = place, !.string = << >>]
  BY DEF echoed
<1>5. c = echoed(b)
  <2>1. conns' = [conns EXCEPT ![p][i] = echoed(b)]
    BY DEF Echo
  <2>2. conns'[p][i] = echoed(b) /\ conns'[p][i] = c
    BY <1>1, <2>1 DEF ConnsOK
  <2>3. QED
    BY <2>2
<1> HIDE DEF d, place
<1>6. SessionInStep(text, p, [d EXCEPT !.session = place, !.string = << >>])
  BY <1>3, SessionFieldsInStep
<1>7. QED
  BY <1>4, <1>5, <1>6

LEMMA ReadInStepOfConn ==
    ASSUME TypeOK, NEW text, ClientsTalk(text), SessionInvariant(text),
           NEW p \in Peer, NEW i \in DOMAIN conns[p], Read(p, i),
           NEW c, conns' = [conns EXCEPT ![p][i] = c]
    PROVE  /\ SessionInStep(text, p, c)
           /\ \E s \in Seq(Char) : files' = [files EXCEPT ![p] = files[p] \o s]
<1> DEFINE b == conns[p][i]
           place == b.read + Head(unread(b)) + 1
           s == recv_str(b)
           d == [b EXCEPT !.session = "Echoing", !.string = s, !.read = place]
<1>1. /\ ConnsOK /\ ConnOK(b) /\ SessionInStep(text, p, b)
      /\ Fits(text[p]) /\ Strings(text[p]) /\ complete(b)
  BY TypeOKByConn, TalkProperties DEF ConnsOK, SessionInvariant, Read
<1>2. s \in Seq(Char) /\ place \in Starts(text[p])
  <2>1. HoldsText(text[p], b.tcb) /\ b.read \in Starts(text[p])
    BY <1>1 DEF SessionInStep, Received
  <2> HIDE DEF b
  <2>2. QED
    BY <1>1, <2>1, ReadInStep
<1>3. files' = [files EXCEPT ![p] = files[p] \o s]
  BY DEF Read
<1>4. c = d
  <2>1. conns' = [conns EXCEPT ![p][i] = d]
    BY ONLY Read(p, i) DEF Read
  <2>2. conns'[p][i] = d /\ conns'[p][i] = c
    BY <1>1, <2>1 DEF ConnsOK
  <2>3. QED
    BY <2>2
<1> HIDE DEF s, place
<1>5. d.tcb = b.tcb /\ d.input = b.input /\ d.read = place
  BY <1>1 DEF ConnOK, Conn
<1> HIDE DEF d
<1>6. SessionInStep(text, p, d)
  BY <1>1, <1>2, <1>5 DEF SessionInStep
<1>7. QED
  BY <1>2, <1>3, <1>4, <1>6

LEMMA DropInStep ==
    ASSUME TypeOK, NEW text, SessionInvariant(text),
           NEW p \in Peer, NEW i \in DOMAIN conns[p], Drop(p, i) \/ HangUp(p, i),
           NEW c, conns' = [conns EXCEPT ![p][i] = c]
    PROVE  SessionInStep(text, p, c)
<1> DEFINE b == conns[p][i]
<1>1. ConnsOK /\ ConnOK(b) /\ SessionInStep(text, p, b)
  BY TypeOKByConn DEF ConnsOK, SessionInvariant
<1>2. PICK d \in {[b EXCEPT !.dropped = TRUE], [b EXCEPT !.session = "Ended"]} :
        conns' = [conns EXCEPT ![p][i] = d]
  BY DEF Drop, HangUp
<1>3. c = d
  <2>1. conns'[p][i] = d /\ conns'[p][i] = c
    BY <1>1, <1>2 DEF ConnsOK
  <2>2. QED
    BY <2>1
<1>4. /\ SessionInStep(text, p, [b EXCEPT !.dropped = TRUE])
      /\ SessionInStep(text, p, [b EXCEPT !.session = "Ended"])
  BY <1>1, SessionFieldsInStep
<1>5. QED
  BY <1>2, <1>3, <1>4

(* Every step of a thread: only Read writes to the file.                   *)
LEMMA ThreadInStep ==
    ASSUME TypeOK, NEW text, ClientsTalk(text), SessionInvariant(text),
           NEW p \in Peer, NEW i \in DOMAIN conns[p], Thread(p, i)
    PROVE  SessionInvariant(text)'
<1>1. PICK c : Rewrites(p, i, c)
  BY ThreadStep
<1>2. c \in Conn /\ conns' = [conns EXCEPT ![p][i] = c]
  BY <1>1 DEF Rewrites, ConnOK
<1>3. << >> \in Seq(Char)
  BY EmptySeq
<1>4. CASE Read(p, i)
  <2>1. SessionInStep(text, p, c)
    BY <1>2, <1>4, ReadInStepOfConn
  <2>2. PICK s \in Seq(Char) : files' = [files EXCEPT ![p] = files[p] \o s]
    BY <1>2, <1>4, ReadInStepOfConn
  <2>3. QED
    BY <1>2, <2>1, <2>2, SessionStep
<1>5. CASE HandleInput(p, i)
  <2>1. SessionInStep(text, p, c) /\ files' = files
    BY <1>2, <1>5, HandleInputInStep DEF HandleInput
  <2>2. QED
    BY <1>2, <1>3, <2>1, SessionStep
<1>6. CASE Timeout(p, i)
  <2>1. SessionInStep(text, p, c) /\ files' = files
    BY <1>2, <1>6, TimeoutInStep DEF Timeout
  <2>2. QED
    BY <1>2, <1>3, <2>1, SessionStep
<1>7. CASE Drop(p, i) \/ HangUp(p, i)
  <2>1. SessionInStep(text, p, c) /\ files' = files
    BY <1>2, <1>7, DropInStep DEF Drop, HangUp
  <2>2. QED
    BY <1>2, <1>3, <2>1, SessionStep
<1>8. CASE Open(p, i)
  <2>1. SessionInStep(text, p, c) /\ files' = files
    BY <1>2, <1>8, OpenInStep DEF Open
  <2>2. QED
    BY <1>2, <1>3, <2>1, SessionStep
<1>9. CASE Echo(p, i)
  <2>1. SessionInStep(text, p, c) /\ files' = files
    BY <1>2, <1>9, EchoInStep DEF Echo
  <2>2. QED
    BY <1>2, <1>3, <2>1, SessionStep
<1>10. QED
  BY <1>4, <1>5, <1>6, <1>7, <1>8, <1>9 DEF Thread

(* A datagram of the client is put into the channel of its TCB, or is the  *)
(* first that a new TCB is given.                                          *)
LEMMA ForwardInStep ==
    ASSUME TypeOK, NEW text, SessionInvariant(text), NEW p \in Peer, NEW seg \in Sent[p],
           multiplexed_receive(p, seg), ForwardsTo(p, seg)
    PROVE  SessionInvariant(text)'
<1> DEFINE i == channels[p]
           b == conns[p][i]
           in == Receive(seg)
           d == enqueue(b, in)
<1>1. valid_channel_found(p) /\ i \in DOMAIN conns[p]
  BY DEF ForwardsTo
<1>2. ConnsOK /\ ConnOK(b) /\ SessionInStep(text, p, b)
  BY <1>1, TypeOKByConn DEF ConnsOK, SessionInvariant
<1>3. conns' = [conns EXCEPT ![p][i] = d] /\ files' = files
  BY <1>1 DEF multiplexed_receive, enqueue, valid_channel_found
<1>4. in \in TCBInput /\ in.seg \in Sent[p]
  <2>1. in \in TCBInput
    BY InputSegments
  <2>2. QED
    BY <2>1 DEF Receive
<1> HIDE DEF in
<1>5. d \in Conn /\ SessionInStep(text, p, d)
  <2>1. ConnOK(d)
    BY <1>2, <1>4, EnqueueType
  <2>2. QED
    BY <1>2, <1>4, <2>1, EnqueueInStep DEF ConnOK
<1> HIDE DEF d, b
<1>6. << >> \in Seq(Char)
  BY EmptySeq
<1> DEFINE j == i
<1>7. j \in DOMAIN conns[p] /\ conns' = [conns EXCEPT ![p][j] = d]
  BY <1>1, <1>3
<1> HIDE DEF j
<1>8. QED
  BY <1>3, <1>5, <1>6, <1>7, SessionStep

LEMMA ConnectInStep ==
    ASSUME TypeOK, NEW text, ClientsTalk(text), SessionInvariant(text),
           NEW p \in Peer, NEW seg \in Sent[p], Connects(p, seg)
    PROVE  SessionInvariant(text)'
<1> DEFINE c == NewConn(seg)
           s == Append(conns[p], c)
           n == Len(conns[p])
<1>1. ConnsOK /\ conns[p] \in Seq(Conn)
  BY TypeOKByConn DEF ConnsOK
<1>2. c \in Conn /\ SessionInStep(text, p, c)
  BY NewConnInStep DEF Connects, ConnOK
<1>3. conns' = [conns EXCEPT ![p] = s] /\ files' = files
  BY DEF Connects
<1> HIDE DEF c
<1>4. /\ n \in Nat /\ DOMAIN s = 1 .. n + 1 /\ DOMAIN conns[p] = 1 .. n
      /\ \A i \in 1 .. n : s[i] = conns[p][i]
      /\ s[n + 1] = c
  BY <1>1, <1>2, AppendProperties, LenProperties
<1> HIDE DEF s, n
<1>5. \A q \in Peer : conns'[q] = IF q = p THEN s ELSE conns[q]
  BY <1>1, <1>3 DEF ConnsOK
<1>6. ASSUME NEW q \in Peer, NEW i \in DOMAIN conns'[q]
      PROVE  SessionInStep(text, q, conns'[q][i])
  <2>1. CASE q # p
    BY <1>5, <1>6, <2>1 DEF SessionInvariant
  <2>2. CASE q = p /\ i = n + 1
    BY <1>2, <1>4, <1>5, <2>2
  <2>3. CASE q = p /\ i # n + 1
    <3>1. i \in 1 .. n
      BY <1>4, <1>5, <1>6, <2>3
    <3>2. QED
      BY <1>4, <1>5, <2>3, <3>1 DEF SessionInvariant
  <2>4. QED
    BY <2>1, <2>2, <2>3
<1>7. QED
  BY <1>3, <1>6 DEF SessionInvariant, SessionInStep

LEMMA SessionInit ==
    ASSUME NEW text, Init
    PROVE  SessionInvariant(text)
<1>1. << >> \in Seq(Char) /\ DOMAIN << >> = {}
  BY EmptySeq
<1>2. QED
  BY <1>1 DEF Init, SessionInvariant

LEMMA SessionInvariantStep ==
    ASSUME NEW text, ClientsTalk(text), TypeOK, SessionInvariant(text), [Next]_vars
    PROVE  SessionInvariant(text)'
<1>1. ASSUME NEW p \in Peer, NEW seg \in Sent[p], multiplexed_receive(p, seg)
      PROVE  SessionInvariant(text)'
  <2>1. ForwardsTo(p, seg) \/ Connects(p, seg)
    BY <1>1, ReceiveStep
  <2>2. QED
    BY <1>1, <2>1, ForwardInStep, ConnectInStep
<1>2. ASSUME NEW p \in Peer, NEW i \in DOMAIN conns[p], Thread(p, i)
      PROVE  SessionInvariant(text)'
  BY <1>2, ThreadInStep
<1>3. CASE UNCHANGED vars
  BY <1>3 DEF vars, SessionInvariant, SessionInStep
<1>4. QED
  BY <1>1, <1>2, <1>3 DEF Next

(* Every TCB of the server holds a part of what its client says, in its    *)
(* place, and every session has read whole strings, if each client sends   *)
(* its text from sequence number 2 on: whichever segments are lost, sent   *)
(* again or left over from an earlier connection of the same address       *)
(* (tcp.rs 165-211, lib.rs 49-70).                                         *)
THEOREM SessionsStayInStep == Spec => []SessionsInStep
<1>1. Init => SessionsInStep
  BY SessionInit DEF SessionsInStep
<1>2. TypeOK /\ SessionsInStep /\ [Next]_vars => SessionsInStep'
  BY TextAssumption, SessionInvariantStep DEF SessionsInStep
<1>3. QED
  BY <1>1, <1>2, TypeCorrect, PTL DEF Spec

(* So the files of a server hold characters only, however the strings are  *)
(* cut into segments and however the connections of a client follow each   *)
(* other (lib.rs 49-52, 66-70, tcp.rs 165-211).                            *)
THEOREM FilesAlwaysHoldStrings == Spec => []FilesHoldStrings
<1>1. SessionsInStep => FilesHoldStrings
  BY DEF SessionsInStep, SessionInvariant, FilesHoldStrings
<1>2. QED
  BY <1>1, SessionsStayInStep, PTL

-----------------------------------------------------------------------------
(* What the sessions have read.                                            *)

Grows(text, p, i) ==
    LET b == conns[p][i].read IN
    /\ b \in Starts(text[p]) /\ b < Len(text[p]) /\ After(text[p], b) <= Len(text[p])
    /\ files' = [files EXCEPT ![p] = files[p] \o StringAt(text[p], b)]
    /\ conns' = [conns EXCEPT ![p] = conns'[p]] /\ DOMAIN conns'[p] = DOMAIN conns[p]
    /\ \A j \in DOMAIN conns[p] :
         conns'[p][j].read = IF j = i THEN After(text[p], b) ELSE conns[p][j].read

(* A session that reads goes from the start of a string to the next one,   *)
(* and adds the string to the file (lib.rs 66-70).                         *)
LEMMA ReadGrows ==
    ASSUME TypeOK, NEW text, ClientsTalk(text), SessionInvariant(text),
           NEW p \in Peer, NEW i \in DOMAIN conns[p], Read(p, i)
    PROVE  Grows(text, p, i)
<1> DEFINE b == conns[p][i]
           place == b.read + Head(unread(b)) + 1
           s == recv_str(b)
           d == [b EXCEPT !.session = "Echoing", !.string = s, !.read = place]
           q == [conns[p] EXCEPT ![i] = d]
<1>1. /\ ConnsOK /\ ConnOK(b) /\ SessionInStep(text, p, b)
      /\ Fits(text[p]) /\ Strings(text[p]) /\ complete(b)
  BY TypeOKByConn, TalkProperties DEF ConnsOK, SessionInvariant, Read
<1>2. /\ b.read \in Starts(text[p]) /\ b.read < Len(text[p])
      /\ After(text[p], b.read) <= Len(text[p])
      /\ s = StringAt(text[p], b.read) /\ place = After(text[p], b.read)
  <2>1. HoldsText(text[p], b.tcb) /\ b.read \in Starts(text[p])
    BY <1>1 DEF SessionInStep, Received
  <2> HIDE DEF b
  <2>2. QED
    BY <1>1, <2>1, ReadInStep
<1>3. files' = [files EXCEPT ![p] = files[p] \o s]
  BY DEF Read
<1>4. conns' = [conns EXCEPT ![p][i] = d]
  BY ONLY Read(p, i) DEF Read
<1> HIDE DEF s, place
<1>5. d.read = place
  BY <1>1 DEF ConnOK, Conn
<1> HIDE DEF d
<1>6. conns' = [conns EXCEPT ![p] = q] /\ conns'[p] = q
  BY <1>1, <1>4 DEF ConnsOK
<1>7. DOMAIN q = DOMAIN conns[p] /\ \A j \in DOMAIN conns[p] : q[j] = IF j = i THEN d ELSE conns[p][j]
  OBVIOUS
<1> HIDE DEF q
<1>8. conns' = [conns EXCEPT ![p] = conns'[p]]
  BY <1>6
<1>9. QED
  BY <1>2, <1>3, <1>5, <1>6, <1>7, <1>8 DEF Grows

\* a session that has read nothing starts at 0, and only a read moves it
ReadsStay ==
    /\ files' = files
    /\ \A p \in Peer :
         /\ DOMAIN conns[p] \subseteq DOMAIN conns'[p]
         /\ \A j \in DOMAIN conns'[p] :
              conns'[p][j].read = IF j \in DOMAIN conns[p] THEN conns[p][j].read ELSE 0

LEMMA RewriteReads ==
    ASSUME TypeOK, NEW p \in Peer, NEW i \in DOMAIN conns[p], NEW c,
           conns' = [conns EXCEPT ![p][i] = c], c.read = conns[p][i].read, files' = files
    PROVE  ReadsStay
<1> DEFINE q == [conns[p] EXCEPT ![i] = c]
<1>1. ConnsOK
  BY TypeOKByConn
<1>2. \A r \in Peer : conns'[r] = IF r = p THEN q ELSE conns[r]
  BY <1>1 DEF ConnsOK
<1>3. DOMAIN q = DOMAIN conns[p] /\ \A j \in DOMAIN conns[p] : q[j] = IF j = i THEN c ELSE conns[p][j]
  OBVIOUS
<1> HIDE DEF q
<1>4. QED
  BY <1>2, <1>3 DEF ReadsStay

LEMMA ThreadReads ==
    ASSUME TypeOK, NEW p \in Peer, NEW i \in DOMAIN conns[p], Thread(p, i), ~ Read(p, i)
    PROVE  ReadsStay
<1> DEFINE b == conns[p][i]
<1>1. ConnOK(b) /\ b \in Conn
  BY TypeOKByConn DEF ConnsOK, ConnOK
<1>2. \A in : enqueue(b, in).read = b.read /\ DOMAIN enqueue(b, in) = DOMAIN b
  BY <1>1 DEF enqueue, Conn
<1>3. CASE HandleInput(p, i)
  <2> DEFINE t == handled(b, Head(b.input))
             rest == Tail(b.input)
             c == [b EXCEPT !.tcb = t, !.input = rest]
  <2>1. conns' = [conns EXCEPT ![p][i] = c] /\ files' = files
    BY ONLY <1>3 DEF HandleInput
  <2> HIDE DEF t, rest
  <2>2. c.read = b.read
    BY <1>1 DEF Conn
  <2> HIDE DEF c
  <2>3. QED
    BY <2>1, <2>2, RewriteReads
<1>4. CASE Timeout(p, i)
  <2> DEFINE t == handle_resend(b.tcb)
             c == [b EXCEPT !.tcb = t]
  <2>1. conns' = [conns EXCEPT ![p][i] = c] /\ files' = files
    BY ONLY <1>4 DEF Timeout
  <2> HIDE DEF t
  <2>2. c.read = b.read
    BY <1>1 DEF Conn
  <2> HIDE DEF c
  <2>3. QED
    BY <2>1, <2>2, RewriteReads
<1>5. CASE Drop(p, i) \/ HangUp(p, i)
  <2>1. PICK c \in {[b EXCEPT !.dropped = TRUE], [b EXCEPT !.session = "Ended"]} :
          conns' = [conns EXCEPT ![p][i] = c] /\ files' = files
    BY <1>5 DEF Drop, HangUp
  <2>2. c.read = b.read
    BY <1>1 DEF Conn
  <2>3. QED
    BY <2>1, <2>2, RewriteReads
<1>6. CASE Open(p, i)
  <2>1. PICK c \in {refuse(b), greet(b, files[p])} :
          conns' = [conns EXCEPT ![p][i] = c] /\ files' = files
    BY <1>6 DEF Open
  <2>2. ASSUME NEW in PROVE \A place : [enqueue(b, in) EXCEPT !.session = place].read = b.read
    <3> DEFINE e == enqueue(b, in)
    <3>1. e.read = b.read /\ DOMAIN e = DOMAIN b
      BY <1>2
    <3> HIDE DEF e
    <3>2. QED
      BY <1>1, <3>1 DEF Conn, e
  <2>3. c.read = b.read
    <3>1. refuse(b).read = b.read /\ greet(b, files[p]).read = b.read
      BY <2>2 DEF refuse, greet
    <3>2. QED
      BY <2>1, <3>1
  <2>4. QED
    BY <2>1, <2>3, RewriteReads
<1>7. CASE Echo(p, i)
  <2> DEFINE place == IF b.dropped THEN "Ended" ELSE "Reading"
             in == Send(encoded(b.string))
             e == enqueue(b, in)
             c == [e EXCEPT !.session = place, !.string = << >>]
  <2>1. conns' = [conns EXCEPT ![p][i] = c] /\ files' = files
    BY ONLY <1>7 DEF Echo, echoed
  <2>2. e.read = b.read /\ DOMAIN e = DOMAIN b
    BY <1>2
  <2> HIDE DEF e, place
  <2>3. c.read = b.read
    BY <1>1, <2>2 DEF Conn
  <2> HIDE DEF c
  <2>4. QED
    BY <2>1, <2>3, RewriteReads
<1>8. QED
  BY <1>3, <1>4, <1>5, <1>6, <1>7 DEF Thread

(* Every step of the server: a session reads, or none does.                *)
LEMMA StepReads ==
    ASSUME TypeOK, [Next]_vars
    PROVE  ReadsStay \/ \E p \in Peer : \E i \in DOMAIN conns[p] : Read(p, i)
<1>1. ASSUME NEW p \in Peer, NEW seg \in Sent[p], multiplexed_receive(p, seg)
      PROVE  ReadsStay
  <2> DEFINE n == Len(conns[p])
             d == NewConn(seg)
             s == Append(conns[p], d)
  <2>1. ConnsOK /\ conns[p] \in Seq(Conn) /\ n \in Nat
    BY TypeOKByConn, LenProperties DEF ConnsOK
  <2>2. CASE Connects(p, seg)
    <3>1. d \in Conn /\ d.read = 0 /\ conns' = [conns EXCEPT ![p] = s] /\ files' = files
      BY <2>2 DEF Connects, ConnOK, NewConn
    <3> HIDE DEF d
    <3>2. /\ DOMAIN s = 1 .. n + 1 /\ DOMAIN conns[p] = 1 .. n
          /\ \A j \in 1 .. n : s[j] = conns[p][j]
          /\ s[n + 1] = d
      BY <2>1, <3>1, AppendProperties, LenProperties
    <3> HIDE DEF s, n
    <3>3. \A q \in Peer : conns'[q] = IF q = p THEN s ELSE conns[q]
      BY <2>1, <3>1 DEF ConnsOK
    <3>4. \A j \in 1 .. n + 1 : j \notin 1 .. n => j = n + 1
      BY <2>1 DEF n
    <3>5. DOMAIN conns[p] \subseteq DOMAIN s
      BY <2>1, <3>2 DEF n
    <3>6. \A j \in DOMAIN s : s[j].read = IF j \in DOMAIN conns[p] THEN conns[p][j].read ELSE 0
      BY ONLY <3>1, <3>2, <3>4
    <3>7. QED
      BY ONLY <3>1, <3>3, <3>5, <3>6 DEF ReadsStay
  <2>3. CASE ForwardsTo(p, seg)
    <3> DEFINE i == channels[p]
               b == conns[p][i]
               in == Append(b.input, Receive(seg))
               c == [b EXCEPT !.input = in]
               j == i
    <3>1. valid_channel_found(p) /\ i \in DOMAIN conns[p]
      BY <2>3 DEF ForwardsTo
    <3>2. conns' = [conns EXCEPT ![p][i] = c] /\ files' = files
      BY <1>1, <3>1 DEF multiplexed_receive
    <3>3. c.read = b.read
      BY <2>1, <3>1 DEF ConnsOK, ConnOK, Conn
    <3> HIDE DEF c
    <3>4. j \in DOMAIN conns[p] /\ conns' = [conns EXCEPT ![p][j] = c] /\ c.read = conns[p][j].read
      BY <3>1, <3>2, <3>3
    <3> HIDE DEF j
    <3>5. QED
      BY <3>2, <3>4, RewriteReads
  <2>4. QED
    BY <1>1, <2>2, <2>3, ReceiveStep
<1>2. ASSUME NEW p \in Peer, NEW i \in DOMAIN conns[p], Thread(p, i), ~ Read(p, i)
      PROVE  ReadsStay
  BY <1>2, ThreadReads
<1>3. CASE UNCHANGED vars
  BY <1>3 DEF vars, ReadsStay
<1>4. QED
  BY <1>1, <1>2, <1>3 DEF Next

(* So no session writes to a file what its client has not said, nor twice, *)
(* nor out of turn: also when data of an earlier connection is already in  *)
(* the window of its TCB, and when several sessions of an address write    *)
(* (lib.rs 66-70, tcp.rs 165-211).                                         *)
THEOREM FilesOnlyGrowByStrings == Spec => FilesGrowByStrings
<1> DEFINE Grown(p) ==
             files'[p] # files[p] =>
               \E i \in DOMAIN conns[p] : LET b == conns[p][i].read IN
                 /\ b \in Starts(Text[p]) /\ b < Len(Text[p]) /\ After(Text[p], b) <= Len(Text[p])
                 /\ files'[p] = files[p] \o StringAt(Text[p], b)
                 /\ conns'[p][i].read = After(Text[p], b)
<1>1. ASSUME TypeOK, SessionsInStep, [Next]_vars PROVE \A p \in Peer : Grown(p)
  <2>1. CASE ReadsStay
    BY <2>1 DEF ReadsStay
  <2>2. ASSUME NEW q \in Peer, NEW i \in DOMAIN conns[q], Read(q, i)
        PROVE  \A p \in Peer : Grown(p)
    <3>1. Grows(Text, q, i)
      BY <1>1, <2>2, TextAssumption, ReadGrows DEF SessionsInStep
    <3>2. \A p \in Peer : files'[p] = IF p = q THEN files[q] \o StringAt(Text[q], conns[q][i].read)
                                      ELSE files[p]
      BY <1>1, <3>1 DEF Grows, TypeOK
    <3>3. QED
      BY <2>2, <3>1, <3>2 DEF Grows
  <2>3. QED
    BY <1>1, <2>1, <2>2, StepReads
<1>2. TypeOK /\ SessionsInStep /\ [Next]_vars => [\A p \in Peer : Grown(p)]_vars
  BY <1>1
<1>3. QED
  BY <1>2, SessionsStayInStep, TypeCorrect, PTL DEF Spec, FilesGrowByStrings
=============================================================================
