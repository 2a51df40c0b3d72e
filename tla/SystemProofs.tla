---------------------------- MODULE SystemProofs ----------------------------
(***************************************************************************)
(* Theorems about the whole program: what is proved of the server against  *)
(* clients left open holds against the clients there are.                  *)
(***************************************************************************)
EXTENDS Clients, ServerProofs

LEMMA SystemStep == SystemNext => [Next]_vars
<1> SUFFICES ASSUME SystemNext PROVE [Next]_vars
  OBVIOUS
<1>1. PICK p \in Peer :
        \/ Network(p)
        \/ Start(p) \/ ClientMain(p)
        \/ ClientHandles(p) \/ ClientTimeout(p) \/ ClientDrop(p)
        \/ \E i \in DOMAIN conns[p] :
             ServerHandles(p, i) \/ ServerTimeout(p, i) \/ ServerSession(p, i)
  BY DEF SystemNext
<1>2. CASE \E seg \in client[p].tcb.socket : Arrive(p, seg)
  <2>1. PICK seg : multiplexed_receive(p, seg)
    BY <1>2 DEF Arrive
  <2>2. seg \in Sent[p]
    BY <2>1 DEF multiplexed_receive
  <2>3. QED
    BY <2>1, <2>2 DEF Next
<1>3. CASE \E seg \in down[p] : socket_loop(p, seg)
  BY <1>3 DEF socket_loop
<1>4. CASE Start(p) \/ ClientMain(p)
  BY <1>4 DEF Start, ClientMain, ReadContents, ReadEcho, Die, Join, vars
<1>5. CASE ClientHandles(p) \/ ClientTimeout(p) \/ ClientDrop(p)
  BY <1>5 DEF ClientHandles, ClientTimeout, ClientDrop
<1>6. ASSUME NEW i \in DOMAIN conns[p],
             ServerHandles(p, i) \/ ServerTimeout(p, i) \/ ServerSession(p, i)
      PROVE  Next
  <2>1. Thread(p, i)
    BY <1>6 DEF ServerHandles, ServerTimeout, ServerSession, Thread
  <2>2. QED
    BY <2>1 DEF Next
<1>7. QED
  BY <1>1, <1>2, <1>3, <1>4, <1>5, <1>6 DEF Network

(* The server within the program behaves as the server that Server         *)
(* describes, with its clients left open: each step of the program is one  *)
(* of its steps, or leaves its threads, map and files alone (lib.rs        *)
(* 83-187).                                                                *)
LEMMA SystemImplementsServer == SystemSpec => Spec
<1>1. SystemInit => Init
  BY DEF SystemInit
<1>2. [SystemNext]_systemVars => [Next]_vars
  BY SystemStep DEF systemVars, vars
<1>3. QED
  BY <1>1, <1>2, PTL DEF SystemSpec, Spec

(* So the server never runs two TCBs for one client, whatever the clients  *)
(* of run_client do and however often they are run (lib.rs 99-128).        *)
THEOREM SystemOneLiveTcb == SystemSpec => []OneLiveTcb
BY SystemImplementsServer, OneLiveTcbHolds, PTL

-----------------------------------------------------------------------------
(* The stream of a client, and its numbers.                                *)

LEMMA StoryNumbers ==
    /\ client_text \in Seq(Byte) /\ Len(client_text) \in Nat /\ Fits(client_text)
    /\ Len(client_text) + WINDOW_SIZE < SEQ_SPACE
    /\ Len(client_text) = Len(Story) + 1
    /\ client_text[1] = Len(Story)
    /\ \A i \in 1 .. Len(Story) : client_text[i + 1] \in Char
    /\ Len(Story) \in Nat
    /\ WINDOW_SIZE \in Nat /\ 1 <= WINDOW_SIZE /\ SEQ_SPACE \in Nat /\ 3 <= SEQ_SPACE
    /\ 1 \in SeqNum /\ 2 \in SeqNum /\ wrapping_add(1, 1) = 2 /\ NumberOf(0) = 2
    /\ \A k \in 0 .. Len(client_text) : NumberOf(k) \in SeqNum /\ NumberOf(k) # 1
<1> DEFINE n == Len(Story)
           prefix == << n % (MAX_BYTE + 1) >>
<1>1. /\ Story \in Seq(Char) /\ n \in Nat /\ n <= MAX_BYTE /\ MAX_BYTE \in Nat
      /\ Char \subseteq Byte /\ Byte = 0 .. MAX_BYTE
  BY SystemAssumption, ServerAssumption, StoryAssumption, LenProperties
<1>2. Story \in Seq(Byte) /\ \A i \in 1 .. n : Story[i] \in Char
  <2>1. \A i \in 1 .. n : Story[i] \in Char
    BY <1>1, ElementOfSeq
  <2>2. Story \in Seq(Byte)
    BY <1>1, SeqMonotonic
  <2>3. QED
    BY <2>1, <2>2
<1>3. n % (MAX_BYTE + 1) = n
  <2>1. \A a, b \in Nat : a <= b => a % (b + 1) = a
    BY ONLY SMT
  <2>2. QED
    BY <1>1, <2>1
<1>4. prefix \in Seq(Byte) /\ Len(prefix) = 1 /\ prefix[1] = n
  BY <1>1, <1>3
<1>5. client_text = prefix \o Story
  BY DEF client_text, encoded
<1> HIDE DEF prefix
<1>6. /\ client_text \in Seq(Byte) /\ Len(client_text) = 1 + n
      /\ \A i \in 1 .. 1 + n : client_text[i] = IF i <= 1 THEN prefix[i] ELSE Story[i - 1]
  <2>1. /\ prefix \o Story \in Seq(Byte) /\ Len(prefix \o Story) = Len(prefix) + Len(Story)
        /\ \A i \in 1 .. Len(prefix) + Len(Story) :
             (prefix \o Story)[i] = IF i <= Len(prefix) THEN prefix[i]
                                    ELSE Story[i - Len(prefix)]
    BY <1>2, <1>4, ConcatProperties
  <2>2. QED
    BY <1>4, <1>5, <2>1
<1>7. client_text[1] = n /\ Len(client_text) = n + 1 /\ Len(client_text) \in Nat
  BY <1>1, <1>4, <1>6
<1>8. \A i \in 1 .. n : client_text[i + 1] \in Char
  <2> TAKE i \in 1 .. n
  <2>1. i + 1 \in 1 .. 1 + n /\ ~ i + 1 <= 1 /\ (i + 1) - 1 = i
    BY <1>1
  <2>2. client_text[i + 1] = Story[i]
    BY <1>6, <2>1
  <2>3. QED
    BY <1>2, <2>2
<1> DEFINE l == Len(client_text)
<1>9. /\ l \in Nat /\ l + WINDOW_SIZE < SEQ_SPACE /\ l = n + 1
      /\ WINDOW_SIZE \in Nat /\ 1 <= WINDOW_SIZE /\ SEQ_SPACE \in Nat
  BY <1>7, StoryAssumption, WindowAssumption, SeqSpaceAssumption
<1>10. Fits(client_text)
  BY <1>6, <1>9 DEF Fits
<1> HIDE DEF l, n
<1>11. 3 <= SEQ_SPACE /\ (n \in Nat => n <= SEQ_SPACE)
  BY <1>1, <1>9
<1>12. 1 \in SeqNum /\ 2 \in SeqNum /\ wrapping_add(1, 1) = 2
  BY <1>9, <1>11 DEF SeqNum, wrapping_add
<1>13. NumberOf(0) = 2
  BY <1>9, <1>11, <1>12 DEF NumberOf, wrapping_add
<1>14. ASSUME NEW k \in 0 .. l PROVE NumberOf(k) \in SeqNum /\ NumberOf(k) # 1
  <2>1. k \in Nat /\ k + 2 <= SEQ_SPACE
    BY <1>9
  <2>2. NumberOf(k) = wrapping_add(2, k)
    BY <1>12 DEF NumberOf
  <2>3. QED
    BY <1>9, <1>11, <2>1, <2>2 DEF SeqNum, wrapping_add
<1>15. QED
  BY <1>1, <1>6, <1>7, <1>8, <1>9, <1>10, <1>11, <1>12, <1>13, <1>14 DEF l, n

-----------------------------------------------------------------------------
(* What the server sends.                                                  *)

ServerSent == {x \in Segment : "SYN" \in x.flags => x.ack_num = 2 /\ x.payload = << >>}
ServerQueued == {x \in ServerSent : "ACK" \in x.flags => "SYN" \in x.flags}

\* the segments that acknowledge nothing, except with a SYN
NoBareAck == {x \in Segment : "ACK" \in x.flags => "SYN" \in x.flags}

LEMMA QueuedType ==
    ASSUME NEW t, WellTyped(t)
    PROVE  t.socket \subseteq Segment /\ Queued(t) \subseteq Segment
<1>1. t.socket \subseteq Segment /\ t.unacked_segs \in Seq(Segment)
  BY DEF WellTyped, TCB
<1>2. QED
  BY <1>1, ElementOfSeq DEF Queued

LEMMA ServerSideWithin ==
    ASSUME NEW t, WellTyped(t)
    PROVE  ServerSide(t) <=> Within(ServerSent, ServerQueued, t)
<1>1. ServerSide(t) <=>
        /\ \A seg \in t.socket : "SYN" \in seg.flags => seg.ack_num = 2 /\ seg.payload = << >>
        /\ \A seg \in Queued(t) :
             /\ "SYN" \in seg.flags => seg.ack_num = 2 /\ seg.payload = << >>
             /\ "ACK" \in seg.flags => "SYN" \in seg.flags
  BY Zenon DEF ServerSide, Queued
<1>2. t.socket \subseteq Segment /\ Queued(t) \subseteq Segment
  BY QueuedType
<1>3. QED
  BY <1>1, <1>2 DEF Within, ServerSent, ServerQueued

LEMMA PlainSegments ==
    /\ \A x : \A seg \in Segment : Piece(x, seg) => seg \in ServerQueued /\ seg \in NoBareAck
    /\ \A n \in SeqNum :
         /\ [make_seg EXCEPT !.flags = {"FIN"}, !.seq_num = n] \in ServerQueued \cap NoBareAck
         /\ [make_seg EXCEPT !.flags = {"ACK"}, !.ack_num = n] \in ServerSent
         /\ \A m \in SeqNum :
              LET synack == [make_seg EXCEPT !.flags = {"SYN", "ACK"}, !.seq_num = m, !.ack_num = n]
              IN  synack \in NoBareAck /\ (n = 2 => synack \in ServerQueued)
<1>1. ASSUME NEW x, NEW seg \in Segment, Piece(x, seg)
      PROVE  seg \in ServerQueued /\ seg \in NoBareAck
  <2>1. seg.flags = {}
    BY <1>1 DEF Piece, make_seg
  <2>2. QED
    BY <2>1 DEF ServerQueued, ServerSent, NoBareAck
<1>2. ASSUME NEW n \in SeqNum
      PROVE  /\ [make_seg EXCEPT !.flags = {"FIN"}, !.seq_num = n] \in ServerQueued \cap NoBareAck
             /\ [make_seg EXCEPT !.flags = {"ACK"}, !.ack_num = n] \in ServerSent
  <2> DEFINE fin == [make_seg EXCEPT !.flags = {"FIN"}, !.seq_num = n]
             ack == [make_seg EXCEPT !.flags = {"ACK"}, !.ack_num = n]
  <2>1. fin \in Segment /\ ack \in Segment
    BY MakeSegType DEF Segment, Flag
  <2>2. fin.flags = {"FIN"} /\ ack.flags = {"ACK"}
    BY DEF make_seg
  <2> HIDE DEF fin, ack
  <2>3. fin \in ServerQueued /\ fin \in NoBareAck /\ ack \in ServerSent
    BY <2>1, <2>2 DEF ServerQueued, ServerSent, NoBareAck
  <2>4. QED
    BY <2>3 DEF fin, ack
<1>3. ASSUME NEW n \in SeqNum, NEW m \in SeqNum
      PROVE  LET synack == [make_seg EXCEPT !.flags = {"SYN", "ACK"}, !.seq_num = m, !.ack_num = n]
             IN  synack \in NoBareAck /\ (n = 2 => synack \in ServerQueued)
  <2> DEFINE synack == [make_seg EXCEPT !.flags = {"SYN", "ACK"}, !.seq_num = m, !.ack_num = n]
  <2>1. synack \in Segment
    BY MakeSegType DEF Segment, Flag
  <2>2. synack.flags = {"SYN", "ACK"} /\ synack.ack_num = n /\ synack.payload = << >>
    BY DEF make_seg
  <2> HIDE DEF synack
  <2>3. synack \in NoBareAck /\ (n = 2 => synack \in ServerQueued)
    BY <2>1, <2>2 DEF ServerQueued, ServerSent, NoBareAck
  <2>4. QED
    BY <2>3 DEF synack
<1>4. QED
  BY <1>1, <1>2, <1>3

(* An input makes a TCB of the server send what the sets allow: pieces of  *)
(* its buffer, its FIN, the answer to a SYN, and, for a payload that comes *)
(* in turn, an ACK.                                                        *)
LEMMA HandledWithin ==
    ASSUME NEW c, ConnOK(c), c.tcb.state # "SynSent", NEW in \in TCBInput,
           NEW P, NEW Q \in SUBSET P, Within(P, Q, c.tcb),
           \A x : \A s \in Segment : Piece(x, s) => s \in Q,
           \A n \in SeqNum : [make_seg EXCEPT !.flags = {"FIN"}, !.seq_num = n] \in Q,
           \A n \in SeqNum : in.kind = "Receive" /\ "SYN" \in in.seg.flags =>
               [make_seg EXCEPT !.flags = {"SYN", "ACK"}, !.seq_num = n,
                                !.ack_num = peer_next(in.seg)] \in Q,
           in.kind = "Receive" =>
               LET u == handle_shake(handle_acks(c.tcb, in.seg), in.seg)
               IN  u.state = "Estab" /\ in.seg.seq_num = u.ack_base =>
                       \A n \in SeqNum : [make_seg EXCEPT !.flags = {"ACK"}, !.ack_num = n] \in P
    PROVE  Within(P, Q, handled(c, in))
<1> DEFINE t == c.tcb
<1>1. WellTyped(t)
  BY DEF ConnOK
<1>2. t.seq_base \in SeqNum
  BY <1>1 DEF WellTyped, TCB
<1>3. ASSUME in.kind = "Receive", in.seg \in Segment PROVE Within(P, Q, handled(c, in))
  <2> DEFINE seg == in.seg
             u == handle_shake(handle_acks(t, seg), seg)
             panicked == [u EXCEPT !.state = "Panicked"]
             v == handle_payload(u, seg)
  <2>1. WellTyped(u) /\ Within(P, Q, u)
    BY <1>1, <1>3, ShakenWithin
  <2>2. handled(c, in) = panicked \/ handled(c, in) = handle_seg(t, seg)
    BY <1>3 DEF handled
  <2>3. handle_seg(t, seg) = v \/ handle_seg(t, seg) = handle_close(v)
    BY DEF handle_seg
  <2>4. u.state = "Estab" /\ seg.seq_num = u.ack_base =>
          \A n \in SeqNum : [make_seg EXCEPT !.flags = {"ACK"}, !.ack_num = n] \in P
    BY <1>3
  <2> HIDE DEF u
  <2>5. /\ WellTyped(v) /\ SameSender(u, v)
        /\ \/ v.socket = u.socket
           \/ /\ u.state = "Estab" /\ seg.seq_num = u.ack_base
              /\ v.socket = u.socket \cup {delivery_ack(v)}
    <3>1. WellTyped(v)
      BY <1>3, <2>1, HandlePayloadType
    <3>2. /\ SameSender(u, v)
          /\ \/ v.socket = u.socket
             \/ /\ u.state = "Estab" /\ seg.seq_num = u.ack_base /\ v.state = "Estab"
                /\ v.socket = u.socket \cup {delivery_ack(v)}
      <4> HIDE DEF seg
      <4>1. seg \in Segment
        BY <1>3 DEF seg
      <4>2. QED
        BY <2>1, <4>1, HandlePayloadSends
    <3>3. QED
      BY <3>1, <3>2
  <2> HIDE DEF v
  <2>6. v.ack_base \in SeqNum
    BY <2>5 DEF WellTyped, TCB
  <2>7. Within(P, Q, v)
    <3>1. v.socket \subseteq P
      BY <2>1, <2>4, <2>5, <2>6 DEF Within, delivery_ack
    <3>2. Queued(v) = Queued(u)
      BY <2>5 DEF SameSender, Queued
    <3>3. QED
      BY <2>1, <3>1, <3>2 DEF Within
  <2>8. /\ panicked.socket = u.socket /\ panicked.unacked_segs = u.unacked_segs
        /\ handle_close(v).socket = v.socket /\ handle_close(v).unacked_segs = v.unacked_segs
    BY <2>1, <2>5 DEF WellTyped, TCB, handle_close
  <2> HIDE DEF panicked
  <2>9. Within(P, Q, panicked) /\ Within(P, Q, handle_close(v))
    BY <2>1, <2>7, <2>8 DEF Within, Queued
  <2>10. QED
    BY <2>2, <2>3, <2>7, <2>9
<1>4. ASSUME in.kind = "Send", in.data \in Seq(Byte) PROVE Within(P, Q, handled(c, in))
  <2>1. handled(c, in) = send(t, in.data)
    BY <1>4 DEF handled
  <2>2. QED
    BY <1>1, <1>4, <2>1, SendWithin
<1>5. ASSUME in.kind = "Close" PROVE Within(P, Q, handled(c, in))
  <2>1. handled(c, in) = send_close(t)
    BY <1>5 DEF handled
  <2>2. QED
    BY <1>1, <1>2, <2>1, CloseWithin
<1>6. QED
  BY <1>3, <1>4, <1>5, InputKinds

LEMMA HandledServerSide ==
    ASSUME NEW c, ConnOK(c), c.tcb.state # "SynSent", ServerSide(c.tcb),
           NEW in \in TCBInput,
           in.kind = "Receive" /\ "SYN" \in in.seg.flags => in.seg.seq_num = 1
    PROVE  ServerSide(handled(c, in))
<1>1. Within(ServerSent, ServerQueued, c.tcb)
  BY ServerSideWithin DEF ConnOK
<1>2. in.kind = "Receive" /\ "SYN" \in in.seg.flags => peer_next(in.seg) = 2
  BY StoryNumbers DEF peer_next
<1>3. ServerQueued \in SUBSET ServerSent
  BY DEF ServerQueued
<1>4. \A n \in SeqNum : [make_seg EXCEPT !.flags = {"FIN"}, !.seq_num = n] \in ServerQueued
  BY PlainSegments
<1>5. \A x : \A s \in Segment : Piece(x, s) => s \in ServerQueued
  BY PlainSegments
<1>6. \A n \in SeqNum : in.kind = "Receive" /\ "SYN" \in in.seg.flags =>
        [make_seg EXCEPT !.flags = {"SYN", "ACK"}, !.seq_num = n,
                         !.ack_num = peer_next(in.seg)] \in ServerQueued
  <2>1. 2 \in SeqNum
    BY StoryNumbers
  <2>2. QED
    BY <1>2, <2>1, PlainSegments
<1>7. \A n \in SeqNum : [make_seg EXCEPT !.flags = {"ACK"}, !.ack_num = n] \in ServerSent
  BY PlainSegments
<1>8. Within(ServerSent, ServerQueued, handled(c, in))
  <2> HIDE DEF ServerSent, ServerQueued
  <2>1. QED
    BY <1>1, <1>3, <1>4, <1>5, <1>6, <1>7, HandledWithin
<1>9. WellTyped(handled(c, in))
  BY HandledType
<1>10. QED
  BY <1>8, <1>9, ServerSideWithin

(* What goes on its way with a step is what the step would have sent had   *)
(* nothing been sent before: System computes `down' from it.               *)
LEMMA UnsentAdding ==
    ASSUME NEW t, WellTyped(t)
    PROVE  /\ WellTyped(unsent(t)) /\ unsent(t).socket = {}
           /\ t.socket \in SUBSET Segment
           /\ Adding(unsent(t), t.socket) = t
           /\ unsent(t).state = t.state /\ SameSender(t, unsent(t))
           /\ SameReceiver(t, unsent(t))
<1>1. WellTyped(unsent(t)) /\ t.socket \in SUBSET Segment
  BY DEF WellTyped, TCB, unsent
<1>2. Adding(unsent(t), t.socket) = t
  BY DEF WellTyped, TCB, unsent, Adding
<1>3. /\ unsent(t).socket = {} /\ unsent(t).state = t.state /\ SameSender(t, unsent(t))
      /\ SameReceiver(t, unsent(t))
  BY DEF WellTyped, TCB, unsent, SameSender, SameReceiver
<1>4. QED
  BY <1>1, <1>2, <1>3

LEMMA HandledAdding ==
    ASSUME NEW c, ConnOK(c), NEW in \in TCBInput
    PROVE  LET b == [c EXCEPT !.tcb = unsent(@)]
           IN  /\ ConnOK(b) /\ b.tcb = unsent(c.tcb)
               /\ WellTyped(handled(b, in))
               /\ handled(c, in) = Adding(handled(b, in), c.tcb.socket)
<1> DEFINE t == unsent(c.tcb)
           S == c.tcb.socket
           b == [c EXCEPT !.tcb = unsent(@)]
<1>1. /\ WellTyped(t) /\ S \in SUBSET Segment /\ Adding(t, S) = c.tcb
      /\ t.byte_output = c.tcb.byte_output
  BY UnsentAdding DEF ConnOK, SameReceiver
<1> HIDE DEF t, S
<1>2. b.tcb = t /\ b.session = c.session /\ b.read = c.read
  BY DEF ConnOK, Conn, t
<1>3. ConnOK(b)
  <2>1. t \in TCB
    BY <1>1 DEF WellTyped
  <2>2. b \in Conn
    BY <2>1 DEF ConnOK, Conn, t
  <2> HIDE DEF b
  <2>3. QED
    BY <1>1, <1>2, <2>2 DEF ConnOK
<1> HIDE DEF b
<1>4. ASSUME in.kind = "Receive", in.seg \in Segment
      PROVE  handled(c, in) = Adding(handled(b, in), S)
  <2> DEFINE seg == in.seg
             u == handle_shake(handle_acks(t, seg), seg)
             panicked == [u EXCEPT !.state = "Panicked"]
             v == handle_seg(t, seg)
  <2>1. seg \in Segment
    BY <1>4
  <2> HIDE DEF seg
  <2>2. WellTyped(u) /\ handle_shake(handle_acks(c.tcb, seg), seg) = Adding(u, S)
    <3> DEFINE a == handle_acks(t, seg)
    <3>1. WellTyped(a) /\ handle_acks(Adding(t, S), seg) = Adding(a, S)
      BY <1>1, <2>1, HandleAcksType, HandleAcksAdding
    <3> HIDE DEF a
    <3>2. WellTyped(handle_shake(a, seg)) /\ handle_shake(Adding(a, S), seg) = Adding(handle_shake(a, seg), S)
      BY <1>1, <2>1, <3>1, HandleShakeType, HandleShakeAdding
    <3>3. QED
      BY <1>1, <3>1, <3>2 DEF a
  <2>3. WellTyped(v) /\ handle_seg(c.tcb, seg) = Adding(v, S)
    BY <1>1, <2>1, HandleSegType, HandleSegAdding
  <2> HIDE DEF u, v
  <2>4. [Adding(u, S) EXCEPT !.state = "Panicked"] = Adding(panicked, S)
    BY <2>2 DEF WellTyped, TCB, Adding
  <2>5. Adding(v, S).byte_output = v.byte_output
    BY <2>3, AddingFields
  <2>6. panics_on_output(c, seg) <=> panics_on_output(b, seg)
    BY <1>1, <1>2, <2>3, <2>5 DEF panics_on_output, v
  <2>7. handled(c, in) = IF panics_on_output(c, seg)
          THEN [handle_shake(handle_acks(c.tcb, seg), seg) EXCEPT !.state = "Panicked"]
          ELSE handle_seg(c.tcb, seg)
    BY <1>4 DEF handled, seg
  <2>8. handled(b, in) = IF panics_on_output(b, seg) THEN panicked ELSE v
    BY <1>2, <1>4 DEF handled, seg, u, v
  <2> HIDE DEF panicked
  <2>9. QED
    BY <2>2, <2>3, <2>4, <2>6, <2>7, <2>8
<1>5. ASSUME in.kind = "Send", in.data \in Seq(Byte)
      PROVE  handled(c, in) = Adding(handled(b, in), S)
  <2>1. handled(c, in) = send(c.tcb, in.data) /\ handled(b, in) = send(t, in.data)
    BY <1>2, <1>5 DEF handled
  <2>2. QED
    BY <1>1, <1>5, <2>1, SendAdding
<1>6. ASSUME in.kind = "Close"
      PROVE  handled(c, in) = Adding(handled(b, in), S)
  <2>1. handled(c, in) = send_close(c.tcb) /\ handled(b, in) = send_close(t)
    BY <1>2, <1>6 DEF handled
  <2>2. QED
    BY <1>1, <2>1, SendCloseAdding
<1>7. handled(c, in) = Adding(handled(b, in), S)
  BY <1>4, <1>5, <1>6, InputKinds
<1>8. WellTyped(handled(b, in))
  BY <1>3, HandledType
<1>9. QED
  BY <1>2, <1>3, <1>7, <1>8 DEF b, t, S

LEMMA SynProperties ==
    /\ Syn \in Segment /\ Syn.flags = {"SYN"} /\ Syn.seq_num = 1 /\ Syn.payload = << >>
    /\ Syn.ack_num = 0
    /\ \A T : Spoken(T, Syn)
<1>1. Syn \in Segment
  BY StoryNumbers, MakeSegType DEF Segment, Flag, Syn
<1>2. Syn.flags = {"SYN"} /\ Syn.seq_num = 1 /\ Syn.payload = << >> /\ Syn.ack_num = 0
  BY DEF Syn, make_seg
<1>3. QED
  BY <1>1, <1>2 DEF Spoken

(* Nothing but a SYN makes a TCB of the server acknowledge anything while  *)
(* its client has sent no more than a SYN: no connection that an earlier   *)
(* client has left behind takes the SYN for a payload.                     *)
LEMMA QuietHandled ==
    ASSUME NEW c, ConnOK(c), Received(client_text, c.tcb), ServerSide(c.tcb),
           NEW in \in TCBInput, in.kind = "Receive" => in.seg = Syn
    PROVE  NoOtherAck(handled([c EXCEPT !.tcb = unsent(@)], in).socket)
<1> DEFINE b == [c EXCEPT !.tcb = unsent(@)]
           t == unsent(c.tcb)
<1>1. ConnOK(b) /\ b.tcb = t /\ WellTyped(handled(b, in))
  BY HandledAdding
<1>2. /\ WellTyped(c.tcb) /\ t.socket = {} /\ t.state = c.tcb.state
      /\ SameSender(c.tcb, t) /\ SameReceiver(c.tcb, t)
  BY UnsentAdding DEF ConnOK
<1> HIDE DEF b, t
<1>3. Received(client_text, t) /\ t.state # "SynSent"
  BY <1>2 DEF Received, HoldsText, SameReceiver
<1>4. Within(NoBareAck, NoBareAck, t)
  <2>1. Within(ServerSent, ServerQueued, c.tcb)
    BY <1>2, ServerSideWithin
  <2>2. Queued(t) = Queued(c.tcb)
    BY <1>2 DEF Queued, SameSender
  <2>3. QED
    BY <1>2, <2>1, <2>2 DEF Within, ServerQueued, ServerSent, NoBareAck
<1>5. ASSUME in.kind = "Receive", NEW u,
             u = handle_shake(handle_acks(t, in.seg), in.seg), u.state = "Estab"
      PROVE  in.seg.seq_num # u.ack_base
  <2> DEFINE a == handle_acks(t, Syn)
  <2>1. WellTyped(a) /\ Received(client_text, a)
    <3>1. WellTyped(t) /\ HasReceived(t)
      BY <1>1, TcbHasReceived DEF ConnOK
    <3>2. QED
      BY <1>3, <3>1, SynProperties, HandleAcksType, HandleAcksKeeps, KeepsReceived
  <2>2. u = handle_shake(a, Syn)
    BY <1>5
  <2> HIDE DEF a
  <2>3. Received(client_text, u)
    BY <2>1, <2>2, SynProperties, HandleShakeReceived
  <2>4. WellTyped(u)
    BY <2>1, <2>2, SynProperties, HandleShakeType
  <2>5. u.ack_base = NumberOf(Len(u.byte_output)) /\ Len(u.byte_output) <= Len(client_text)
    BY <1>5, <2>3 DEF Received, HoldsText
  <2>6. Len(u.byte_output) \in 0 .. Len(client_text)
    BY <2>4, <2>5, StoryNumbers, TcbHasReceived
  <2>7. QED
    BY <1>5, <2>5, <2>6, StoryNumbers, SynProperties
<1>6. \A n \in SeqNum : in.kind = "Receive" /\ "SYN" \in in.seg.flags =>
        [make_seg EXCEPT !.flags = {"SYN", "ACK"}, !.seq_num = n,
                         !.ack_num = peer_next(in.seg)] \in NoBareAck
  <2>1. in.kind = "Receive" => peer_next(in.seg) = 2
    BY SynProperties, StoryNumbers DEF peer_next
  <2>2. QED
    BY <2>1, StoryNumbers, PlainSegments
<1>7. \A x : \A s \in Segment : Piece(x, s) => s \in NoBareAck
  BY PlainSegments
<1>8. \A n \in SeqNum : [make_seg EXCEPT !.flags = {"FIN"}, !.seq_num = n] \in NoBareAck
  BY PlainSegments
<1>9. Within(NoBareAck, NoBareAck, handled(b, in))
  <2> HIDE DEF NoBareAck
  <2>1. NoBareAck \in SUBSET NoBareAck
    OBVIOUS
  <2>2. QED
    BY <1>1, <1>3, <1>4, <1>5, <1>6, <1>7, <1>8, <2>1, HandledWithin
<1>10. QED
  BY <1>9 DEF Within, NoBareAck, NoOtherAck, b

-----------------------------------------------------------------------------
(* What a client sends.                                                    *)

ClientSent(numbers) == {seg \in ClientSegments : "ACK" \in seg.flags => seg.ack_num \in numbers}
ClientQueued == {seg \in ClientSegments : "ACK" \notin seg.flags}

\* ClientSide, said of sets
Speaks(numbers, text, t) ==
    /\ WellTyped(t)
    /\ t.state # "SynRecd"
    /\ Greeting(t) => Fresh(t) /\ text = << >>
    /\ t.state = "Estab" => SendsText(text, t) /\ EndsAt(numbers, t)
    /\ Within(ClientSent(numbers), ClientQueued, t)

LEMMA SpeaksIsClientSide ==
    ASSUME NEW numbers, NEW text, NEW t \in TCB
    PROVE  ClientSide(numbers, text, t) <=> Speaks(numbers, text, t)
<1>1. (/\ \A seg \in t.socket :
            seg \in ClientSegments /\ ("ACK" \in seg.flags => seg.ack_num \in numbers)
       /\ \A k \in 1 .. Len(t.unacked_segs) :
            t.unacked_segs[k] \in ClientSegments /\ "ACK" \notin t.unacked_segs[k].flags)
      <=> Within(ClientSent(numbers), ClientQueued, t)
  <2>1. (\A k \in 1 .. Len(t.unacked_segs) :
           t.unacked_segs[k] \in ClientSegments /\ "ACK" \notin t.unacked_segs[k].flags)
        <=> (\A seg \in Queued(t) : seg \in ClientSegments /\ "ACK" \notin seg.flags)
    BY Zenon DEF Queued
  <2>2. QED
    BY <2>1, Zenon DEF Within, ClientSent, ClientQueued
<1>2. QED
  BY <1>1, Zenon DEF ClientSide, Speaks, WellTyped

LEMMA ClientSets ==
    ASSUME NEW numbers
    PROVE  /\ ClientQueued \in SUBSET ClientSent(numbers)
           /\ Syn \in ClientQueued
           /\ \A k \in 0 .. Len(client_text) :
                [make_seg EXCEPT !.flags = {"FIN"}, !.seq_num = NumberOf(k)] \in ClientQueued
           /\ \A n \in SeqNum : n \in numbers =>
                [make_seg EXCEPT !.flags = {"ACK"}, !.ack_num = n] \in ClientSent(numbers)
<1>1. ClientQueued \in SUBSET ClientSent(numbers)
  BY DEF ClientQueued, ClientSent
<1>2. Syn \in ClientQueued
  BY SynProperties DEF ClientQueued, ClientSegments
<1>3. ASSUME NEW k \in 0 .. Len(client_text) PROVE Fin(NumberOf(k)) \in ClientQueued
  <2>1. Fin(NumberOf(k)) \in ClientSegments
    BY DEF ClientSegments
  <2>2. Fin(NumberOf(k)).flags = {"FIN"}
    BY DEF Fin, make_seg
  <2>3. QED
    BY <2>1, <2>2 DEF ClientQueued
<1>4. ASSUME NEW n \in SeqNum, n \in numbers PROVE Ack(n) \in ClientSent(numbers)
  <2>1. Ack(n) \in ClientSegments
    BY DEF ClientSegments
  <2>2. Ack(n).ack_num = n
    BY DEF Ack, make_seg
  <2>3. QED
    BY <1>4, <2>1, <2>2 DEF ClientSent
<1>5. QED
  BY <1>1, <1>2, <1>3, <1>4 DEF Fin, Ack

\* what a client has been given
Texts == {<< >>, client_text}

LEMMA TextProperties ==
    ASSUME NEW text \in Texts
    PROVE  text \in Seq(Byte) /\ Len(text) \in Nat /\ Len(text) <= Len(client_text)
<1>1. << >> \in Seq(Byte) /\ Len(<< >>) = 0
  BY EmptySeq
<1>2. client_text \in Seq(Byte) /\ Len(client_text) \in Nat
  BY StoryNumbers
<1>3. text = << >> \/ text = client_text
  BY DEF Texts
<1>4. CASE text = << >>
  BY <1>1, <1>2, <1>4
<1>5. CASE text = client_text
  BY <1>2, <1>5
<1>6. QED
  BY <1>3, <1>4, <1>5

LEMMA SubSeqEqual ==
    ASSUME NEW s \in Seq(Byte), NEW i \in Nat, NEW data \in Seq(Byte), i + Len(data) <= Len(s),
           \A j \in 1 .. Len(data) : data[j] = s[i + j]
    PROVE  data = SubSeq(s, i + 1, i + Len(data))
<1> DEFINE n == Len(data)
           b == SubSeq(s, i + 1, i + n)
<1>1. n \in Nat /\ Len(s) \in Nat
  BY LenProperties
<1>2. \A j \in i + 1 .. i + n : s[j] \in Byte
  <2> TAKE j \in i + 1 .. i + n
  <2>1. j \in 1 .. Len(s)
    BY <1>1
  <2>2. QED
    BY <2>1, ElementOfSeq
<1>3. i + 1 \in Int /\ i + n \in Int
  BY <1>1
<1>4. /\ b \in Seq(Byte)
      /\ Len(b) = IF i + 1 <= i + n THEN (i + n) - (i + 1) + 1 ELSE 0
      /\ \A j \in 1 .. (i + n) - (i + 1) + 1 : b[j] = s[(i + 1) + j - 1]
  BY <1>2, <1>3, SubSeqProperties
<1> HIDE DEF b
<1>5. (i + n) - (i + 1) + 1 = n
  BY <1>1
<1>6. Len(b) = n
  BY <1>1, <1>4
<1>7. \A j \in 1 .. n : b[j] = data[j]
  <2> TAKE j \in 1 .. n
  <2>1. (i + 1) + j - 1 = i + j
    BY <1>1
  <2>2. b[j] = s[i + j]
    BY <1>4, <1>5, <2>1
  <2>3. QED
    BY <2>2
<1>8. QED
  BY <1>4, <1>6, <1>7, SeqEqual DEF b

(* What fill_send_window cuts from the buffer is a part of the stream, in  *)
(* its place.                                                              *)
LEMMA ClientPiece ==
    ASSUME NEW text \in Texts, NEW t, WellTyped(t), SendsText(text, t),
           NEW seg, Piece(t, seg)
    PROVE  seg \in ClientQueued
<1> DEFINE w == Len(t.send_window)
           l == Len(client_text)
<1>1. /\ w \in Nat /\ Len(t.send_buffer) \in Nat /\ l \in Nat /\ l < SEQ_SPACE
      /\ Len(text) \in Nat /\ Len(text) <= l /\ SEQ_SPACE \in Nat
  <2>1. l \in Nat /\ l + WINDOW_SIZE < SEQ_SPACE /\ WINDOW_SIZE \in Nat /\ SEQ_SPACE \in Nat
    BY StoryNumbers
  <2>2. l < SEQ_SPACE
    BY <2>1
  <2>3. QED
    BY <2>1, <2>2, TextProperties, LenProperties DEF WellTyped, TCB
<1>2. PICK k \in 0 .. Len(text) :
        /\ t.seq_base = NumberOf(k)
        /\ k + w + Len(t.send_buffer) = Len(text)
        /\ \A i \in 1 .. Len(t.send_buffer) : t.send_buffer[i] = text[k + w + i]
  BY DEF SendsText
<1>3. PICK off \in Nat, payload \in Seq(Byte) :
        /\ seg = [make_seg EXCEPT
                    !.seq_num = wrapping_add(wrapping_add(t.seq_base, w), off),
                    !.payload = payload]
        /\ Len(payload) \in 1 .. MAX_PAYLOAD_SIZE
        /\ off + Len(payload) <= Len(t.send_buffer)
        /\ \A i \in 1 .. Len(payload) : payload[i] = t.send_buffer[off + i]
  BY DEF Piece
<1> DEFINE n == Len(payload)
           i == k + w + off
<1>4. k \in Nat /\ n \in Nat /\ 1 <= n /\ MAX_PAYLOAD_SIZE \in Nat
  BY <1>1, <1>3, LenProperties, WindowAssumption
<1>5. i \in Nat /\ i + n <= Len(text) /\ i + n <= l /\ i < l
  <2> HIDE DEF w, n, l
  <2>1. off + n <= Len(t.send_buffer) /\ k + w + Len(t.send_buffer) = Len(text)
    BY <1>2, <1>3 DEF w, n
  <2>2. \A a, b, c, d, e, f, g \in Nat :
          c + d <= e /\ a + b + e = f /\ f <= g /\ 1 <= d =>
            /\ a + b + c \in Nat /\ a + b + c + d <= f /\ a + b + c + d <= g
            /\ a + b + c < g
    BY ONLY SMT
  <2>3. QED
    BY <1>1, <1>3, <1>4, <2>1, <2>2
<1>6. text = client_text
  <2>1. text # << >>
    <3>1. Len(text) # 0
      BY <1>1, <1>4, <1>5
    <3>2. QED
      BY <3>1, EmptySeq
  <2>2. QED
    BY <2>1 DEF Texts
<1>7. seg.seq_num = NumberOf(i)
  <2>1. k < SEQ_SPACE /\ k + w < SEQ_SPACE /\ k + w \in Nat /\ k + w + off < SEQ_SPACE
    <3> HIDE DEF w, n, l
    <3>1. k + w + off < l
      BY <1>5 DEF i
    <3>2. QED
      BY <1>1, <1>3, <1>4, <3>1
  <2>2. wrapping_add(NumberOf(k), w) = NumberOf(k + w)
    BY <1>1, <1>4, <2>1, NumberProperties
  <2>3. wrapping_add(NumberOf(k + w), off) = NumberOf(i)
    BY <1>3, <2>1, NumberProperties
  <2>4. seg.seq_num = wrapping_add(wrapping_add(t.seq_base, w), off)
    BY <1>3 DEF make_seg
  <2>5. QED
    BY <1>2, <2>2, <2>3, <2>4
<1>8. payload = SubSeq(client_text, i + 1, i + n)
  <2>1. \A j \in 1 .. n : payload[j] = client_text[i + j]
    <3> TAKE j \in 1 .. n
    <3>1. off + j \in 1 .. Len(t.send_buffer) /\ k + w + (off + j) = i + j
      BY <1>1, <1>3, <1>4
    <3>2. QED
      BY <1>2, <1>3, <1>6, <3>1
  <2>2. client_text \in Seq(Byte)
    BY StoryNumbers
  <2> HIDE DEF i
  <2>3. QED
    BY <1>5, <2>1, <2>2, SubSeqEqual
<1>9. i \in 0 .. l - 1 /\ n \in 1 .. min(MAX_PAYLOAD_SIZE, l - i)
  <2> HIDE DEF i, n, l
  <2>1. n <= MAX_PAYLOAD_SIZE
    BY <1>3 DEF n
  <2>2. QED
    BY <1>1, <1>4, <1>5, <2>1 DEF min
<1>10. seg = Data(i, n) /\ seg.flags = {}
  <2>1. /\ seg = [make_seg EXCEPT !.seq_num = wrapping_add(wrapping_add(t.seq_base, w), off),
                                  !.payload = payload]
    BY <1>3
  <2>2. seg.seq_num = wrapping_add(wrapping_add(t.seq_base, w), off)
    BY <2>1 DEF make_seg
  <2> HIDE DEF i, n, w
  <2>3. seg = [make_seg EXCEPT !.seq_num = NumberOf(i),
                               !.payload = SubSeq(client_text, i + 1, i + n)]
    BY <1>7, <1>8, <2>1, <2>2
  <2>4. QED
    BY <2>3 DEF Data, make_seg
<1> HIDE DEF i, n, l
<1>11. seg \in ClientSegments
  BY <1>9, <1>10 DEF ClientSegments, l
<1>12. QED
  BY <1>10, <1>11 DEF ClientQueued

LEMMA FillText ==
    ASSUME NEW numbers, NEW text \in Texts, NEW t, WellTyped(t), t.state = "Estab",
           SendsText(text, t), Within(ClientSent(numbers), ClientQueued, t)
    PROVE  LET u == fill_send_window(t)
           IN  /\ WellTyped(u) /\ u.state = "Estab" /\ SameReceiver(t, u)
               /\ SendsText(text, u) /\ Within(ClientSent(numbers), ClientQueued, u)
<1> DEFINE u == fill_send_window(t)
           amt == send_amt(t)
           data == Taken(t.send_buffer, amt)
           w == Len(t.send_window)
           b == Len(t.send_buffer)
<1>1. /\ t.send_window \in Seq(Byte) /\ t.send_buffer \in Seq(Byte) /\ w \in Nat /\ b \in Nat
      /\ Len(text) \in Nat
  BY LenProperties, TextProperties DEF WellTyped, TCB
<1>2. amt \in 0 .. b /\ data \in Seq(Byte) /\ Len(data) = amt
  BY FillProperties
<1>3. /\ u.state = t.state /\ SameReceiver(t, u) /\ u.seq_base = t.seq_base
      /\ u.send_window = t.send_window \o data
      /\ u.send_buffer = Dropped(t.send_buffer, amt)
  BY FillSends
<1>4. WellTyped(u)
  BY FillSendWindowType
<1>5. Within(ClientSent(numbers), ClientQueued, u)
  <2>1. \A seg \in Segment : Piece(t, seg) => seg \in ClientQueued
    BY ClientPiece
  <2>2. ClientQueued \in SUBSET ClientSent(numbers)
    BY ClientSets
  <2> HIDE DEF ClientQueued, ClientSent
  <2>3. QED
    BY <2>1, <2>2, FillWithin
<1> HIDE DEF u
<1>6. /\ Len(u.send_window) = w + amt
      /\ \A i \in 1 .. w + amt : u.send_window[i] = IF i <= w THEN t.send_window[i]
                                                    ELSE t.send_buffer[i - w]
  <2>1. \A i \in 1 .. amt : data[i] = t.send_buffer[i]
    BY <1>1, <1>2, DrainProperties
  <2>2. /\ Len(u.send_window) = w + amt
        /\ \A i \in 1 .. w + amt : u.send_window[i] = IF i <= w THEN t.send_window[i]
                                                      ELSE data[i - w]
    <3> HIDE DEF amt, data
    <3>1. t.send_window \in Seq(Byte) /\ data \in Seq(Byte)
      BY <1>1, <1>2
    <3>2. /\ Len(t.send_window \o data) = w + Len(data)
          /\ \A i \in 1 .. w + Len(data) :
               (t.send_window \o data)[i] = IF i <= w THEN t.send_window[i] ELSE data[i - w]
      BY <3>1, ConcatProperties
    <3>3. QED
      BY <1>2, <1>3, <3>2
  <2>3. ASSUME NEW i \in 1 .. w + amt, ~ i <= w PROVE i - w \in 1 .. amt
    BY <1>1, <1>2, <2>3
  <2>4. QED
    BY <2>1, <2>2, <2>3
<1>7. /\ Len(u.send_buffer) = b - amt
      /\ \A i \in 1 .. b - amt : u.send_buffer[i] = t.send_buffer[amt + i]
  <2> DEFINE r == Dropped(t.send_buffer, amt)
  <2> HIDE DEF amt
  <2>1. t.send_buffer \in Seq(Byte) /\ amt \in 0 .. Len(t.send_buffer)
    BY <1>1, <1>2
  <2>2. /\ Len(r) = Len(t.send_buffer) - amt
        /\ \A i \in 1 .. Len(t.send_buffer) - amt : r[i] = t.send_buffer[amt + i]
    BY <2>1, DrainProperties
  <2> HIDE DEF r
  <2>3. u.send_buffer = r
    BY <1>3 DEF r
  <2>4. QED
    BY <2>2, <2>3
<1>8. PICK k \in 0 .. Len(text) :
        /\ t.seq_base = NumberOf(k)
        /\ k + w + b = Len(text)
        /\ \A i \in 1 .. w : t.send_window[i] = text[k + i]
        /\ \A i \in 1 .. b : t.send_buffer[i] = text[k + w + i]
  BY DEF SendsText
<1> HIDE DEF amt, data, w, b
<1>9. k \in Nat /\ amt \in Nat /\ amt <= b /\ k + (w + amt) + (b - amt) = Len(text)
  BY <1>1, <1>2, <1>8
<1>10. ASSUME NEW i \in 1 .. w + amt PROVE u.send_window[i] = text[k + i]
  <2>1. CASE i <= w
    <3>1. i \in 1 .. w
      BY <1>1, <2>1
    <3>2. QED
      BY <1>6, <1>8, <2>1, <3>1
  <2>2. CASE ~ i <= w
    <3>1. i - w \in 1 .. b /\ k + w + (i - w) = k + i
      BY <1>1, <1>9, <2>2
    <3>2. QED
      BY <1>6, <1>8, <2>2, <3>1
  <2>3. QED
    BY <2>1, <2>2
<1>11. ASSUME NEW i \in 1 .. b - amt PROVE u.send_buffer[i] = text[k + (w + amt) + i]
  <2>1. amt + i \in 1 .. b /\ k + w + (amt + i) = k + (w + amt) + i
    BY <1>1, <1>9
  <2>2. QED
    BY <1>7, <1>8, <2>1
<1>12. SendsText(text, u)
  BY <1>3, <1>6, <1>7, <1>8, <1>9, <1>10, <1>11 DEF SendsText
<1>13. QED
  BY <1>3, <1>4, <1>5, <1>12 DEF u

(* The string is given once, to a client that is established.              *)
LEMMA SendSpeaks ==
    ASSUME NEW numbers, NEW t, Speaks(numbers, << >>, t), t.state = "Estab"
    PROVE  Speaks(numbers, client_text, send(t, client_text))
<1> DEFINE u == [t EXCEPT !.send_buffer = t.send_buffer \o client_text]
<1>1. /\ WellTyped(t) /\ t.send_window \in Seq(Byte) /\ t.send_buffer \in Seq(Byte)
      /\ Len(t.send_window) \in Nat /\ Len(t.send_buffer) \in Nat
      /\ client_text \in Seq(Byte) /\ Len(client_text) \in Nat
  BY LenProperties, StoryNumbers DEF Speaks, WellTyped, TCB
<1>2. t.seq_base = NumberOf(0) /\ t.send_window = << >> /\ t.send_buffer = << >>
  <2>1. SendsText(<< >>, t) /\ Len(<< >>) = 0
    BY DEF Speaks
  <2>2. PICK k \in 0 .. 0 : /\ t.seq_base = NumberOf(k)
                            /\ k + Len(t.send_window) + Len(t.send_buffer) = 0
    BY <2>1 DEF SendsText
  <2>3. \A a, b, c \in Nat : a + b + c = 0 => a = 0 /\ b = 0 /\ c = 0
    BY ONLY SMT
  <2>4. k \in Nat
    OBVIOUS
  <2>5. k = 0 /\ Len(t.send_window) = 0 /\ Len(t.send_buffer) = 0
    BY <1>1, <2>2, <2>3, <2>4
  <2>6. QED
    BY <1>1, <2>2, <2>5, EmptySeq
<1>3. t.send_buffer \o client_text = client_text
  BY <1>1, <1>2, ConcatEmptySeq
<1>4. /\ WellTyped(u) /\ u.state = "Estab" /\ u.seq_base = t.seq_base
      /\ u.send_window = << >> /\ u.send_buffer = client_text /\ SameReceiver(t, u)
      /\ u.socket = t.socket /\ u.unacked_segs = t.unacked_segs
  BY <1>1, <1>2, <1>3 DEF WellTyped, TCB, SameReceiver
<1>5. send(t, client_text) = fill_send_window(u)
  BY DEF send
<1> HIDE DEF u
<1>6. SendsText(client_text, u)
  <2> DEFINE l == Len(client_text)
  <2>1. Len(u.send_window) = 0 /\ Len(u.send_buffer) = l /\ l \in Nat
    BY <1>1, <1>4
  <2>2. 0 \in 0 .. l /\ 0 + 0 + l = l /\ \A i \in 1 .. l : 0 + 0 + i = i
    BY <2>1
  <2> HIDE DEF l
  <2>3. \A i \in 1 .. l : u.send_buffer[i] = client_text[0 + 0 + i]
    BY <1>4, <2>2
  <2>4. \A i \in 1 .. 0 : u.send_window[i] = client_text[0 + i]
    OBVIOUS
  <2>5. /\ u.seq_base = NumberOf(0)
        /\ 0 + Len(u.send_window) + Len(u.send_buffer) = l
        /\ \A i \in 1 .. Len(u.send_window) : u.send_window[i] = client_text[0 + i]
        /\ \A i \in 1 .. Len(u.send_buffer) :
             u.send_buffer[i] = client_text[0 + Len(u.send_window) + i]
    BY <1>2, <1>4, <2>1, <2>2, <2>3, <2>4
  <2> DEFINE P(k) == /\ u.seq_base = NumberOf(k)
                     /\ k + Len(u.send_window) + Len(u.send_buffer) = l
                     /\ \A i \in 1 .. Len(u.send_window) : u.send_window[i] = client_text[k + i]
                     /\ \A i \in 1 .. Len(u.send_buffer) :
                          u.send_buffer[i] = client_text[k + Len(u.send_window) + i]
  <2>6. P(0) /\ 0 \in 0 .. l
    BY <2>2, <2>5
  <2> HIDE DEF P
  <2>7. \E k \in 0 .. l : P(k)
    BY <2>6
  <2>8. QED
    BY <2>7, Zenon DEF SendsText, l, P
<1>7. Within(ClientSent(numbers), ClientQueued, u)
  BY <1>4 DEF Speaks, Within, Queued
<1> DEFINE v == fill_send_window(u)
<1>8. /\ WellTyped(v) /\ v.state = "Estab" /\ SameReceiver(u, v)
      /\ SendsText(client_text, v) /\ Within(ClientSent(numbers), ClientQueued, v)
  BY <1>4, <1>6, <1>7, FillText DEF Texts
<1> HIDE DEF v
<1>9. EndsAt(numbers, v)
  BY <1>4, <1>8 DEF Speaks, EndsAt, SameReceiver
<1>10. Speaks(numbers, client_text, v)
  BY <1>8, <1>9 DEF Speaks, Greeting
<1>11. QED
  BY <1>5, <1>10 DEF v

LEMMA SendSynSpeaks ==
    ASSUME NEW numbers, NEW text, NEW t, Speaks(numbers, text, t), t.state = "Listen"
    PROVE  Speaks(numbers, text, send_syn(t))
<1> DEFINE syn == [make_seg EXCEPT !.flags = {"SYN"}, !.seq_num = t.seq_base]
           u == send_seg(t, syn)
           v == [u EXCEPT !.state = "SynSent"]
<1>1. WellTyped(t) /\ Fresh(t) /\ text = << >>
  BY DEF Speaks, Greeting
<1>2. syn = Syn /\ Syn \in Segment
  BY <1>1, SynProperties DEF Fresh, Syn
<1>3. send_syn(t) = v
  BY DEF send_syn
<1>4. v = send_syn(t) /\ WellTyped(v)
  BY <1>1, <1>3, SendSynType
<1>5. /\ WellTyped(u) /\ u.socket = t.socket \cup {Syn} /\ SameReceiver(t, u)
      /\ u.seq_base = t.seq_base /\ u.send_window = t.send_window
      /\ u.send_buffer = t.send_buffer
  BY <1>1, <1>2, SendSegType DEF WellTyped, TCB, send_seg, resend_seg, SameReceiver
<1>6. \A x \in Queued(u) : x = Syn \/ x \in Queued(t)
  BY <1>1, <1>2, AppendQueued
<1> HIDE DEF u, syn
<1>7. /\ v.socket = u.socket /\ v.unacked_segs = u.unacked_segs /\ v.state = "SynSent"
      /\ SameReceiver(u, v) /\ v.seq_base = u.seq_base /\ v.send_window = u.send_window
      /\ v.send_buffer = u.send_buffer
  BY <1>5 DEF WellTyped, TCB, SameReceiver
<1> HIDE DEF v
<1>8. Queued(v) = Queued(u)
  BY <1>7 DEF Queued
<1>9. Fresh(v)
  <2>1. \A seg \in Queued(t) : seg = Syn
    BY <1>1 DEF Fresh, Queued
  <2>2. \A seg \in Queued(v) : seg = Syn
    BY <1>6, <1>8, <2>1
  <2>3. \A k \in 1 .. Len(v.unacked_segs) : v.unacked_segs[k] = Syn
    BY <2>2 DEF Queued
  <2>4. \A seg \in v.socket : seg = Syn
    BY <1>1, <1>5, <1>7 DEF Fresh
  <2>5. QED
    BY <1>1, <1>5, <1>7, <2>3, <2>4 DEF Fresh, SameReceiver
<1>10. Within(ClientSent(numbers), ClientQueued, v)
  <2>1. Syn \in ClientQueued /\ Syn \in ClientSent(numbers)
    BY ClientSets
  <2>2. QED
    BY <1>5, <1>6, <1>7, <1>8, <2>1 DEF Speaks, Within
<1>11. QED
  BY <1>1, <1>4, <1>7, <1>9, <1>10 DEF Speaks, Greeting

LEMMA CloseSpeaks ==
    ASSUME NEW numbers, NEW text \in Texts, NEW t, Speaks(numbers, text, t), t.state = "Estab"
    PROVE  Speaks(numbers, text, send_close(t))
<1> DEFINE fin == [make_seg EXCEPT !.flags = {"FIN"}, !.seq_num = t.seq_base]
           u == send_close(t)
<1>1. WellTyped(t) /\ WellTyped(u)
  BY SendCloseType DEF Speaks
<1>2. u.state = "Closed"
  <2> DEFINE v == send_seg(t, fin)
  <2>1. fin \in Segment
    BY <1>1, MakeSegType DEF WellTyped, TCB, Segment, Flag
  <2> HIDE DEF fin
  <2>2. WellTyped(v)
    BY <1>1, <2>1, SendSegType
  <2>3. u = [v EXCEPT !.state = "Closed"]
    BY DEF send_close, fin
  <2> HIDE DEF v
  <2>4. QED
    BY <2>2, <2>3 DEF WellTyped, TCB
<1>3. fin \in ClientQueued
  <2>1. PICK k \in 0 .. Len(text) : t.seq_base = NumberOf(k)
    BY DEF Speaks, SendsText
  <2>2. k \in 0 .. Len(client_text)
    BY TextProperties, StoryNumbers
  <2>3. QED
    BY <2>1, <2>2, ClientSets
<1>4. ClientQueued \in SUBSET ClientSent(numbers)
  BY ClientSets
<1> HIDE DEF u
<1>5. Within(ClientSent(numbers), ClientQueued, u)
  <2>1. Within(ClientSent(numbers), ClientQueued, t)
    BY DEF Speaks
  <2> HIDE DEF ClientSent, ClientQueued
  <2>2. QED
    BY <1>1, <1>3, <1>4, <2>1, CloseWithin DEF u
<1>6. QED
  BY <1>1, <1>2, <1>5 DEF Speaks, Greeting, u

LEMMA ResendSpeaks ==
    ASSUME NEW numbers, NEW text, NEW t, Speaks(numbers, text, t)
    PROVE  Speaks(numbers, text, handle_resend(t))
<1> DEFINE u == handle_resend(t)
<1>1. WellTyped(t) /\ WellTyped(u)
  BY HandleResendType DEF Speaks
<1>2. /\ u.state = t.state /\ SameSender(t, u) /\ SameReceiver(t, u)
      /\ u.socket \subseteq t.socket \cup Queued(t)
  BY <1>1, ResendSends
<1>3. ClientQueued \in SUBSET ClientSent(numbers)
  BY ClientSets
<1>4. Within(ClientSent(numbers), ClientQueued, u)
  <2>1. Within(ClientSent(numbers), ClientQueued, t)
    BY DEF Speaks
  <2> HIDE DEF ClientSent, ClientQueued
  <2>2. QED
    BY <1>1, <1>3, <2>1, ResendWithin
<1> HIDE DEF u
<1>5. Fresh(t) => Fresh(u)
  <2>1. Fresh(t) => \A seg \in Queued(t) : seg = Syn
    BY DEF Fresh, Queued
  <2>2. Fresh(t) => \A seg \in u.socket : seg = Syn
    BY <1>2, <2>1 DEF Fresh
  <2>3. QED
    BY <1>2, <2>2 DEF Fresh, SameSender, SameReceiver
<1>6. SendsText(text, t) => SendsText(text, u)
  BY <1>2 DEF SendsText, SameSender
<1>7. EndsAt(numbers, t) => EndsAt(numbers, u)
  BY <1>2 DEF EndsAt, SameReceiver
<1>8. QED
  BY <1>1, <1>2, <1>4, <1>5, <1>6, <1>7 DEF Speaks, Greeting, u


-----------------------------------------------------------------------------
(* What a client acknowledges.                                             *)

LEMMA WindowNumbers ==
    /\ WINDOW_SIZE \in Nat /\ SEQ_SPACE \in Nat /\ WINDOW_SIZE < SEQ_SPACE /\ 1 <= WINDOW_SIZE
    /\ \A i : i \in Slot <=> i \in Nat /\ i < WINDOW_SIZE
    /\ \A x \in SeqNum : wrapping_add(x, 0) = x
<1>1. WINDOW_SIZE \in Nat /\ SEQ_SPACE \in Nat /\ WINDOW_SIZE < SEQ_SPACE /\ 1 <= WINDOW_SIZE
  BY WindowAssumption, SeqSpaceAssumption
<1>2. QED
  BY <1>1 DEF Slot, wrapping_add, SeqNum

(* A payload that is stored ends where the next one begins.                *)
LEMMA StoredEnds ==
    ASSUME NEW numbers, NEW t, WellTyped(t), EndsAt(numbers, t), NEW seg \in Segment,
           seg.payload # << >> => wrapping_add(seg.seq_num, Len(seg.payload)) \in numbers,
           NEW s, Stored(t, seg, s)
    PROVE  EndsAt(numbers, s)
<1> DEFINE index == window_index_base(t, seg)
           n == Len(seg.payload)
           covered == index .. index + n - 1
           a == t.ack_base
<1>1. a \in SeqNum /\ seg.seq_num \in SeqNum /\ seg.payload \in Seq(Byte) /\ n \in Nat
  BY LenProperties DEF WellTyped, TCB, Segment
<1>2. index \in SeqNum /\ index \in Nat /\ wrapping_add(a, index) = seg.seq_num
  <2>1. wrapping_sub(seg.seq_num, a) \in SeqNum /\ wrapping_add(a, wrapping_sub(seg.seq_num, a)) = seg.seq_num
    BY <1>1, WrappingType
  <2>2. \A x \in SeqNum : x \in Nat
    BY SeqSpaceAssumption DEF SeqNum
  <2>3. QED
    BY <2>1, <2>2 DEF window_index_base
<1>3. s.ack_base = a
  BY DEF Stored
<1>4. CASE s.recv_window = t.recv_window
  BY <1>3, <1>4 DEF EndsAt
<1>5. CASE /\ covered \subseteq Slot
           /\ \A i \in Slot : s.recv_window[i] = IF i \in covered THEN seg.payload[i - index + 1]
                                                 ELSE t.recv_window[i]
  <2> HIDE DEF index, a
  <2>1. ASSUME NEW i \in covered PROVE s.recv_window[i] # None
    <3>1. i - index + 1 \in 1 .. n
      BY <1>1, <1>2
    <3>2. seg.payload[i - index + 1] \in Byte
      BY <1>1, <3>1, ElementOfSeq
    <3>3. QED
      BY <1>5, <3>2, WindowAssumption
  <2>2. ASSUME NEW i \in Slot, s.recv_window[i] # None,
               i + 1 \in Slot => s.recv_window[i + 1] = None
        PROVE  wrapping_add(a, i + 1) \in numbers
    <3>1. i \in Nat /\ i + 1 \notin covered
      <4>1. i + 1 \in covered => i + 1 \in Slot
        BY <1>5
      <4>2. i + 1 \notin covered
        BY <2>1, <2>2, <4>1
      <4>3. QED
        BY <4>2, WindowNumbers
    <3>2. CASE i \in covered
      <4>1. i + 1 = index + n /\ n # 0
        <5> HIDE DEF n
        <5>1. QED
          BY <1>1, <1>2, <3>1, <3>2
      <4>2. index + n < SEQ_SPACE
        <5>1. i < WINDOW_SIZE /\ WINDOW_SIZE < SEQ_SPACE
          BY <2>2, WindowNumbers
        <5>2. QED
          BY <3>1, <4>1, <5>1, WindowNumbers
      <4>3. wrapping_add(wrapping_add(a, index), n) = wrapping_add(a, index + n)
        BY <1>1, <1>2, <4>2, WrapAdd DEF a
      <4>4. seg.payload # << >>
        BY <4>1
      <4>5. QED
        BY <1>2, <4>1, <4>3, <4>4
    <3>3. CASE i \notin covered
      <4>1. t.recv_window[i] # None
        BY <1>5, <2>2, <3>3
      <4>2. i + 1 \in Slot => t.recv_window[i + 1] = None
        BY <1>5, <2>2, <3>1
      <4>3. QED
        BY <2>2, <4>1, <4>2 DEF EndsAt, a
    <3>4. QED
      BY <3>2, <3>3
  <2>3. QED
    BY <1>3, <2>2 DEF EndsAt, a
<1>6. QED
  BY <1>4, <1>5 DEF Stored

(* What is delivered ends where the next payload begins, whatever has been *)
(* stored ahead of its turn.                                               *)
LEMMA DeliverEnds ==
    ASSUME NEW numbers, NEW t, WellTyped(t), EndsAt(numbers, t)
    PROVE  EndsAt(numbers, deliver_prefix(t))
<1> DEFINE u == deliver_prefix(t)
           n == FilledPrefix(t.recv_window)
           a == t.ack_base
<1>1. /\ n \in Nat /\ n <= WINDOW_SIZE
      /\ \A i \in Nat : i < n => i \in Slot /\ t.recv_window[i] # None
      /\ n \in Slot => t.recv_window[n] = None
      /\ \A i \in Slot : u.recv_window[i] = IF i + n \in Slot THEN t.recv_window[i + n] ELSE None
      /\ u.ack_base = wrapping_add(a, n)
  BY DeliverPrefixProperties
<1>2. a \in SeqNum
  BY DEF WellTyped, TCB
<1> HIDE DEF u, n, a
<1>3. u.ack_base \in numbers
  <2>1. CASE n = 0
    BY <1>1, <1>2, <2>1, WindowNumbers DEF EndsAt, a
  <2>2. CASE n # 0
    <3>1. n - 1 \in Nat /\ n - 1 < n /\ (n - 1) + 1 = n
      BY <1>1, <2>2
    <3>2. n - 1 \in Slot /\ t.recv_window[n - 1] # None
      BY <1>1, <3>1
    <3>3. wrapping_add(a, (n - 1) + 1) \in numbers
      BY <1>1, <3>1, <3>2 DEF EndsAt, a
    <3>4. QED
      BY <1>1, <3>1, <3>3
  <2>3. QED
    BY <2>1, <2>2
<1>4. ASSUME NEW i \in Slot, u.recv_window[i] # None,
             i + 1 \in Slot => u.recv_window[i + 1] = None
      PROVE  wrapping_add(u.ack_base, i + 1) \in numbers
  <2>1. i \in Nat /\ i + n \in Slot /\ t.recv_window[i + n] # None
    BY <1>1, <1>4, WindowNumbers
  <2>2. (i + n) + 1 \in Slot => t.recv_window[(i + n) + 1] = None
    <3>1. SUFFICES ASSUME (i + n) + 1 \in Slot PROVE t.recv_window[(i + n) + 1] = None
      OBVIOUS
    <3>2. i + 1 \in Nat /\ i + 1 < WINDOW_SIZE /\ (i + 1) + n = (i + n) + 1
      <4>1. (i + n) + 1 < WINDOW_SIZE
        BY <3>1, WindowNumbers
      <4>2. QED
        BY <1>1, <2>1, <4>1, WindowNumbers
    <3>3. i + 1 \in Slot
      BY <3>2, WindowNumbers
    <3>4. QED
      BY <1>1, <1>4, <3>1, <3>2, <3>3
  <2>3. wrapping_add(a, (i + n) + 1) \in numbers
    BY <2>1, <2>2 DEF EndsAt, a
  <2>4. n + (i + 1) < SEQ_SPACE /\ (i + n) + 1 = n + (i + 1)
    <3>1. i + n < WINDOW_SIZE
      BY <2>1, WindowNumbers
    <3>2. QED
      BY <1>1, <2>1, <3>1, WindowNumbers
  <2>5. wrapping_add(wrapping_add(a, n), i + 1) = wrapping_add(a, n + (i + 1))
    BY <1>1, <1>2, <2>1, <2>4, WrapAdd
  <2>6. QED
    BY <1>1, <2>3, <2>4, <2>5
<1>5. QED
  BY <1>3, <1>4 DEF EndsAt, u

LEMMA HandlePayloadEnds ==
    ASSUME NEW numbers, NEW t, WellTyped(t), EndsAt(numbers, t), NEW seg \in Segment,
           seg.payload # << >> => wrapping_add(seg.seq_num, Len(seg.payload)) \in numbers
    PROVE  EndsAt(numbers, handle_payload(t, seg))
<1> DEFINE u == handle_payload(t, seg)
           panicked == [t EXCEPT !.state = "Panicked"]
<1>1. \/ u = t \/ u = panicked
      \/ \E s : /\ WellTyped(s) /\ Stored(t, seg, s)
                /\ \/ u = s
                   \/ u = send_ack(deliver_prefix(s), delivery_ack(deliver_prefix(s)))
  BY HandlePayloadCases
<1>2. panicked.ack_base = t.ack_base /\ panicked.recv_window = t.recv_window
  BY DEF WellTyped, TCB
<1> HIDE DEF u, panicked
<1>3. CASE u = t \/ u = panicked
  BY <1>2, <1>3 DEF EndsAt, u
<1>4. ASSUME NEW s, WellTyped(s), Stored(t, seg, s),
             u = send_ack(deliver_prefix(s), delivery_ack(deliver_prefix(s)))
      PROVE  EndsAt(numbers, u)
  <2> DEFINE v == deliver_prefix(s)
  <2>1. EndsAt(numbers, s)
    BY <1>4, StoredEnds
  <2>2. WellTyped(v) /\ EndsAt(numbers, v)
    BY <1>4, <2>1, DeliverPrefixType, DeliverEnds
  <2>3. u = send_ack(v, delivery_ack(v))
    BY <1>4
  <2> HIDE DEF v
  <2>4. u.ack_base = v.ack_base /\ u.recv_window = v.recv_window
    BY <2>2, <2>3 DEF WellTyped, TCB, send_ack, resend_seg
  <2>5. QED
    BY <2>2, <2>4 DEF EndsAt
<1>5. ASSUME NEW s, Stored(t, seg, s), u = s PROVE EndsAt(numbers, u)
  BY <1>5, StoredEnds
<1>6. QED
  BY <1>1, <1>3, <1>4, <1>5 DEF u


LEMMA PayloadSpeaks ==
    ASSUME NEW numbers, NEW text, NEW t, Speaks(numbers, text, t), t.state = "Estab",
           NEW seg \in Segment,
           seg.payload # << >> => wrapping_add(seg.seq_num, Len(seg.payload)) \in numbers
    PROVE  LET u == handle_payload(t, seg)
           IN  Speaks(numbers, text, u) /\ u.state \in {"Estab", "Panicked"}
<1> DEFINE u == handle_payload(t, seg)
<1>1. WellTyped(t) /\ WellTyped(u) /\ EndsAt(numbers, u)
  BY HandlePayloadType, HandlePayloadEnds DEF Speaks
<1>2. u.state \in {"Estab", "Panicked"} /\ SameSender(t, u)
      /\ (u.socket = t.socket \/ u.socket = t.socket \cup {delivery_ack(u)})
  BY <1>1, HandlePayloadSends
<1> HIDE DEF u
<1>3. delivery_ack(u) \in ClientSent(numbers)
  <2>1. u.ack_base \in numbers /\ u.ack_base \in SeqNum
    BY <1>1 DEF EndsAt, WellTyped, TCB
  <2>2. QED
    BY <2>1, ClientSets DEF delivery_ack
<1>4. Within(ClientSent(numbers), ClientQueued, u)
  <2>1. Queued(u) = Queued(t)
    BY <1>2 DEF Queued, SameSender
  <2>2. QED
    BY <1>2, <1>3, <2>1 DEF Speaks, Within
<1>5. SendsText(text, u)
  BY <1>2 DEF Speaks, SendsText, SameSender
<1>6. QED
  BY <1>1, <1>2, <1>4, <1>5 DEF Speaks, Greeting, u

(* The window moves up with an ACK, and still holds what stands there.     *)
LEMMA AckText ==
    ASSUME NEW text \in Texts, NEW t, WellTyped(t), SendsText(text, t),
           NEW num \in 0 .. Len(t.send_window),
           NEW d, d.seq_base = wrapping_add(t.seq_base, num),
           d.send_window = Dropped(t.send_window, num), d.send_buffer = t.send_buffer
    PROVE  SendsText(text, d)
<1> DEFINE w == Len(t.send_window)
           b == Len(t.send_buffer)
           r == Dropped(t.send_window, num)
<1>1. /\ t.send_window \in Seq(Byte) /\ w \in Nat /\ b \in Nat /\ num \in Nat /\ num <= w
      /\ Len(text) \in Nat /\ Len(text) < SEQ_SPACE
  <2>1. /\ Len(text) \in Nat /\ Len(text) <= Len(client_text) /\ Len(client_text) \in Nat
        /\ Len(client_text) + WINDOW_SIZE < SEQ_SPACE /\ WINDOW_SIZE \in Nat /\ SEQ_SPACE \in Nat
    BY TextProperties, StoryNumbers
  <2>2. Len(text) < SEQ_SPACE
    BY <2>1
  <2>3. t.send_window \in Seq(Byte) /\ w \in Nat /\ b \in Nat
    BY LenProperties DEF WellTyped, TCB
  <2>4. QED
    BY <2>1, <2>2, <2>3
<1>2. Len(r) = w - num /\ \A i \in 1 .. w - num : r[i] = t.send_window[num + i]
  <2>1. num \in 0 .. Len(t.send_window)
    OBVIOUS
  <2>2. QED
    BY ONLY <1>1, <2>1, DrainProperties, SMTT(30)
<1>3. PICK k \in 0 .. Len(text) :
        /\ t.seq_base = NumberOf(k)
        /\ k + w + b = Len(text)
        /\ \A i \in 1 .. w : t.send_window[i] = text[k + i]
        /\ \A i \in 1 .. b : t.send_buffer[i] = text[k + w + i]
  BY DEF SendsText
<1> HIDE DEF r, w, b
<1>4. /\ k \in Nat /\ k + num \in 0 .. Len(text) /\ k + num < SEQ_SPACE /\ k < SEQ_SPACE
      /\ (k + num) + (w - num) + b = Len(text)
  <2>1. k \in Nat /\ k + w + b = Len(text)
    BY <1>3
  <2>2. k + num \in 0 .. Len(text) /\ k <= Len(text) /\ (k + num) + (w - num) + b = Len(text)
    BY <1>1, <2>1
  <2>3. SEQ_SPACE \in Nat
    BY StoryNumbers
  <2>4. QED
    BY <1>1, <2>1, <2>2, <2>3
<1>5. d.seq_base = NumberOf(k + num)
  <2>1. wrapping_add(NumberOf(k), num) = NumberOf(k + num)
    BY <1>1, <1>4, NumberProperties
  <2>2. QED
    BY <1>3, <2>1
<1>6. Len(d.send_window) = w - num /\ Len(d.send_buffer) = b
  BY <1>2 DEF r, b
<1>7. ASSUME NEW i \in 1 .. w - num PROVE d.send_window[i] = text[(k + num) + i]
  <2>1. num + i \in 1 .. w /\ k + (num + i) = (k + num) + i
    BY <1>1, <1>4
  <2>2. QED
    BY <1>2, <1>3, <2>1 DEF r
<1>8. ASSUME NEW i \in 1 .. b PROVE d.send_buffer[i] = text[(k + num) + (w - num) + i]
  <2>1. (k + num) + (w - num) + i = k + w + i
    BY <1>1, <1>4
  <2>2. QED
    BY <1>3, <2>1
<1> DEFINE P(n) == /\ d.seq_base = NumberOf(n)
                   /\ n + Len(d.send_window) + Len(d.send_buffer) = Len(text)
                   /\ \A i \in 1 .. Len(d.send_window) : d.send_window[i] = text[n + i]
                   /\ \A i \in 1 .. Len(d.send_buffer) :
                        d.send_buffer[i] = text[n + Len(d.send_window) + i]
<1>9. P(k + num)
  BY <1>4, <1>5, <1>6, <1>7, <1>8
<1> HIDE DEF P
<1>10. \E n \in 0 .. Len(text) : P(n)
  BY <1>4, <1>9
<1>11. QED
  BY <1>10, Zenon DEF SendsText, P

LEMMA AcksSpeaks ==
    ASSUME NEW numbers, NEW text \in Texts, NEW t, Speaks(numbers, text, t),
           t.state = "Estab", NEW seg \in Segment
    PROVE  LET u == handle_acks(t, seg)
           IN  Speaks(numbers, text, u) /\ u.state \in {"Estab", "Panicked"}
<1> DEFINE a == accept_ack(t, seg)
           u == count_dupe_ack(a, seg)
           num == wrapping_sub(seg.ack_num, t.seq_base)
<1>1. /\ WellTyped(t) /\ SendsText(text, t) /\ EndsAt(numbers, t)
      /\ Within(ClientSent(numbers), ClientQueued, t)
  BY DEF Speaks
<1>2. /\ seg.ack_num \in SeqNum /\ t.seq_base \in SeqNum
      /\ wrapping_add(t.seq_base, num) = seg.ack_num
  <2>1. seg.ack_num \in SeqNum /\ t.seq_base \in SeqNum
    BY <1>1 DEF WellTyped, TCB, Segment
  <2>2. QED
    BY <2>1, WrappingType
<1>3. \/ a = t
      \/ /\ a.state = "Panicked" /\ a.socket = t.socket /\ Queued(a) \subseteq Queued(t)
      \/ /\ num \in 0 .. Len(t.send_window)
         /\ \E d : /\ WellTyped(d) /\ a = fill_send_window(d)
                   /\ d.state = t.state /\ d.seq_base = seg.ack_num
                   /\ d.send_window = Dropped(t.send_window, num)
                   /\ d.send_buffer = t.send_buffer
                   /\ SameReceiver(t, d)
                   /\ d.socket = t.socket /\ Queued(d) \subseteq Queued(t)
  BY <1>1, AcceptAckCases
<1>4. WellTyped(a)
  BY <1>1, AcceptAckType
<1> HIDE DEF a, num
<1>5. Speaks(numbers, text, a) /\ a.state \in {"Estab", "Panicked"}
  <2>1. CASE a = t
    BY <2>1
  <2>2. CASE a.state = "Panicked" /\ a.socket = t.socket /\ Queued(a) \subseteq Queued(t)
    BY <1>1, <1>4, <2>2 DEF Speaks, Within, Greeting
  <2>3. ASSUME num \in 0 .. Len(t.send_window), NEW d, WellTyped(d), a = fill_send_window(d),
               d.state = t.state, d.seq_base = seg.ack_num,
               d.send_window = Dropped(t.send_window, num), d.send_buffer = t.send_buffer,
               SameReceiver(t, d), d.socket = t.socket, Queued(d) \subseteq Queued(t)
        PROVE  Speaks(numbers, text, a) /\ a.state = "Estab"
    <3>1. SendsText(text, d)
      BY <1>1, <1>2, <2>3, AckText
    <3>2. Within(ClientSent(numbers), ClientQueued, d)
      BY <1>1, <2>3 DEF Within
    <3>3. /\ a.state = "Estab" /\ SameReceiver(d, a)
          /\ SendsText(text, a) /\ Within(ClientSent(numbers), ClientQueued, a)
      BY <2>3, <3>1, <3>2, FillText
    <3>4. EndsAt(numbers, a)
      BY <1>1, <2>3, <3>3 DEF EndsAt, SameReceiver
    <3>5. QED
      BY <1>4, <3>3, <3>4 DEF Speaks, Greeting
  <2>4. QED
    BY <1>3, <2>1, <2>2, <2>3
<1>6. /\ WellTyped(u) /\ u.state = a.state /\ SameSender(a, u) /\ SameReceiver(a, u)
      /\ u.socket \subseteq a.socket \cup Queued(a)
  BY <1>4, CountDupeAckType, CountDupeAckSends
<1>7. handle_acks(t, seg) = u
  BY DEF handle_acks, a
<1> HIDE DEF u
<1>8. Within(ClientSent(numbers), ClientQueued, u)
  BY <1>5, <1>6, ClientSets DEF Speaks, Within, SameSender, Queued
<1>9. SendsText(text, a) => SendsText(text, u)
  BY <1>6 DEF SendsText, SameSender
<1>10. EndsAt(numbers, a) => EndsAt(numbers, u)
  BY <1>6 DEF EndsAt, SameReceiver
<1>11. QED
  BY <1>5, <1>6, <1>7, <1>8, <1>9, <1>10 DEF Speaks, Greeting


(* A client that waits for its SYN-ACK takes 2 for the number of its first *)
(* byte, and nothing else before it is established.                        *)
LEMMA ShakenSpeaks ==
    ASSUME NEW numbers, NEW text \in Texts, NEW t, Speaks(numbers, text, t),
           t.state = "SynSent", NEW seg \in Segment, next_seq(seg) \in numbers,
           "SYN" \in seg.flags => seg.ack_num = 2,
           "ACK" \in seg.flags => "SYN" \in seg.flags
    PROVE  LET u == handle_shake(handle_acks(t, seg), seg)
           IN  /\ Speaks(numbers, text, u)
               /\ u.state \in {"SynSent", "Estab"}
               /\ "ACK" \in seg.flags <=> u.state = "Estab"
<1> DEFINE a == accept_ack(t, seg)
           u == handle_shake(a, seg)
<1>1. /\ WellTyped(t) /\ Fresh(t) /\ text = << >>
      /\ Within(ClientSent(numbers), ClientQueued, t)
  BY DEF Speaks, Greeting
<1>2. handle_acks(t, seg) = a /\ WellTyped(a)
  <2>1. WellTyped(a) /\ a.state # "Estab"
    <3>1. WellTyped(a)
      BY <1>1, AcceptAckType
    <3>2. a = t \/ a.state = t.state
      BY <1>1, AcceptAckCases
    <3>3. QED
      BY <3>1, <3>2
  <2> HIDE DEF a
  <2>2. count_dupe_ack(a, seg) = a
    BY <2>1, CountDupeAckSends
  <2>3. QED
    BY <2>1, <2>2 DEF handle_acks, a
<1>3. new_ack(t, seg) <=> "ACK" \in seg.flags
  <2>1. ASSUME "ACK" \in seg.flags PROVE new_ack(t, seg)
    <3>1. seg.ack_num = 2 /\ t.seq_base = 1
      BY <1>1, <2>1 DEF Fresh
    <3>2. WINDOW_SIZE \in SeqNum
      BY WindowNumbers DEF SeqNum
    <3>3. wrapping_sub(2, 2) = 0
      BY DEF wrapping_sub
    <3>4. in_wrapped_range(2, wrapping_add(2, WINDOW_SIZE), 2)
      BY <3>2, <3>3, RangeIsDistance, StoryNumbers, WindowNumbers
    <3>5. QED
      BY <2>1, <3>1, <3>4, StoryNumbers DEF new_ack
  <2>2. QED
    BY <2>1 DEF new_ack
<1>4. CASE "ACK" \notin seg.flags
  <2>1. a = t
    BY <1>1, <1>3, <1>4, AcceptAckCases
  <2>2. u = t
    BY <1>4, <2>1 DEF handle_shake
  <2>3. QED
    BY <1>2, <1>4, <2>2
<1>5. CASE "ACK" \in seg.flags
  <2> DEFINE ack == [make_seg EXCEPT !.flags = {"ACK"}, !.ack_num = peer_next(seg)]
             b == [a EXCEPT !.state = "Estab", !.ack_base = peer_next(seg)]
             c == send_ack(b, ack)
             v == fill_send_window(c)
  <2>1. "SYN" \in seg.flags /\ seg.ack_num = 2 /\ {"SYN", "ACK"} \subseteq seg.flags
    BY <1>5
  <2>2. /\ a.state = "SynSent" /\ a.seq_base = 2
        /\ a.send_window = << >> /\ a.send_buffer = << >> /\ SameReceiver(t, a)
        /\ a.socket = t.socket /\ Queued(a) \subseteq Queued(t)
    <3>1. /\ a.state = t.state /\ a.seq_base = seg.ack_num
          /\ a.send_window = t.send_window /\ a.send_buffer = t.send_buffer
          /\ SameReceiver(t, a) /\ a.socket = t.socket /\ Queued(a) \subseteq Queued(t)
      BY <1>1, <1>3, <1>5, AcceptAckCases
    <3>2. QED
      BY <1>1, <2>1, <3>1 DEF Fresh
  <2>3. peer_next(seg) \in numbers /\ peer_next(seg) \in SeqNum
    <3>1. peer_next(seg) = next_seq(seg)
      BY <2>1 DEF peer_next, next_seq
    <3>2. seg.seq_num \in SeqNum
      BY DEF Segment
    <3>3. QED
      BY <3>1, <3>2, StoryNumbers, WrappingType DEF peer_next
  <2>4. ack \in ClientSent(numbers) /\ ack \in Segment
    <3>1. ack \in ClientSent(numbers)
      BY <2>3, ClientSets
    <3>2. ack \in Segment
      BY <2>3, MakeSegType DEF Segment, Flag
    <3>3. QED
      BY <3>1, <3>2
  <2> HIDE DEF ack, a
  <2>5. handle_shake(a, seg) = v
    BY <2>1, <2>2 DEF handle_shake, ack
  <2>6. /\ WellTyped(b) /\ b.state = "Estab" /\ b.seq_base = 2
        /\ b.send_window = << >> /\ b.send_buffer = << >>
        /\ b.recv_window = t.recv_window /\ b.ack_base = peer_next(seg)
        /\ b.socket = t.socket /\ b.unacked_segs = a.unacked_segs
    BY <1>2, <2>2, <2>3 DEF WellTyped, TCB, TCBState, SameReceiver
  <2> HIDE DEF b
  <2>7. /\ WellTyped(c) /\ c.state = "Estab" /\ c.seq_base = 2
        /\ c.send_window = << >> /\ c.send_buffer = << >>
        /\ c.recv_window = t.recv_window /\ c.ack_base = peer_next(seg)
        /\ c.socket = t.socket \cup {ack} /\ c.unacked_segs = a.unacked_segs
    <3>1. WellTyped(c)
      BY <2>4, <2>6, ResendSegType
    <3>2. QED
      BY <2>6, <3>1 DEF WellTyped, TCB, send_ack, resend_seg
  <2> HIDE DEF c
  <2>8. Within(ClientSent(numbers), ClientQueued, c)
    <3>1. Queued(c) = Queued(a)
      BY <2>7 DEF Queued
    <3>2. QED
      BY <1>1, <2>2, <2>4, <2>7, <3>1 DEF Within
  <2>9. SendsText(<< >>, c)
    <3>1. Len(<< >>) = 0 /\ 0 \in 0 .. 0 /\ NumberOf(0) = 2
      BY StoryNumbers
    <3>2. \A i \in 1 .. 0 : FALSE
      OBVIOUS
    <3> DEFINE P(n) == /\ c.seq_base = NumberOf(n)
                       /\ n + Len(c.send_window) + Len(c.send_buffer) = Len(<< >>)
                       /\ \A i \in 1 .. Len(c.send_window) : c.send_window[i] = << >>[n + i]
                       /\ \A i \in 1 .. Len(c.send_buffer) :
                            c.send_buffer[i] = << >>[n + Len(c.send_window) + i]
    <3>3. P(0)
      BY <2>7, <3>1, <3>2
    <3> HIDE DEF P
    <3>4. \E n \in 0 .. Len(<< >>) : P(n)
      BY <3>1, <3>3
    <3>5. QED
      BY <3>4, Zenon DEF SendsText, P
  <2>10. /\ WellTyped(v) /\ v.state = "Estab" /\ SameReceiver(c, v)
         /\ SendsText(<< >>, v) /\ Within(ClientSent(numbers), ClientQueued, v)
    BY <2>7, <2>8, <2>9, FillText DEF Texts
  <2> HIDE DEF v
  <2>11. EndsAt(numbers, v)
    <3>1. v.ack_base \in numbers /\ \A i \in Slot : v.recv_window[i] = None
      BY <1>1, <2>3, <2>7, <2>10 DEF SameReceiver, Fresh
    <3>2. QED
      BY <3>1 DEF EndsAt
  <2>12. Speaks(numbers, text, v)
    BY <1>1, <2>10, <2>11 DEF Speaks, Greeting
  <2>13. handle_shake(handle_acks(t, seg), seg) = v
    BY <1>2, <2>5
  <2>14. QED
    BY <1>5, <2>10, <2>12, <2>13
<1>6. QED
  BY <1>4, <1>5

(* Whatever the server has sent that a client handles, what the client     *)
(* sends stays a part of its stream, and its acknowledgements stay among   *)
(* the numbers.                                                            *)
LEMMA ReceiveSpeaks ==
    ASSUME NEW numbers, NEW text \in Texts, NEW t, Speaks(numbers, text, t),
           t.state \in {"SynSent", "Estab"}, NEW seg \in Segment, next_seq(seg) \in numbers,
           "SYN" \in seg.flags => seg.ack_num = 2 /\ seg.payload = << >>,
           t.state = "SynSent" => ("ACK" \in seg.flags => "SYN" \in seg.flags)
    PROVE  LET u == handle_seg(t, seg)
           IN  /\ Speaks(numbers, text, u)
               /\ u.state # "Listen" /\ (Greeting(u) => Greeting(t))
<1> DEFINE s == handle_shake(handle_acks(t, seg), seg)
           h == handle_payload(s, seg)
<1>1. Speaks(numbers, text, s) /\ s.state \in {"SynSent", "Estab", "Panicked"}
      /\ (s.state = "SynSent" => t.state = "SynSent")
  <2>1. CASE t.state = "SynSent"
    BY <2>1, ShakenSpeaks
  <2>2. CASE t.state = "Estab"
    <3> DEFINE a == handle_acks(t, seg)
    <3>1. Speaks(numbers, text, a) /\ a.state \in {"Estab", "Panicked"}
      BY <2>2, AcksSpeaks
    <3> HIDE DEF a
    <3>2. handle_shake(a, seg) = a
      BY <3>1 DEF handle_shake
    <3>3. QED
      BY <3>1, <3>2 DEF a
  <2>3. QED
    BY <2>1, <2>2
<1>2. seg.payload # << >> => wrapping_add(seg.seq_num, Len(seg.payload)) \in numbers
  BY DEF next_seq
<1>3. handle_seg(t, seg) = IF "FIN" \in seg.flags /\ h.state # "Panicked"
                           THEN handle_close(h) ELSE h
  BY DEF handle_seg
<1> HIDE DEF s
<1>4. Speaks(numbers, text, h) /\ h.state \in {"SynSent", "Estab", "Panicked"}
      /\ (h.state = "SynSent" => t.state = "SynSent")
  <2>1. CASE s.state = "Estab"
    BY <1>1, <1>2, <2>1, PayloadSpeaks
  <2>2. CASE s.state # "Estab"
    <3>1. h = s
      BY <2>2 DEF handle_payload
    <3>2. QED
      BY <1>1, <3>1
  <2>3. QED
    BY <2>1, <2>2
<1> HIDE DEF h
<1>5. Speaks(numbers, text, handle_close(h)) /\ handle_close(h).state = "Closed"
  <2> DEFINE v == handle_close(h)
  <2>1. WellTyped(v) /\ v.state = "Closed" /\ v.socket = h.socket /\ v.unacked_segs = h.unacked_segs
    BY <1>4 DEF Speaks, WellTyped, TCB, TCBState, handle_close
  <2> HIDE DEF v
  <2>2. Speaks(numbers, text, v)
    BY <1>4, <2>1 DEF Speaks, Within, Queued, Greeting
  <2>3. QED
    BY <2>1, <2>2 DEF v
<1>6. QED
  BY <1>3, <1>4, <1>5 DEF Greeting

LEMMA SpeaksMore ==
    ASSUME NEW numbers, NEW more, numbers \subseteq more, NEW text, NEW t,
           Speaks(numbers, text, t)
    PROVE  Speaks(more, text, t)
<1>1. ClientSent(numbers) \subseteq ClientSent(more)
  BY DEF ClientSent
<1>2. EndsAt(numbers, t) => EndsAt(more, t)
  BY DEF EndsAt
<1>3. Within(ClientSent(numbers), ClientQueued, t) => Within(ClientSent(more), ClientQueued, t)
  BY <1>1 DEF Within
<1>4. QED
  BY <1>2, <1>3 DEF Speaks


-----------------------------------------------------------------------------
(* A step of a client keeps the client in step.                            *)

QuietInput(c) == \A k \in 1 .. Len(c.input) :
    c.input[k].kind = "Receive" => NoOtherAck({c.input[k].seg})

\* ClientInStep, with the types
ClientOK(segs, c) ==
    /\ c \in Client
    /\ Speaks(Answerable(segs), given(c), c.tcb)
    /\ c.dropped => ~ Running(c)
    /\ c.read <= Len(c.tcb.byte_output)
    /\ Greeting(c.tcb) => c.session = "Contents"
    /\ InputInStep(segs, c)

LEMMA ClientOKInStep ==
    ASSUME NEW segs, NEW c
    PROVE  ClientOK(segs, c) <=> c \in Client /\ ClientInStep(segs, c)
<1>1. c \in Client =>
        (ClientSide(Answerable(segs), given(c), c.tcb) <=> Speaks(Answerable(segs), given(c), c.tcb))
  BY SpeaksIsClientSide DEF Client
<1>2. QED
  BY <1>1, Zenon DEF ClientOK, ClientInStep

LEMMA ClientOKMore ==
    ASSUME NEW segs, NEW more, segs \subseteq more, NEW c, ClientOK(segs, c)
    PROVE  ClientOK(more, c)
<1>1. Answerable(segs) \subseteq Answerable(more)
  BY DEF Answerable
<1>2. Speaks(Answerable(more), given(c), c.tcb)
  BY <1>1, SpeaksMore DEF ClientOK
<1>3. InputInStep(segs, c) => InputInStep(more, c)
  BY DEF InputInStep
<1>4. QED
  BY <1>2, <1>3 DEF ClientOK

LEMMA ClientInputs ==
    ASSUME NEW in \in ClientInput
    PROVE  /\ \/ in = SendSyn \/ in = Close \/ in = Send(client_text)
              \/ in.kind = "Receive" /\ in.seg \in Segment
           /\ in = SendSyn => in.kind = "SendSyn"
           /\ in = Close => in.kind = "Close"
           /\ in = Send(client_text) => in.kind = "Send" /\ in.data = client_text
<1>1. in \in {SendSyn, Close, Send(client_text)} \/ in \in [kind : {"Receive"}, seg : Segment]
  BY DEF ClientInput
<1>2. in \in [kind : {"Receive"}, seg : Segment] => in.kind = "Receive" /\ in.seg \in Segment
  OBVIOUS
<1>3. QED
  BY <1>1, <1>2 DEF SendSyn, Close, Send

LEMMA InputElements ==
    ASSUME NEW c \in Client
    PROVE  /\ c.input \in Seq(ClientInput) /\ Len(c.input) \in Nat
           /\ \A k \in 1 .. Len(c.input) : c.input[k] \in ClientInput
           /\ c.input # << >> =>
                /\ 1 <= Len(c.input) /\ Head(c.input) = c.input[1]
                /\ Head(c.input) \in ClientInput
                /\ Tail(c.input) \in Seq(ClientInput)
                /\ Len(Tail(c.input)) = Len(c.input) - 1
                /\ \A k \in 1 .. Len(c.input) - 1 : Tail(c.input)[k] = c.input[k + 1]
           /\ \A in : /\ Len(Append(c.input, in)) = Len(c.input) + 1
                      /\ \A k \in 1 .. Len(c.input) : Append(c.input, in)[k] = c.input[k]
                      /\ Append(c.input, in)[Len(c.input) + 1] = in
           /\ \A in \in ClientInput : Append(c.input, in) \in Seq(ClientInput)
<1> DEFINE q == c.input
           n == Len(q)
<1>1. q \in Seq(ClientInput) /\ n \in Nat
  BY LenProperties DEF Client
<1>2. \A k \in 1 .. n : q[k] \in ClientInput
  BY <1>1, ElementOfSeq
<1> HIDE DEF q
<1>3. q # << >> => /\ 1 <= n /\ Head(q) = q[1] /\ Head(q) \in ClientInput
                   /\ Tail(q) \in Seq(ClientInput) /\ Len(Tail(q)) = n - 1
                   /\ \A k \in 1 .. n - 1 : Tail(q)[k] = q[k + 1]
  <2>1. q # << >> => n # 0
    BY <1>1, EmptySeq
  <2>2. q # << >> => /\ Head(q) = q[1] /\ Head(q) \in ClientInput
                     /\ Tail(q) \in Seq(ClientInput) /\ Len(Tail(q)) = n - 1
                     /\ \A k \in 1 .. Len(Tail(q)) : Tail(q)[k] = q[k + 1]
    BY <1>1, HeadTailProperties
  <2> HIDE DEF n
  <2>3. n # 0 => 1 <= n
    BY <1>1
  <2>4. QED
    BY <2>1, <2>2, <2>3
<1>4. ASSUME NEW in
      PROVE  /\ Len(Append(q, in)) = n + 1
             /\ \A k \in 1 .. n : Append(q, in)[k] = q[k]
             /\ Append(q, in)[n + 1] = in
  <2> DEFINE S == ClientInput \cup {in}
  <2>1. q \in Seq(S)
    BY <1>1, <1>2, SeqMonotonic
  <2>2. in \in S
    OBVIOUS
  <2> HIDE DEF S
  <2>3. QED
    BY <2>1, <2>2, AppendProperties
<1>5. \A in \in ClientInput : Append(q, in) \in Seq(ClientInput)
  BY <1>1, AppendProperties
<1>6. QED
  BY <1>1, <1>2, <1>3, <1>4, <1>5 DEF q

\* an input has been taken out of the channel
LEMMA TakenInStep ==
    ASSUME NEW segs, NEW c \in Client, InputInStep(segs, c), c.input # << >>,
           NEW d, d.input = Tail(c.input), d.session = c.session, d.tcb.state # "Listen"
    PROVE  /\ InputInStep(segs, d)
           /\ QuietInput(c) => QuietInput(d)
           /\ Untold(d) <=> Untold(c) /\ Head(c.input).kind # "Send"
<1> DEFINE q == c.input
           n == Len(q)
           r == d.input
<1>1. /\ n \in Nat /\ 1 <= n /\ Head(q) = q[1] /\ Len(r) = n - 1
      /\ \A k \in 1 .. n - 1 : r[k] = q[k + 1]
  BY InputElements
<1> HIDE DEF n, r
<1>2. \A k \in 1 .. n - 1 : k + 1 \in 1 .. n /\ k + 1 # 1
  BY <1>1
<1>3. \A k \in 1 .. n : k # 1 => k - 1 \in 1 .. n - 1 /\ (k - 1) + 1 = k
  BY <1>1
<1>4. 1 \in 1 .. n
  BY <1>1
<1>5. /\ \A k \in 1 .. n : q[k] = SendSyn => k = 1
      /\ \A k \in 1 .. n : q[k].kind \in {"Send", "Close"} => c.session # "Contents"
      /\ \A k \in 1 .. n : q[k].kind = "Send" => \A j \in 1 .. n : q[j].kind = "Send" => j = k
      /\ \A k \in 1 .. n : q[k].kind = "Receive" => q[k].seg \in segs
  BY DEF InputInStep, n, q
<1>6. \A k \in 1 .. n - 1 : r[k] # SendSyn
  BY <1>1, <1>2, <1>5
<1>7. \A k, j \in 1 .. n - 1 : r[k].kind = "Send" /\ r[j].kind = "Send" => j = k
  <2> TAKE k, j \in 1 .. n - 1
  <2>1. r[k].kind = "Send" /\ r[j].kind = "Send" => j + 1 = k + 1
    BY <1>1, <1>2, <1>5
  <2>2. j + 1 = k + 1 => j = k
    BY <1>1
  <2>3. QED
    BY <2>1, <2>2
<1>8. \A k \in 1 .. n - 1 : /\ r[k].kind \in {"Send", "Close"} => d.session # "Contents"
                            /\ r[k].kind = "Receive" => r[k].seg \in segs
  BY <1>1, <1>2, <1>5
<1>9. InputInStep(segs, d)
  BY <1>1, <1>6, <1>7, <1>8 DEF InputInStep, r
<1>10. QuietInput(c) => QuietInput(d)
  BY <1>1, <1>2 DEF QuietInput, r, n
<1>11. (\E k \in 1 .. n - 1 : r[k].kind = "Send") <=>
         (\E k \in 1 .. n : q[k].kind = "Send") /\ q[1].kind # "Send"
  <2>1. ASSUME NEW k \in 1 .. n - 1, r[k].kind = "Send"
        PROVE  q[k + 1].kind = "Send" /\ k + 1 \in 1 .. n /\ q[1].kind # "Send"
    BY <1>1, <1>2, <1>4, <1>5, <2>1
  <2>2. ASSUME NEW k \in 1 .. n, q[k].kind = "Send", q[1].kind # "Send"
        PROVE  k - 1 \in 1 .. n - 1 /\ r[k - 1].kind = "Send"
    BY <1>1, <1>3, <2>2
  <2>3. QED
    BY <2>1, <2>2
<1>12. q[1].kind = "Send" => c.session # "Contents"
  BY <1>4, <1>5
<1>13. QED
  BY <1>1, <1>9, <1>10, <1>11, <1>12 DEF Untold, n, q, r

\* an input has been put into the channel
LEMMA EnqueuedInStep ==
    ASSUME NEW segs, NEW c \in Client, InputInStep(segs, c), NEW in, in # SendSyn,
           in.kind = "Receive" => in.seg \in segs,
           in.kind = "Send" => \A k \in 1 .. Len(c.input) : c.input[k].kind # "Send",
           NEW d, d.input = Append(c.input, in), d.tcb.state = c.tcb.state,
           d.session = "Contents" => c.session = "Contents" /\ in.kind \notin {"Send", "Close"}
    PROVE  /\ InputInStep(segs, d)
           /\ QuietInput(c) /\ (in.kind = "Receive" => NoOtherAck({in.seg})) => QuietInput(d)
           /\ Untold(d) <=> \/ d.session = "Contents" \/ in.kind = "Send"
                            \/ \E k \in 1 .. Len(c.input) : c.input[k].kind = "Send"
<1> DEFINE q == c.input
           n == Len(q)
           r == d.input
<1>1. /\ n \in Nat /\ Len(r) = n + 1
      /\ \A k \in 1 .. n : r[k] = q[k]
      /\ r[n + 1] = in
  BY InputElements
<1> HIDE DEF n, r
<1>2. \A k \in 1 .. n + 1 : k \in 1 .. n \/ k = n + 1
  BY <1>1
<1>3. n + 1 \in 1 .. n + 1 /\ \A k \in 1 .. n : k \in 1 .. n + 1
  BY <1>1
<1>4. /\ c.tcb.state = "Listen" <=> \E k \in 1 .. n : q[k] = SendSyn
      /\ \A k \in 1 .. n : q[k] = SendSyn => k = 1
      /\ \A k \in 1 .. n : q[k].kind \in {"Send", "Close"} => c.session # "Contents"
      /\ \A k \in 1 .. n : q[k].kind = "Send" => \A j \in 1 .. n : q[j].kind = "Send" => j = k
      /\ \A k \in 1 .. n : q[k].kind = "Receive" => q[k].seg \in segs
  BY DEF InputInStep, n, q
<1>5. d.tcb.state = "Listen" <=> \E k \in 1 .. n + 1 : r[k] = SendSyn
  BY <1>1, <1>2, <1>3, <1>4
<1>6. \A k \in 1 .. n + 1 :
        /\ r[k] = SendSyn => k = 1
        /\ r[k].kind \in {"Send", "Close"} => d.session # "Contents"
        /\ r[k].kind = "Receive" => r[k].seg \in segs
  BY <1>1, <1>2, <1>4
<1>7. \A k, j \in 1 .. n + 1 : r[k].kind = "Send" /\ r[j].kind = "Send" => j = k
  BY <1>1, <1>2, <1>4 DEF n
<1>8. InputInStep(segs, d)
  BY <1>1, <1>5, <1>6, <1>7 DEF InputInStep, r
<1>9. QuietInput(c) /\ (in.kind = "Receive" => NoOtherAck({in.seg})) => QuietInput(d)
  BY <1>1, <1>2 DEF QuietInput, r, n
<1>10. (\E k \in 1 .. n + 1 : r[k].kind = "Send") <=>
         in.kind = "Send" \/ \E k \in 1 .. n : q[k].kind = "Send"
  BY <1>1, <1>2, <1>3
<1>11. QED
  BY <1>1, <1>8, <1>9, <1>10 DEF Untold, n, q, r


LEMMA GivenTexts ==
    ASSUME NEW c
    PROVE  /\ given(c) \in Texts
           /\ Untold(c) => given(c) = << >>
           /\ ~ Untold(c) => given(c) = client_text
BY DEF given, Texts

\* the segments that come from the server
ServerTells(segs) ==
    \A seg \in segs :
        /\ seg \in Segment
        /\ "SYN" \in seg.flags => seg.ack_num = 2 /\ seg.payload = << >>

(* One input, whichever it is.                                             *)
LEMMA ClientHandled ==
    ASSUME NEW segs, ServerTells(segs), NEW c, ClientOK(segs, c), Running(c),
           c.input # << >>, Greeting(c.tcb) => QuietInput(c),
           NEW t, t = client_handled(c, Head(c.input))
    PROVE  /\ Speaks(Answerable(segs),
                     IF Head(c.input).kind = "Send" THEN client_text ELSE given(c), t)
           /\ t.state # "Listen" /\ (Greeting(t) => Greeting(c.tcb))
           /\ Len(c.tcb.byte_output) <= Len(t.byte_output)
<1> DEFINE b == c.tcb
           in == Head(c.input)
           N == Answerable(segs)
<1>1. /\ Len(c.input) \in Nat /\ 1 <= Len(c.input) /\ in = c.input[1] /\ in \in ClientInput
  BY InputElements DEF ClientOK
<1>2. /\ WellTyped(b) /\ Speaks(N, given(c), b) /\ given(c) \in Texts
      /\ Len(b.byte_output) \in Nat
  BY GivenTexts, TcbHasReceived DEF ClientOK, Speaks
<1>3. b.state \in {"Listen", "SynSent", "Estab"}
  <2>1. b.state \in TCBState \cup {"Panicked"} /\ b.state # "SynRecd"
    BY <1>2 DEF WellTyped, TCB, Speaks
  <2>2. QED
    BY <2>1 DEF Running, TCBState
<1>4. 1 \in 1 .. Len(c.input)
  BY <1>1
<1>5. /\ b.state = "Listen" <=> in = SendSyn
      /\ in.kind \in {"Send", "Close"} => c.session # "Contents"
      /\ in.kind = "Receive" => in.seg \in segs
      /\ in.kind = "Send" => given(c) = << >>
  <2>1. /\ b.state = "Listen" <=> \E k \in 1 .. Len(c.input) : c.input[k] = SendSyn
        /\ \A k \in 1 .. Len(c.input) :
             /\ c.input[k] = SendSyn => k = 1
             /\ c.input[k].kind \in {"Send", "Close"} => c.session # "Contents"
             /\ c.input[k].kind = "Receive" => c.input[k].seg \in segs
    BY DEF ClientOK, InputInStep
  <2>2. in.kind = "Send" => Untold(c)
    BY <1>1, <1>4 DEF Untold
  <2>3. QED
    BY <1>1, <1>4, <2>1, <2>2, GivenTexts
<1>6. c.session # "Contents" => b.state = "Estab"
  BY <1>3 DEF ClientOK, Greeting
<1>7. c.session \in {"Contents", "Echo", "Joining", "Done", "Died"}
  BY DEF ClientOK, Client
<1>8. Greeting(b) /\ in.kind = "Receive" => NoOtherAck({in.seg})
  BY <1>1, <1>4 DEF QuietInput
<1> HIDE DEF N, b, in
<1>9. CASE in = SendSyn
  <2>1. t = send_syn(b)
    BY <1>9 DEF client_handled, b, in
  <2>2. Speaks(N, given(c), t)
    BY <1>2, <1>5, <1>9, <2>1, SendSynSpeaks
  <2>3. t.state = "SynSent" /\ t.byte_output = b.byte_output
    <3> DEFINE u == send_seg(b, [make_seg EXCEPT !.flags = {"SYN"}, !.seq_num = b.seq_base])
    <3>1. HasReceived(u) /\ u.byte_output = b.byte_output
      BY <1>2, TcbHasReceived, SendSegKeeps DEF Keeps
    <3>2. t = [u EXCEPT !.state = "SynSent"]
      BY <2>1 DEF send_syn
    <3> HIDE DEF u
    <3>3. QED
      BY <3>1, <3>2 DEF HasReceived
  <2>4. in.kind # "Send"
    BY <1>9 DEF SendSyn
  <2>5. QED
    BY <1>2, <1>5, <1>9, <2>2, <2>3, <2>4 DEF Greeting, b, in, N
<1>10. ASSUME in # SendSyn PROVE t = handled(c, in)
  BY <1>10 DEF client_handled, in
<1>11. CASE in = Close
  <2>1. in.kind = "Close" /\ in # SendSyn
    BY <1>11 DEF Close, SendSyn
  <2>2. b.state = "Estab" /\ t = send_close(b)
    BY <1>5, <1>6, <1>10, <2>1 DEF handled, b
  <2>3. Speaks(N, given(c), t)
    BY <1>2, <2>2, CloseSpeaks
  <2>4. t.byte_output = b.byte_output
    BY <1>2, <2>2, TcbHasReceived, SendCloseKeeps DEF Keeps
  <2>5. t.state = "Closed"
    <3> DEFINE u == send_seg(b, [make_seg EXCEPT !.flags = {"FIN"}, !.seq_num = b.seq_base])
    <3>1. HasReceived(u)
      BY <1>2, TcbHasReceived, SendSegKeeps DEF Keeps
    <3>2. t = [u EXCEPT !.state = "Closed"]
      BY <2>2 DEF send_close
    <3> HIDE DEF u
    <3>3. QED
      BY <3>1, <3>2 DEF HasReceived
  <2>6. QED
    BY <1>2, <2>1, <2>3, <2>4, <2>5 DEF Greeting, b, in, N
<1>12. CASE in = Send(client_text)
  <2>1. in.kind = "Send" /\ in # SendSyn /\ in.data = client_text
    BY <1>12 DEF Send, SendSyn
  <2>2. b.state = "Estab" /\ t = send(b, client_text)
    BY <1>5, <1>6, <1>10, <2>1 DEF handled, b
  <2>3. Speaks(N, client_text, t)
    BY <1>2, <1>5, <2>1, <2>2, SendSpeaks
  <2>4. t.byte_output = b.byte_output
    BY <1>2, <2>2, TcbHasReceived, SendKeeps DEF Keeps
  <2>5. t.state \in {"Estab", "Closed", "Panicked"}
    BY <1>2, <2>2, TcbHasReceived, SendKeeps DEF Keeps
  <2>6. QED
    BY <1>2, <2>1, <2>3, <2>4, <2>5 DEF Greeting, b, in, N
<1>13. CASE in.kind = "Receive" /\ in.seg \in Segment
  <2> DEFINE seg == in.seg
  <2>1. in # SendSyn /\ in.kind # "Send"
    BY <1>13 DEF SendSyn
  <2>2. t = handle_seg(b, seg)
    <3>1. ~ panics_on_output(c, seg)
      BY <1>7 DEF panics_on_output
    <3>2. QED
      BY <1>10, <1>13, <2>1, <3>1 DEF handled, b
  <2>3. b.state \in {"SynSent", "Estab"}
    BY <1>3, <1>5, <2>1
  <2>4. next_seq(seg) \in N
    BY <1>5, <1>13 DEF Answerable, N
  <2>5. "SYN" \in seg.flags => seg.ack_num = 2 /\ seg.payload = << >>
    BY <1>5, <1>13 DEF ServerTells
  <2>6. b.state = "SynSent" => ("ACK" \in seg.flags => "SYN" \in seg.flags)
    BY <1>8, <1>13 DEF Greeting, NoOtherAck
  <2>7. seg \in Segment
    BY <1>13
  <2> HIDE DEF seg
  <2>8. Speaks(N, given(c), t) /\ t.state # "Listen" /\ (Greeting(t) => Greeting(b))
    BY <1>2, <2>2, <2>3, <2>4, <2>5, <2>6, <2>7, ReceiveSpeaks
  <2>9. Len(b.byte_output) <= Len(t.byte_output)
    BY <1>2, <2>2, <2>7, HandleSegOutput
  <2>10. QED
    BY <2>1, <2>8, <2>9 DEF b, in, N
<1>14. QED
  BY <1>1, <1>9, <1>11, <1>12, <1>13, ClientInputs

LEMMA ClientHandlesOK ==
    ASSUME NEW segs, ServerTells(segs), NEW c, ClientOK(segs, c), Running(c),
           c.input # << >>, Greeting(c.tcb) => QuietInput(c),
           NEW d, d = [c EXCEPT !.tcb = client_handled(c, Head(c.input)), !.input = Tail(@)]
    PROVE  /\ ClientOK(segs, d) /\ (Greeting(d.tcb) => Greeting(c.tcb))
           /\ QuietInput(c) => QuietInput(d)
<1> DEFINE t == client_handled(c, Head(c.input))
           text == IF Head(c.input).kind = "Send" THEN client_text ELSE given(c)
<1>1. /\ Speaks(Answerable(segs), text, t)
      /\ t.state # "Listen" /\ (Greeting(t) => Greeting(c.tcb))
      /\ Len(c.tcb.byte_output) <= Len(t.byte_output)
  BY ClientHandled
<1>2. /\ c \in Client /\ Tail(c.input) \in Seq(ClientInput)
      /\ Len(c.tcb.byte_output) \in Nat /\ c.read \in Nat /\ c.read <= Len(c.tcb.byte_output)
  <2>1. c \in Client
    BY DEF ClientOK
  <2>2. c.tcb.byte_output \in Seq(Byte)
    BY <2>1 DEF Client, TCB
  <2>3. QED
    BY <2>1, <2>2, InputElements, LenProperties DEF ClientOK, Client
<1>3. WellTyped(t) /\ t \in TCB /\ Len(t.byte_output) \in Nat
  BY <1>1, TcbHasReceived DEF Speaks, WellTyped
<1> HIDE DEF t
<1>4. /\ d.tcb = t /\ d.input = Tail(c.input) /\ d.session = c.session
      /\ d.dropped = c.dropped /\ d.read = c.read /\ d \in Client
  BY <1>2, <1>3 DEF Client, t
<1>5. /\ InputInStep(segs, d) /\ (QuietInput(c) => QuietInput(d))
      /\ Untold(d) <=> Untold(c) /\ Head(c.input).kind # "Send"
  <2>1. InputInStep(segs, c) /\ d.tcb.state # "Listen"
    BY <1>1, <1>4 DEF ClientOK
  <2>2. c \in Client /\ c.input # << >> /\ d.input = Tail(c.input) /\ d.session = c.session
    BY <1>2, <1>4
  <2>3. QED
    BY ONLY <2>1, <2>2, TakenInStep
<1>6. given(d) = text
  BY <1>5, GivenTexts
<1>7. c.dropped = FALSE
  BY <1>2 DEF ClientOK, Client
<1>8. ClientOK(segs, d)
  <2>1. Speaks(Answerable(segs), given(d), d.tcb)
    BY <1>1, <1>4, <1>6
  <2>2. d.read <= Len(d.tcb.byte_output)
    <3>1. \A x, y, z \in Nat : x <= y /\ y <= z => x <= z
      BY ONLY SMT
    <3>2. QED
      BY <1>1, <1>2, <1>3, <1>4, <3>1
  <2>3. Greeting(d.tcb) => d.session = "Contents"
    BY <1>1, <1>4 DEF ClientOK
  <2>4. d.dropped => ~ Running(d)
    BY <1>4, <1>7
  <2>5. QED
    BY <1>4, <1>5, <2>1, <2>2, <2>3, <2>4 DEF ClientOK
<1>9. QED
  BY <1>1, <1>4, <1>5, <1>8


LEMMA ClientPlace ==
    ASSUME NEW segs, NEW c, ClientOK(segs, c)
    PROVE  /\ c \in Client /\ WellTyped(c.tcb) /\ c.tcb \in TCB
           /\ c.read \in Nat /\ Len(c.tcb.byte_output) \in Nat
           /\ c.read <= Len(c.tcb.byte_output)
           /\ InputInStep(segs, c)
           /\ c.dropped \in BOOLEAN /\ c.got \in Seq(Seq(Byte)) /\ c.run \in Nat
BY TcbHasReceived DEF ClientOK, Client, Speaks, WellTyped

\* a TCB that has ended says no more, whatever it has been given
LEMMA EndedSpeaks ==
    ASSUME NEW numbers, NEW text, NEW other, NEW t, Speaks(numbers, text, t),
           t.state \in {"Closed", "Panicked"}
    PROVE  Speaks(numbers, other, t)
BY DEF Speaks, Greeting

(* What has come says that the TCB is past the handshake, and the session  *)
(* puts one more input into the channel, if the TCB is there.              *)
LEMMA AskOK ==
    ASSUME NEW segs, NEW c, ClientOK(segs, c), complete(c),
           c.session \in {"Contents", "Echo"},
           NEW in \in {Send(client_text), Close},
           in = Send(client_text) <=> c.session = "Contents",
           NEW next \in {"Echo", "Joining", "Died"},
           NEW d, d = ask(c, in, next)
    PROVE  /\ ClientOK(segs, d) /\ ~ Greeting(d.tcb)
<1> DEFINE place == c.read + Head(unread(c)) + 1
           s == recv_str(c)
           e == enqueue(c, in)
<1>1. /\ c \in Client /\ WellTyped(c.tcb) /\ c.read \in Nat /\ Len(c.tcb.byte_output) \in Nat
      /\ c.read <= Len(c.tcb.byte_output) /\ InputInStep(segs, c)
      /\ c.dropped \in BOOLEAN /\ c.got \in Seq(Seq(Byte))
  BY ClientPlace
<1>2. s \in Seq(Byte) /\ place \in Nat /\ place <= Len(c.tcb.byte_output)
  BY <1>1, ReadType
<1>3. ~ Greeting(c.tcb)
  <2>1. Greeting(c.tcb) => c.tcb.byte_output = << >>
    BY DEF ClientOK, Speaks, Fresh
  <2>2. c.tcb.byte_output = << >> => unread(c) = << >>
    <3>1. ASSUME c.tcb.byte_output = << >> PROVE unread(c) = << >>
      <4> DEFINE out == c.tcb.byte_output
                 r == unread(c)
      <4>1. out \in Seq(Byte) /\ Len(out) = 0
        BY <1>1, <3>1 DEF WellTyped, TCB
      <4>2. c.read = 0 /\ 0 \in 0 .. Len(out)
        BY <1>1, <4>1
      <4>3. r = Dropped(out, 0)
        BY <4>2 DEF unread
      <4> HIDE DEF out, r
      <4>4. Dropped(out, 0) \in Seq(Byte) /\ Len(Dropped(out, 0)) = Len(out) - 0
        BY <4>1, <4>2, DrainProperties
      <4>5. r \in Seq(Byte) /\ Len(r) = 0
        BY <4>1, <4>3, <4>4
      <4>6. r = << >>
        BY <4>5, EmptySeq
      <4>7. QED
        BY <4>6 DEF r
    <3>2. QED
      BY <3>1
  <2>3. QED
    BY <2>1, <2>2 DEF complete
<1>4. /\ in \in ClientInput /\ in # SendSyn /\ in.kind \in {"Send", "Close"}
      /\ in.kind = "Send" <=> c.session = "Contents"
  BY DEF ClientInput, SendSyn, Close, Send
<1> HIDE DEF place, s
<1>5. Append(c.input, in) \in Seq(ClientInput) /\ Append(c.got, s) \in Seq(Seq(Byte))
  <2>1. Append(c.got, s) \in Seq(Seq(Byte))
    BY <1>1, <1>2, AppendProperties
  <2>2. QED
    BY <1>1, <1>4, <2>1, InputElements
<1>6. d = [e EXCEPT !.session = next, !.got = Append(@, s), !.read = @ + Head(unread(c)) + 1]
  BY DEF ask, s
<1>7. /\ e \in Client /\ e.tcb = c.tcb /\ e.dropped = c.dropped /\ e.got = c.got /\ e.read = c.read
      /\ e.input = IF c.dropped THEN c.input ELSE Append(c.input, in)
  BY <1>1, <1>5 DEF Client, enqueue
<1> HIDE DEF e
<1>8. /\ d \in Client /\ d.tcb = c.tcb /\ d.dropped = c.dropped /\ d.read = place
      /\ d.session = next /\ d.input = e.input
  <2>1. next \in {"Contents", "Echo", "Joining", "Done", "Died"}
    OBVIOUS
  <2> DEFINE g == Append(e.got, s)
             r == e.read + Head(unread(c)) + 1
  <2>2. r = place /\ g \in Seq(Seq(Byte))
    BY <1>5, <1>7 DEF place
  <2>3. d = [e EXCEPT !.session = next, !.got = g, !.read = r]
    BY <1>6
  <2>4. r \in Nat
    BY <1>2, <2>2
  <2> HIDE DEF g, r
  <2>5. d \in Client
    BY ONLY <1>7, <2>1, <2>2, <2>3, <2>4 DEF Client
  <2>6. /\ d.tcb = e.tcb /\ d.dropped = e.dropped /\ d.read = r
        /\ d.session = next /\ d.input = e.input
    BY ONLY <1>7, <2>3 DEF Client
  <2>7. QED
    BY <1>7, <2>2, <2>5, <2>6
<1>9. c.session = "Contents" => \A k \in 1 .. Len(c.input) : c.input[k].kind # "Send"
  BY <1>1 DEF InputInStep
<1>10. CASE c.dropped
  <2>1. InputInStep(segs, d)
    <3>1. \A k \in 1 .. Len(c.input) : c.input[k].kind \in {"Send", "Close"} => d.session # "Contents"
      BY <1>8
    <3>2. d.input = c.input
      BY <1>7, <1>8, <1>10
    <3>3. QED
      BY <1>1, <1>8, <3>1, <3>2 DEF InputInStep
  <2>2. c.tcb.state \in {"Closed", "Panicked"}
    BY <1>10 DEF ClientOK, Running
  <2>3. Speaks(Answerable(segs), given(d), d.tcb)
    BY <1>8, <2>2, EndedSpeaks DEF ClientOK
  <2>4. d.dropped => ~ Running(d)
    BY <1>8, <2>2 DEF Running
  <2>5. QED
    BY <1>2, <1>3, <1>8, <2>1, <2>3, <2>4 DEF ClientOK
<1>11. CASE ~ c.dropped
  <2>1. d.input = Append(c.input, in)
    BY <1>7, <1>8, <1>11
  <2>2. /\ InputInStep(segs, d)
        /\ Untold(d) <=> \/ d.session = "Contents" \/ in.kind = "Send"
                         \/ \E k \in 1 .. Len(c.input) : c.input[k].kind = "Send"
    <3>1. /\ in.kind = "Receive" => in.seg \in segs
          /\ in.kind = "Send" => \A k \in 1 .. Len(c.input) : c.input[k].kind # "Send"
          /\ d.session = "Contents" => c.session = "Contents" /\ in.kind \notin {"Send", "Close"}
          /\ d.tcb.state = c.tcb.state
      BY <1>4, <1>8, <1>9
    <3>2. c \in Client /\ InputInStep(segs, c) /\ in # SendSyn
      BY <1>1, <1>4
    <3>3. QED
      BY ONLY <2>1, <3>1, <3>2, EnqueuedInStep
  <2>3. Untold(d) <=> Untold(c)
    BY <1>4, <1>8, <2>2 DEF Untold
  <2>4. given(d) = given(c)
    BY <2>3 DEF given
  <2>5. Speaks(Answerable(segs), given(d), d.tcb)
    BY <1>8, <2>4 DEF ClientOK
  <2>6. QED
    BY <1>2, <1>3, <1>8, <1>11, <2>2, <2>5 DEF ClientOK
<1>12. QED
  BY <1>3, <1>8, <1>10, <1>11

(* A step of the client that leaves the channel and the session alone.     *)
LEMMA SameInputOK ==
    ASSUME NEW segs, NEW c, ClientOK(segs, c), NEW d \in Client,
           d.input = c.input, d.session = c.session, d.read = c.read,
           d.tcb.state = c.tcb.state, d.tcb.byte_output = c.tcb.byte_output,
           Speaks(Answerable(segs), given(c), d.tcb), d.dropped => ~ Running(c)
    PROVE  /\ ClientOK(segs, d) /\ (Greeting(d.tcb) <=> Greeting(c.tcb))
           /\ QuietInput(d) <=> QuietInput(c)
<1>1. Greeting(d.tcb) <=> Greeting(c.tcb)
  BY DEF Greeting
<1>2. Running(d) <=> Running(c)
  BY DEF Running
<1>3. given(d) = given(c)
  BY DEF given, Untold
<1>4. InputInStep(segs, d)
  BY DEF ClientOK, InputInStep
<1>5. QuietInput(d) <=> QuietInput(c)
  BY DEF QuietInput
<1>6. QED
  BY <1>1, <1>2, <1>3, <1>4, <1>5 DEF ClientOK

LEMMA ClientResendOK ==
    ASSUME NEW segs, NEW c, ClientOK(segs, c),
           NEW d, d = [c EXCEPT !.tcb = handle_resend(@)]
    PROVE  /\ ClientOK(segs, d) /\ (Greeting(d.tcb) <=> Greeting(c.tcb))
           /\ QuietInput(d) <=> QuietInput(c)
<1> DEFINE t == handle_resend(c.tcb)
<1>1. WellTyped(c.tcb) /\ c \in Client /\ Speaks(Answerable(segs), given(c), c.tcb)
  BY ClientPlace DEF ClientOK
<1>2. Speaks(Answerable(segs), given(c), t)
  BY <1>1, ResendSpeaks
<1>3. t.state = c.tcb.state /\ t.byte_output = c.tcb.byte_output
  BY <1>1, ResendSends DEF SameReceiver
<1>4. t \in TCB
  BY <1>2 DEF Speaks, WellTyped
<1> HIDE DEF t
<1>5. /\ d \in Client /\ d.tcb = t /\ d.input = c.input /\ d.session = c.session
      /\ d.read = c.read /\ d.dropped = c.dropped
  BY <1>1, <1>4 DEF Client, t
<1>6. c.dropped => ~ Running(c)
  BY DEF ClientOK
<1>7. ClientOK(segs, c)
  OBVIOUS
<1>8. QED
  BY ONLY <1>2, <1>3, <1>5, <1>6, <1>7, SameInputOK

LEMMA ClientDropOK ==
    ASSUME NEW segs, NEW c, ClientOK(segs, c), ~ Running(c),
           NEW d, d = [c EXCEPT !.dropped = TRUE]
    PROVE  /\ ClientOK(segs, d) /\ (Greeting(d.tcb) <=> Greeting(c.tcb))
           /\ QuietInput(d) <=> QuietInput(c)
<1>1. c \in Client /\ Speaks(Answerable(segs), given(c), c.tcb)
  BY DEF ClientOK
<1>2. /\ d \in Client /\ d.tcb = c.tcb /\ d.input = c.input /\ d.session = c.session
      /\ d.read = c.read
  BY <1>1 DEF Client
<1>3. QED
  BY <1>1, <1>2, SameInputOK

\* a datagram leaves for the server
LEMMA ClientSocketOK ==
    ASSUME NEW segs, NEW c, ClientOK(segs, c),
           NEW t, WellTyped(t), t.state = c.tcb.state, SameSender(c.tcb, t),
           SameReceiver(c.tcb, t), t.socket \subseteq c.tcb.socket,
           NEW d, d = [c EXCEPT !.tcb = t]
    PROVE  /\ ClientOK(segs, d) /\ (Greeting(d.tcb) <=> Greeting(c.tcb))
           /\ QuietInput(d) <=> QuietInput(c)
<1>1. /\ WellTyped(c.tcb) /\ c \in Client /\ c.tcb \in TCB
      /\ Speaks(Answerable(segs), given(c), c.tcb)
  BY ClientPlace DEF ClientOK
<1>2. /\ t \in TCB /\ WellTyped(t) /\ t.state = c.tcb.state /\ SameSender(c.tcb, t)
      /\ SameReceiver(c.tcb, t) /\ t.socket \subseteq c.tcb.socket
  BY DEF WellTyped
<1>3. d = [c EXCEPT !.tcb = t]
  OBVIOUS
<1>4. Speaks(Answerable(segs), given(c), t)
  <2>1. Fresh(c.tcb) => Fresh(t)
    BY <1>2 DEF Fresh, SameSender, SameReceiver
  <2>2. SendsText(given(c), c.tcb) => SendsText(given(c), t)
    BY <1>2 DEF SendsText, SameSender
  <2>3. EndsAt(Answerable(segs), c.tcb) => EndsAt(Answerable(segs), t)
    BY <1>2 DEF EndsAt, SameReceiver
  <2>4. Within(ClientSent(Answerable(segs)), ClientQueued, t)
    BY <1>1, <1>2 DEF Speaks, Within, Queued, SameSender
  <2>5. QED
    BY <1>1, <1>2, <2>1, <2>2, <2>3, <2>4 DEF Speaks, Greeting
<1>5. /\ d \in Client /\ d.tcb = t /\ d.input = c.input /\ d.session = c.session
      /\ d.read = c.read /\ d.dropped = c.dropped
  BY <1>1, <1>2, <1>3 DEF Client
<1>6. ClientOK(segs, c) /\ (c.dropped => ~ Running(c))
  BY DEF ClientOK
<1>7. t.state = c.tcb.state /\ t.byte_output = c.tcb.byte_output
  BY <1>2 DEF SameReceiver
<1>8. QED
  BY ONLY <1>4, <1>5, <1>6, <1>7, SameInputOK

\* the TCB has ended, and so does the program
LEMMA DieOK ==
    ASSUME NEW segs, NEW c, ClientOK(segs, c), c.dropped,
           NEW d, d = [c EXCEPT !.session = "Died"]
    PROVE  ClientOK(segs, d) /\ ~ Greeting(d.tcb)
<1>1. c \in Client /\ c.tcb.state \in {"Closed", "Panicked"} /\ ~ Greeting(c.tcb)
  BY DEF ClientOK, Running, Greeting
<1>2. /\ d \in Client /\ d.tcb = c.tcb /\ d.input = c.input /\ d.session = "Died"
      /\ d.read = c.read /\ d.dropped = c.dropped
  BY <1>1 DEF Client
<1>3. Speaks(Answerable(segs), given(d), d.tcb)
  BY <1>1, <1>2, EndedSpeaks DEF ClientOK
<1>4. InputInStep(segs, d)
  BY <1>2 DEF ClientOK, InputInStep
<1>5. QED
  BY <1>1, <1>2, <1>3, <1>4 DEF ClientOK, Running

LEMMA JoinOK ==
    ASSUME NEW segs, NEW c, ClientOK(segs, c), c.session = "Joining",
           NEW d, d = [c EXCEPT !.session = "Done"]
    PROVE  ClientOK(segs, d) /\ ~ Greeting(d.tcb)
<1>1. c \in Client /\ ~ Greeting(c.tcb)
  BY DEF ClientOK
<1>2. /\ d \in Client /\ d.tcb = c.tcb /\ d.input = c.input /\ d.session = "Done"
      /\ d.read = c.read /\ d.dropped = c.dropped
  BY <1>1 DEF Client
<1>3. given(d) = given(c)
  BY <1>2 DEF given, Untold
<1>4. InputInStep(segs, d)
  BY <1>2 DEF ClientOK, InputInStep
<1>5. QED
  BY <1>1, <1>2, <1>3, <1>4 DEF ClientOK, Running

\* the socket loop puts a datagram of the server into the channel
LEMMA ClientReceivesOK ==
    ASSUME NEW segs, NEW c, ClientOK(segs, c), NEW seg \in segs, seg \in Segment,
           NEW d, d = enqueue(c, Receive(seg))
    PROVE  /\ ClientOK(segs, d) /\ (Greeting(d.tcb) <=> Greeting(c.tcb))
           /\ QuietInput(c) /\ NoOtherAck({seg}) => QuietInput(d)
<1> DEFINE in == Receive(seg)
           q == Append(c.input, in)
<1>1. c \in Client
  BY DEF ClientOK
<1>2. /\ in.kind = "Receive" /\ in.seg = seg /\ in # SendSyn /\ in \in ClientInput
      /\ in.kind \notin {"Send", "Close"}
  BY DEF ClientInput, Receive, SendSyn
<1> HIDE DEF in
<1>3. CASE c.dropped
  BY <1>3 DEF enqueue, QuietInput
<1>4. CASE ~ c.dropped
  <2>1. d = [c EXCEPT !.input = q] /\ q \in Seq(ClientInput)
    BY <1>1, <1>2, <1>4, InputElements DEF enqueue, in
  <2> HIDE DEF q
  <2>2. /\ d \in Client /\ d.tcb = c.tcb /\ d.input = q /\ d.session = c.session
        /\ d.read = c.read /\ d.dropped = c.dropped
    BY <1>1, <2>1 DEF Client
  <2>3. /\ InputInStep(segs, d)
        /\ QuietInput(c) /\ (in.kind = "Receive" => NoOtherAck({in.seg})) => QuietInput(d)
        /\ Untold(d) <=> \/ d.session = "Contents" \/ in.kind = "Send"
                         \/ \E k \in 1 .. Len(c.input) : c.input[k].kind = "Send"
    <3>1. /\ InputInStep(segs, c) /\ d.input = Append(c.input, in)
          /\ d.tcb.state = c.tcb.state /\ c \in Client /\ in # SendSyn
          /\ in.kind = "Receive" => in.seg \in segs
          /\ in.kind = "Send" => \A k \in 1 .. Len(c.input) : c.input[k].kind # "Send"
          /\ d.session = "Contents" => c.session = "Contents" /\ in.kind \notin {"Send", "Close"}
      BY <1>1, <1>2, <2>2 DEF ClientOK, q
    <3>2. QED
      BY ONLY <3>1, EnqueuedInStep
  <2>4. given(d) = given(c)
    BY <1>2, <2>2, <2>3 DEF given, Untold
  <2>5. ClientOK(segs, d)
    BY <1>4, <2>2, <2>3, <2>4 DEF ClientOK
  <2>6. QED
    BY <1>2, <2>2, <2>3, <2>5
<1>5. QED
  BY <1>3, <1>4

LEMMA NewClientOK ==
    ASSUME NEW segs, NEW n \in Nat, NEW contents \in Seq(Byte), NEW before \in SUBSET Nat
    PROVE  /\ ClientOK(segs, NewClient(n, contents, before))
           /\ QuietInput(NewClient(n, contents, before))
<1> DEFINE t == new(1)
           c == NewClient(n, contents, before)
<1>1. WellTyped(t) /\ t \in TCB
  BY NewType, StoryNumbers DEF WellTyped
<1>2. << >> \in Seq(Seq(Byte)) /\ << SendSyn >> \in Seq(ClientInput) /\ Len(<< >>) = 0
  BY EmptySeq DEF ClientInput
<1>3. Fresh(t) /\ Greeting(t) /\ t.state = "Listen" /\ t.byte_output = << >>
  BY <1>2 DEF Fresh, Greeting, new
<1>4. Within(ClientSent(Answerable(segs)), ClientQueued, t)
  BY <1>2 DEF Within, Queued, new
<1> HIDE DEF t
<1>5. /\ c.tcb = t /\ c.input = << SendSyn >> /\ c.session = "Contents" /\ c.read = 0
      /\ c.dropped = FALSE /\ c \in Client
  <2> DEFINE in == SendSyn
  <2> HIDE DEF in
  <2>1. c = [tcb |-> t, input |-> << in >>, dropped |-> FALSE, read |-> 0,
             session |-> "Contents", got |-> << >>, run |-> n, initial |-> contents,
             refused |-> before]
    BY DEF NewClient, t, in
  <2>2. << in >> \in Seq(ClientInput)
    BY <1>2 DEF in
  <2>3. QED
    BY <1>1, <1>2, <2>1, <2>2 DEF Client, in
<1> HIDE DEF c
<1>6. given(c) = << >>
  BY <1>5 DEF given, Untold
<1>7. \A k \in 1 .. Len(c.input) : k = 1 /\ c.input[k] = SendSyn
  BY <1>5
<1>8. 1 \in 1 .. Len(c.input)
  BY <1>5
<1>9. InputInStep(segs, c) /\ QuietInput(c)
  BY <1>3, <1>5, <1>7, <1>8 DEF InputInStep, QuietInput, SendSyn
<1>10. Speaks(Answerable(segs), given(c), t)
  BY <1>1, <1>3, <1>4, <1>6 DEF Speaks
<1>11. ClientOK(segs, c)
  BY <1>2, <1>3, <1>5, <1>9, <1>10 DEF ClientOK
<1>12. QED
  BY <1>9, <1>11 DEF c

-----------------------------------------------------------------------------
(* One peer: its connections, its client, and what is in flight to it.     *)

Sockets(cs) == UNION {cs[i].tcb.socket : i \in DOMAIN cs}

QuietServer(cs, dn) ==
    /\ NoOtherAck(dn)
    /\ \A i \in DOMAIN cs : Running(cs[i]) => GivenOnly(cs[i], {Syn})

PeerOK(cs, c, dn) ==
    /\ ClientOK(Sockets(cs), c)
    /\ \A i \in DOMAIN cs : ServerSide(cs[i].tcb)
    /\ dn \subseteq Sockets(cs)
    /\ Greeting(c.tcb) => QuietServer(cs, dn) /\ QuietInput(c)

PeersOK == ClientsTyped /\ \A p \in Peer : PeerOK(conns[p], client[p], down[p])

LEMMA ClientInvariantByPeer == ClientInvariant <=> PeersOK
<1>1. ASSUME NEW p \in Peer
      PROVE  /\ OfServer(p) = Sockets(conns[p])
             /\ Quiet(p) <=> QuietServer(conns[p], down[p]) /\ QuietInput(client[p])
  BY Zenon DEF OfServer, Sockets, Quiet, QuietServer, QuietInput
<1>2. ASSUME ClientsTyped, NEW p \in Peer
      PROVE  ClientOK(Sockets(conns[p]), client[p]) <=> ClientInStep(Sockets(conns[p]), client[p])
  <2>1. client[p] \in Client
    BY <1>2 DEF ClientsTyped
  <2>2. QED
    BY <2>1, ClientOKInStep
<1>3. ASSUME ClientsTyped, NEW p \in Peer
      PROVE  PeerOK(conns[p], client[p], down[p]) <=>
               /\ ClientInStep(OfServer(p), client[p])
               /\ \A i \in DOMAIN conns[p] : ServerSide(conns[p][i].tcb)
               /\ down[p] \subseteq OfServer(p)
               /\ Greeting(client[p].tcb) => Quiet(p)
  <2>1. PeerOK(conns[p], client[p], down[p]) <=>
               /\ ClientInStep(Sockets(conns[p]), client[p])
               /\ \A i \in DOMAIN conns[p] : ServerSide(conns[p][i].tcb)
               /\ down[p] \subseteq Sockets(conns[p])
               /\ Greeting(client[p].tcb) =>
                    QuietServer(conns[p], down[p]) /\ QuietInput(client[p])
    BY <1>2, <1>3 DEF PeerOK
  <2>2. QED
    BY <1>1, <2>1
<1>4. QED
  BY <1>3 DEF ClientInvariant, PeersOK

\* the types of a peer's connections
LEMMA PeerConns ==
    ASSUME TypeOK, NEW p \in Peer
    PROVE  /\ conns \in [Peer -> Seq(Conn)] /\ files[p] \in Seq(Byte)
           /\ conns[p] \in Seq(Conn) /\ Len(conns[p]) \in Nat
           /\ DOMAIN conns[p] = 1 .. Len(conns[p])
           /\ \A i \in DOMAIN conns[p] : ConnOK(conns[p][i])
BY TypeOKByConn, LenProperties DEF ConnsOK

LEMMA PeerTells ==
    ASSUME NEW cs, \A i \in DOMAIN cs : ConnOK(cs[i]) /\ ServerSide(cs[i].tcb)
    PROVE  ServerTells(Sockets(cs))
<1> SUFFICES ASSUME NEW i \in DOMAIN cs, NEW seg \in cs[i].tcb.socket
             PROVE  /\ seg \in Segment
                    /\ "SYN" \in seg.flags => seg.ack_num = 2 /\ seg.payload = << >>
  BY DEF ServerTells, Sockets
<1>1. cs[i].tcb.socket \subseteq Segment
  BY DEF ConnOK, WellTyped, TCB
<1>2. QED
  BY <1>1 DEF ServerSide

(* A step changes what belongs to one peer.                                *)
LEMMA PeerStep ==
    ASSUME ClientInvariant, NEW p \in Peer,
           client' \in [Peer -> Client], down' \in [Peer -> SUBSET Segment],
           \A q \in Peer : q # p =>
             conns'[q] = conns[q] /\ client'[q] = client[q] /\ down'[q] = down[q],
           PeerOK(conns'[p], client'[p], down'[p])
    PROVE  ClientInvariant'
<1>1. ClientsTyped /\ \A q \in Peer : PeerOK(conns[q], client[q], down[q])
  BY ClientInvariantByPeer DEF PeersOK
<1>2. ASSUME NEW q \in Peer PROVE PeerOK(conns'[q], client'[q], down'[q])
  <2>1. CASE q = p
    BY <2>1
  <2>2. CASE q # p
    BY <1>1, <2>2
  <2>3. QED
    BY <2>1, <2>2
<1>3. ClientsTyped'
  BY DEF ClientsTyped
<1>4. PeersOK'
  BY <1>2, <1>3 DEF PeersOK
<1>5. QED
  BY <1>4, ClientInvariantByPeer, PTL

LEMMA ClientStep ==
    ASSUME TypeOK, ClientInvariant, NEW p \in Peer, NEW d, NEW e \in SUBSET down[p],
           UNCHANGED vars, client' = [client EXCEPT ![p] = d], down' = [down EXCEPT ![p] = e],
           ClientOK(Sockets(conns[p]), d),
           Greeting(d.tcb) => QuietServer(conns[p], e) /\ QuietInput(d)
    PROVE  ClientInvariant'
<1>1. ClientsTyped /\ PeerOK(conns[p], client[p], down[p])
  BY ClientInvariantByPeer DEF PeersOK
<1>2. conns' = conns /\ d \in Client /\ e \in SUBSET Segment
  BY <1>1 DEF vars, ClientOK, ClientsTyped
<1>3. PeerOK(conns[p], d, e)
  BY <1>1 DEF PeerOK
<1>4. /\ client' \in [Peer -> Client] /\ down' \in [Peer -> SUBSET Segment]
      /\ client'[p] = d /\ down'[p] = e
      /\ \A q \in Peer : q # p =>
           conns'[q] = conns[q] /\ client'[q] = client[q] /\ down'[q] = down[q]
  BY <1>1, <1>2 DEF ClientsTyped
<1>5. PeerOK(conns'[p], client'[p], down'[p])
  BY <1>2, <1>3, <1>4
<1>6. QED
  BY <1>4, <1>5, PeerStep

LEMMA ServerStep ==
    ASSUME TypeOK, ClientInvariant, NEW p \in Peer, NEW s, NEW d \in Client,
           NEW e \in SUBSET Segment,
           conns' = [conns EXCEPT ![p] = s], client' = [client EXCEPT ![p] = d],
           down' = [down EXCEPT ![p] = e], PeerOK(s, d, e)
    PROVE  ClientInvariant'
<1>1. ClientsTyped /\ conns \in [Peer -> Seq(Conn)]
  BY ClientInvariantByPeer, PeerConns DEF PeersOK
<1>2. /\ client' \in [Peer -> Client] /\ down' \in [Peer -> SUBSET Segment]
      /\ conns'[p] = s /\ client'[p] = d /\ down'[p] = e
      /\ \A q \in Peer : q # p =>
           conns'[q] = conns[q] /\ client'[q] = client[q] /\ down'[q] = down[q]
  BY <1>1 DEF ClientsTyped
<1>3. PeerOK(conns'[p], client'[p], down'[p])
  BY <1>2
<1>4. QED
  BY <1>2, <1>3, PeerStep

-----------------------------------------------------------------------------
(* The steps of the clients.                                               *)

LEMMA PeerProperties ==
    ASSUME TypeOK, ClientInvariant, NEW p \in Peer
    PROVE  /\ ClientOK(Sockets(conns[p]), client[p]) /\ client[p] \in Client
           /\ down[p] \subseteq Sockets(conns[p])
           /\ ServerTells(Sockets(conns[p]))
           /\ \A i \in DOMAIN conns[p] : ServerSide(conns[p][i].tcb)
           /\ Greeting(client[p].tcb) =>
                QuietServer(conns[p], down[p]) /\ QuietInput(client[p])
           /\ client \in [Peer -> Client] /\ down \in [Peer -> SUBSET Segment]
           /\ down = [down EXCEPT ![p] = down[p]]
<1>1. ClientsTyped /\ PeerOK(conns[p], client[p], down[p])
  BY ClientInvariantByPeer DEF PeersOK
<1>2. ServerTells(Sockets(conns[p]))
  BY <1>1, PeerConns, PeerTells DEF PeerOK
<1>3. down = [down EXCEPT ![p] = down[p]]
  BY <1>1 DEF ClientsTyped
<1>4. QED
  BY <1>1, <1>2, <1>3 DEF PeerOK, ClientsTyped

LEMMA ClientThreadStep ==
    ASSUME TypeOK, ClientInvariant, NEW p \in Peer,
           ClientHandles(p) \/ ClientTimeout(p) \/ ClientDrop(p)
    PROVE  ClientInvariant'
<1> DEFINE segs == Sockets(conns[p])
           c == client[p]
<1>1. /\ ClientOK(segs, c) /\ ServerTells(segs)
      /\ Greeting(c.tcb) => QuietServer(conns[p], down[p]) /\ QuietInput(c)
      /\ down = [down EXCEPT ![p] = down[p]] /\ client \in [Peer -> Client]
  BY PeerProperties
<1>2. UNCHANGED vars /\ UNCHANGED down
  BY DEF ClientHandles, ClientTimeout, ClientDrop
<1>3. CASE ClientHandles(p)
  <2> DEFINE d == [c EXCEPT !.tcb = client_handled(c, Head(c.input)), !.input = Tail(@)]
  <2>1. Running(c) /\ c.input # << >>
    BY <1>3 DEF ClientHandles
  <2>2. client' = [client EXCEPT ![p] = d]
    BY <1>1, <1>3 DEF ClientHandles
  <2>3. ClientOK(segs, d) /\ (Greeting(d.tcb) => Greeting(c.tcb)) /\ (QuietInput(c) => QuietInput(d))
    <3> HIDE DEF c
    <3>1. QED
      BY <1>1, <2>1, ClientHandlesOK
  <2> HIDE DEF d
  <2>4. QED
    BY <1>1, <1>2, <2>2, <2>3, ClientStep
<1>4. CASE ClientTimeout(p)
  <2> DEFINE d == [c EXCEPT !.tcb = handle_resend(@)]
  <2>1. client' = [client EXCEPT ![p] = d]
    BY <1>1, <1>4 DEF ClientTimeout
  <2>2. ClientOK(segs, d) /\ (Greeting(d.tcb) <=> Greeting(c.tcb)) /\ (QuietInput(d) <=> QuietInput(c))
    <3> HIDE DEF c
    <3>1. QED
      BY <1>1, ClientResendOK
  <2> HIDE DEF d
  <2>3. QED
    BY <1>1, <1>2, <2>1, <2>2, ClientStep
<1>5. CASE ClientDrop(p)
  <2> DEFINE d == [c EXCEPT !.dropped = TRUE]
  <2>1. client' = [client EXCEPT ![p] = d] /\ ~ Running(c)
    BY <1>1, <1>5 DEF ClientDrop
  <2>2. ClientOK(segs, d) /\ (Greeting(d.tcb) <=> Greeting(c.tcb)) /\ (QuietInput(d) <=> QuietInput(c))
    <3> HIDE DEF c
    <3>1. QED
      BY <1>1, <2>1, ClientDropOK
  <2> HIDE DEF d
  <2>3. QED
    BY <1>1, <1>2, <2>1, <2>2, ClientStep
<1>6. QED
  BY <1>3, <1>4, <1>5

LEMMA ClientMainStep ==
    ASSUME TypeOK, ClientInvariant, NEW p \in Peer, ClientMain(p)
    PROVE  ClientInvariant'
<1> DEFINE segs == Sockets(conns[p])
           c == client[p]
<1>1. /\ ClientOK(segs, c) /\ client \in [Peer -> Client]
      /\ down = [down EXCEPT ![p] = down[p]]
  BY PeerProperties
<1>2. UNCHANGED vars /\ UNCHANGED down
  BY DEF ClientMain, ReadContents, ReadEcho, Die, Join
<1>3. ASSUME NEW d, client' = [client EXCEPT ![p] = d], ClientOK(segs, d), ~ Greeting(d.tcb)
      PROVE  ClientInvariant'
  BY <1>1, <1>2, <1>3, ClientStep
<1>4. CASE ReadContents(p)
  <2> DEFINE next == IF c.dropped THEN "Died" ELSE "Echo"
             in == Send(client_text)
             d == ask(c, in, next)
  <2>1. c.session = "Contents" /\ complete(c) /\ client' = [client EXCEPT ![p] = d]
    BY <1>1, <1>4 DEF ReadContents, story_sent, client_text
  <2>2. next \in {"Echo", "Joining", "Died"} /\ c.session \in {"Contents", "Echo"}
    BY <2>1
  <2> HIDE DEF next, c
  <2>3. ClientOK(segs, d) /\ ~ Greeting(d.tcb)
    BY <1>1, <2>1, <2>2, AskOK
  <2> HIDE DEF d
  <2>4. QED
    BY <1>3, <2>1, <2>3
<1>5. CASE ReadEcho(p)
  <2> DEFINE d == ask(c, Close, "Joining")
  <2>1. c.session = "Echo" /\ complete(c) /\ client' = [client EXCEPT ![p] = d]
    BY <1>1, <1>5 DEF ReadEcho, closed
  <2>2. Close # Send(client_text) /\ c.session # "Contents" /\ c.session \in {"Contents", "Echo"}
    BY <2>1 DEF Close, Send
  <2> HIDE DEF c
  <2>3. ClientOK(segs, d) /\ ~ Greeting(d.tcb)
    BY <1>1, <2>1, <2>2, AskOK
  <2> HIDE DEF d
  <2>4. QED
    BY <1>3, <2>1, <2>3
<1>6. CASE Die(p)
  <2> DEFINE d == [c EXCEPT !.session = "Died"]
  <2>1. c.dropped /\ client' = [client EXCEPT ![p] = d]
    BY <1>1, <1>6 DEF Die, hung_up
  <2> HIDE DEF c
  <2>2. ClientOK(segs, d) /\ ~ Greeting(d.tcb)
    BY <1>1, <2>1, DieOK
  <2> HIDE DEF d
  <2>3. QED
    BY <1>3, <2>1, <2>2
<1>7. CASE Join(p)
  <2> DEFINE d == [c EXCEPT !.session = "Done"]
  <2>1. c.session = "Joining" /\ client' = [client EXCEPT ![p] = d]
    BY <1>1, <1>7 DEF Join
  <2> HIDE DEF c
  <2>2. ClientOK(segs, d) /\ ~ Greeting(d.tcb)
    BY <1>1, <2>1, JoinOK
  <2> HIDE DEF d
  <2>3. QED
    BY <1>3, <2>1, <2>2
<1>8. QED
  BY <1>4, <1>5, <1>6, <1>7 DEF ClientMain

(* A new client finds nothing on its way, and no connection of the server  *)
(* with an input: what an earlier client has left behind is quiet.         *)
LEMMA StartStep ==
    ASSUME TypeOK, ClientInvariant, NEW p \in Peer, Start(p)
    PROVE  ClientInvariant'
<1> DEFINE n == client[p].run + 1
           d == NewClient(n, files[p], Refused(p))
<1>1. /\ client \in [Peer -> Client] /\ client[p] \in Client
      /\ down = [down EXCEPT ![p] = down[p]] /\ files[p] \in Seq(Byte)
  BY PeerProperties, PeerConns
<1>2. /\ UNCHANGED vars /\ UNCHANGED down /\ Prompt(p)
      /\ client' = [client EXCEPT ![p] = d]
  BY <1>1 DEF Start
<1>3. n \in Nat
  BY <1>1 DEF Client
<1>0. Refused(p) \in SUBSET Nat
  <2>1. conns[p] \in Seq(Conn)
    BY DEF TypeOK
  <2>2. DOMAIN conns[p] = 1 .. Len(conns[p]) /\ Len(conns[p]) \in Nat
    BY <2>1, LenProperties
  <2>3. QED
    BY <2>2 DEF Refused
<1> HIDE DEF n
<1>4. ClientOK(Sockets(conns[p]), d) /\ QuietInput(d)
  BY <1>0, <1>1, <1>3, NewClientOK
<1> HIDE DEF d
<1>5. QuietServer(conns[p], down[p])
  <2>1. down[p] = {} /\ \A i \in DOMAIN conns[p] : Running(conns[p][i]) => conns[p][i].input = << >>
    BY <1>2 DEF Prompt
  <2>2. Len(<< >>) = 0
    BY EmptySeq
  <2>3. QED
    BY <2>1, <2>2 DEF QuietServer, NoOtherAck, GivenOnly
<1>6. QED
  BY <1>1, <1>2, <1>4, <1>5, ClientStep

LEMMA SocketLoopStep ==
    ASSUME TypeOK, ClientInvariant, NEW p \in Peer, NEW seg \in down[p], socket_loop(p, seg)
    PROVE  ClientInvariant'
<1> DEFINE segs == Sockets(conns[p])
           c == client[p]
           e == down[p] \ {seg}
           d == IF Over(c) THEN c ELSE enqueue(c, Receive(seg))
<1>1. /\ ClientOK(segs, c) /\ ServerTells(segs) /\ down[p] \subseteq segs
      /\ Greeting(c.tcb) => QuietServer(conns[p], down[p]) /\ QuietInput(c)
      /\ client \in [Peer -> Client] /\ down \in [Peer -> SUBSET Segment]
  BY PeerProperties
<1>2. UNCHANGED vars /\ down' = [down EXCEPT ![p] = e] /\ client' = [client EXCEPT ![p] = d]
  BY <1>1 DEF socket_loop
<1>3. seg \in segs /\ seg \in Segment /\ e \in SUBSET down[p]
  BY <1>1
<1> HIDE DEF c, e
<1>4. /\ ClientOK(segs, d) /\ (Greeting(d.tcb) <=> Greeting(c.tcb))
      /\ QuietInput(c) /\ NoOtherAck({seg}) => QuietInput(d)
  BY <1>1, <1>3, ClientReceivesOK
<1> HIDE DEF d
<1>5. QuietServer(conns[p], down[p]) => NoOtherAck({seg}) /\ QuietServer(conns[p], e)
  BY <1>3 DEF QuietServer, NoOtherAck
<1>6. QED
  BY <1>1, <1>2, <1>3, <1>4, <1>5, ClientStep

-----------------------------------------------------------------------------
(* The steps of the server.                                                *)

(* A step rewrites one connection, whose socket only grows.                *)
LEMMA ServerConnStep ==
    ASSUME TypeOK, ClientInvariant, NEW p \in Peer, NEW i \in DOMAIN conns[p],
           NEW b, ConnOK(b), ServerSide(b.tcb), conns[p][i].tcb.socket \subseteq b.tcb.socket,
           NEW d, ClientOK(Sockets(conns[p]), d), NEW e, e \subseteq down[p] \cup b.tcb.socket,
           conns' = [conns EXCEPT ![p][i] = b], client' = [client EXCEPT ![p] = d],
           down' = [down EXCEPT ![p] = e],
           Greeting(d.tcb) => /\ Greeting(client[p].tcb) /\ QuietInput(d) /\ NoOtherAck(e)
                              /\ Running(b) => GivenOnly(b, {Syn})
    PROVE  ClientInvariant'
<1> DEFINE cs == conns[p]
           s == [cs EXCEPT ![i] = b]
<1>1. /\ conns \in [Peer -> Seq(Conn)] /\ cs \in Seq(Conn)
      /\ DOMAIN cs = 1 .. Len(cs) /\ b \in Conn
  BY PeerConns DEF ConnOK
<1>2. /\ down[p] \subseteq Sockets(cs) /\ down \in [Peer -> SUBSET Segment]
      /\ \A j \in DOMAIN cs : ServerSide(cs[j].tcb)
      /\ Greeting(client[p].tcb) => QuietServer(cs, down[p])
  BY PeerProperties
<1>3. conns' = [conns EXCEPT ![p] = s]
  BY <1>1
<1> HIDE DEF cs
<1>4. /\ DOMAIN s = DOMAIN cs
      /\ \A j \in DOMAIN cs : s[j] = IF j = i THEN b ELSE cs[j]
  BY <1>1, ExceptSeq DEF cs
<1> HIDE DEF s
<1>5. i \in DOMAIN cs /\ cs[i].tcb.socket \subseteq b.tcb.socket
  BY DEF cs
<1>6. Sockets(cs) \subseteq Sockets(s) /\ b.tcb.socket \subseteq Sockets(s)
  <2>1. ASSUME NEW j \in DOMAIN cs PROVE cs[j].tcb.socket \subseteq s[j].tcb.socket
    BY <1>4, <1>5
  <2>2. s[i] = b /\ i \in DOMAIN s
    BY <1>4, <1>5
  <2>3. QED
    BY <1>4, <2>1, <2>2 DEF Sockets
<1>7. PeerOK(s, d, e)
  <2>1. ClientOK(Sockets(s), d)
    BY <1>6, ClientOKMore DEF cs
  <2>2. \A j \in DOMAIN s : ServerSide(s[j].tcb)
    BY <1>2, <1>4 DEF cs
  <2>3. e \subseteq Sockets(s)
    BY <1>2, <1>6 DEF cs
  <2>4. Greeting(d.tcb) => QuietServer(s, e)
    BY <1>2, <1>4 DEF QuietServer, cs
  <2>5. QED
    BY <2>1, <2>2, <2>3, <2>4 DEF PeerOK
<1>8. d \in Client /\ e \in SUBSET Segment
  <2>1. b.tcb.socket \subseteq Segment
    BY DEF ConnOK, WellTyped, TCB
  <2>2. QED
    BY <1>2, <2>1 DEF ClientOK
<1>9. QED
  BY <1>3, <1>7, <1>8, ServerStep

LEMMA ServerHandlesStep ==
    ASSUME TypeOK, NEW text, SessionInvariant(text), ClientsTalk(text),
           text = [p \in Peer |-> client_text], ClientInvariant,
           NEW p \in Peer, NEW i \in DOMAIN conns[p], ServerHandles(p, i)
    PROVE  ClientInvariant'
<1> DEFINE a == conns[p][i]
           in == Head(a.input)
           t == handled(a, in)
           u == handled([a EXCEPT !.tcb = unsent(@)], in)
           b == [a EXCEPT !.tcb = t, !.input = Tail(@)]
           d == client[p]
           e == down[p] \cup u.socket
<1>1. /\ ConnOK(a) /\ conns \in [Peer -> Seq(Conn)] /\ ServerSide(a.tcb)
      /\ ClientOK(Sockets(conns[p]), d) /\ client \in [Peer -> Client]
      /\ Greeting(d.tcb) => QuietServer(conns[p], down[p]) /\ QuietInput(d)
  BY PeerConns, PeerProperties
<1>2. /\ SessionInStep(text, p, a) /\ text[p] = client_text
      /\ Received(client_text, a.tcb)
  BY DEF SessionInvariant, SessionInStep
<1>3. /\ Running(a) /\ a.input # << >> /\ conns' = [conns EXCEPT ![p][i] = b]
      /\ client' = [client EXCEPT ![p] = d] /\ down' = [down EXCEPT ![p] = e]
  BY <1>1 DEF ServerHandles, HandleInput
<1>4. a.input \in Seq(TCBInput)
  BY <1>1 DEF ConnOK, Conn
<1> HIDE DEF a
<1>5. /\ Len(a.input) \in Nat /\ 1 <= Len(a.input) /\ in = a.input[1] /\ in \in TCBInput
      /\ Tail(a.input) \in Seq(TCBInput) /\ Len(Tail(a.input)) = Len(a.input) - 1
      /\ \A k \in 1 .. Len(Tail(a.input)) : Tail(a.input)[k] = a.input[k + 1]
  <2>1. Len(a.input) \in Nat /\ Len(a.input) # 0
    BY <1>3, <1>4, EmptySeq, LenProperties
  <2>2. QED
    BY <1>3, <1>4, <2>1, HeadTailProperties
<1>6. 1 \in 1 .. Len(a.input)
  BY <1>5
<1>7. in.kind = "Receive" /\ "SYN" \in in.seg.flags => in.seg.seq_num = 1
  BY <1>2, <1>5, <1>6, TalkProperties DEF SessionInStep, Spoken
<1> HIDE DEF in
<1>8. ServerSide(t) /\ WellTyped(t) /\ a.read <= Len(t.byte_output)
  BY <1>1, <1>2, <1>5, <1>7, HandledServerSide, HandledType DEF Received
<1>9. WellTyped(u) /\ t = Adding(u, a.tcb.socket)
  BY <1>1, <1>5, HandledAdding
<1> HIDE DEF t
<1>10. t.socket = u.socket \cup a.tcb.socket
  <2> HIDE DEF u
  <2>1. QED
    BY <1>9, AddingFields
<1>11. Greeting(d.tcb) => GivenOnly(a, {Syn}) /\ NoOtherAck(down[p])
  BY <1>1, <1>3 DEF QuietServer, a
<1>12. GivenOnly(a, {Syn}) => NoOtherAck(u.socket)
  <2>1. GivenOnly(a, {Syn}) => (in.kind = "Receive" => in.seg = Syn)
    BY <1>5, <1>6 DEF GivenOnly
  <2>2. QED
    BY <1>1, <1>2, <1>5, <2>1, QuietHandled
<1> HIDE DEF u
<1>13. b.tcb = t /\ b.input = Tail(a.input) /\ ConnOK(b)
  BY <1>1, <1>5, <1>8 DEF ConnOK, Conn, WellTyped
<1> HIDE DEF b
<1>14. GivenOnly(a, {Syn}) => GivenOnly(b, {Syn})
  <2>1. \A k \in 1 .. Len(Tail(a.input)) : k + 1 \in 1 .. Len(a.input)
    BY <1>5
  <2>2. QED
    BY <1>5, <1>13, <2>1 DEF GivenOnly
<1>15. Greeting(d.tcb) => /\ Greeting(client[p].tcb) /\ QuietInput(d) /\ NoOtherAck(e)
                          /\ Running(b) => GivenOnly(b, {Syn})
  BY <1>1, <1>11, <1>12, <1>14 DEF NoOtherAck
<1>16. /\ conns[p][i].tcb.socket \subseteq b.tcb.socket /\ e \subseteq down[p] \cup b.tcb.socket
       /\ ServerSide(b.tcb)
  BY <1>8, <1>10, <1>13 DEF a
<1> HIDE DEF d, e
<1>17. QED
  BY <1>1, <1>3, <1>13, <1>15, <1>16, ServerConnStep

LEMMA ServerTimeoutStep ==
    ASSUME TypeOK, ClientInvariant, NEW p \in Peer, NEW i \in DOMAIN conns[p],
           ServerTimeout(p, i)
    PROVE  ClientInvariant'
<1> DEFINE a == conns[p][i]
           t == handle_resend(a.tcb)
           v == unsent(a.tcb)
           u == handle_resend(v)
           b == [a EXCEPT !.tcb = t]
           d == client[p]
           e == down[p] \cup u.socket
<1>1. /\ ConnOK(a) /\ conns \in [Peer -> Seq(Conn)] /\ ServerSide(a.tcb)
      /\ ClientOK(Sockets(conns[p]), d) /\ client \in [Peer -> Client]
      /\ Greeting(d.tcb) => QuietServer(conns[p], down[p]) /\ QuietInput(d)
  BY PeerConns, PeerProperties
<1>2. /\ Running(a) /\ conns' = [conns EXCEPT ![p][i] = b]
      /\ client' = [client EXCEPT ![p] = d] /\ down' = [down EXCEPT ![p] = e]
  BY <1>1 DEF ServerTimeout, Timeout
<1>3. WellTyped(a.tcb)
  BY <1>1 DEF ConnOK
<1> HIDE DEF a
<1>4. /\ WellTyped(v) /\ v.socket = {} /\ a.tcb.socket \in SUBSET Segment
      /\ Adding(v, a.tcb.socket) = a.tcb /\ SameSender(a.tcb, v)
  BY <1>3, UnsentAdding
<1> HIDE DEF v
<1>5. WellTyped(u) /\ t = Adding(u, a.tcb.socket)
  BY <1>4, HandleResendType, HandleResendAdding
<1>6. u.socket \subseteq Queued(a.tcb)
  <2>1. u.socket \subseteq v.socket \cup Queued(v)
    BY <1>4, ResendSends
  <2>2. Queued(v) = Queued(a.tcb)
    BY <1>4 DEF SameSender, Queued
  <2>3. QED
    BY <1>4, <2>1, <2>2
<1>7. Within(ServerSent, ServerQueued, a.tcb)
  BY <1>1, <1>3, ServerSideWithin
<1>8. WellTyped(t) /\ t.byte_output = a.tcb.byte_output /\ ServerSide(t)
  <2>1. WellTyped(t) /\ t.byte_output = a.tcb.byte_output
    BY <1>3, HandleResendType, ResendSends DEF SameReceiver
  <2>2. ServerQueued \in SUBSET ServerSent
    BY DEF ServerQueued
  <2>3. Within(ServerSent, ServerQueued, t)
    <3> HIDE DEF ServerSent, ServerQueued
    <3>1. QED
      BY <1>3, <1>7, <2>2, ResendWithin
  <2>4. QED
    BY <2>1, <2>3, ServerSideWithin
<1> HIDE DEF t, u
<1>9. t.socket = u.socket \cup a.tcb.socket
  BY <1>5, AddingFields
<1>10. NoOtherAck(u.socket)
  BY <1>6, <1>7 DEF Within, ServerQueued, NoOtherAck
<1>11. b.tcb = t /\ b.input = a.input /\ ConnOK(b)
  BY <1>1, <1>8 DEF ConnOK, Conn, WellTyped
<1> HIDE DEF b
<1>12. Greeting(d.tcb) => GivenOnly(b, {Syn}) /\ NoOtherAck(down[p])
  BY <1>1, <1>2, <1>11 DEF QuietServer, GivenOnly, a
<1>13. Greeting(d.tcb) => /\ Greeting(client[p].tcb) /\ QuietInput(d) /\ NoOtherAck(e)
                          /\ Running(b) => GivenOnly(b, {Syn})
  BY <1>1, <1>10, <1>12 DEF NoOtherAck
<1>14. /\ conns[p][i].tcb.socket \subseteq b.tcb.socket /\ e \subseteq down[p] \cup b.tcb.socket
       /\ ServerSide(b.tcb)
  BY <1>8, <1>9, <1>11 DEF a
<1> HIDE DEF d, e
<1>15. QED
  BY <1>1, <1>2, <1>11, <1>13, <1>14, ServerConnStep

\* one more input in a channel
LEMMA GivenOnlyEnqueued ==
    ASSUME NEW c, ConnOK(c), NEW segs, GivenOnly(c, segs), NEW in,
           in.kind = "Receive" => in.seg \in segs
    PROVE  GivenOnly(enqueue(c, in), segs)
<1> DEFINE q == Append(c.input, in)
           n == Len(c.input)
<1>1. c.input \in Seq(TCBInput \cup {in}) /\ in \in TCBInput \cup {in} /\ n \in Nat
  BY SeqMonotonic, LenProperties DEF ConnOK, Conn
<1> DEFINE S == TCBInput \cup {in}
<1> HIDE DEF S
<1>2. c.input \in Seq(S) /\ in \in S
  BY <1>1 DEF S
<1>3. /\ Len(q) = n + 1 /\ \A k \in 1 .. n : q[k] = c.input[k]
      /\ q[n + 1] = in
  BY <1>2, AppendProperties
<1> HIDE DEF q, n
<1>4. \A k \in 1 .. n + 1 : k \in 1 .. n \/ k = n + 1
  BY <1>1
<1>5. \A k \in 1 .. Len(q) : q[k].kind = "Receive" => q[k].seg \in segs
  BY <1>3, <1>4 DEF GivenOnly, n
<1>6. enqueue(c, in).input = IF c.dropped THEN c.input ELSE q
  BY DEF enqueue, ConnOK, Conn, q
<1>7. QED
  BY <1>5, <1>6 DEF GivenOnly

(* A session leaves the TCB alone, and puts no datagram into its channel.  *)
LEMMA SessionLeaves ==
    ASSUME TypeOK, NEW p \in Peer, NEW i \in DOMAIN conns[p],
           Drop(p, i) \/ Open(p, i) \/ Read(p, i) \/ Echo(p, i) \/ HangUp(p, i),
           NEW b, ConnOK(b), conns' = [conns EXCEPT ![p][i] = b]
    PROVE  /\ b.tcb = conns[p][i].tcb
           /\ \A segs : GivenOnly(conns[p][i], segs) => GivenOnly(b, segs)
<1> DEFINE a == conns[p][i]
<1>1. conns \in [Peer -> Seq(Conn)] /\ ConnOK(a)
  BY PeerConns
<1>2. \A x : conns' = [conns EXCEPT ![p][i] = x] => b = x
  <2> TAKE x
  <2>1. conns' = [conns EXCEPT ![p][i] = x] => conns'[p][i] = x /\ conns'[p][i] = b
    BY <1>1
  <2>2. QED
    BY <2>1
<1>3. CASE Drop(p, i) \/ HangUp(p, i) \/ Read(p, i)
  <2> DEFINE place == a.read + Head(unread(a)) + 1
             s == recv_str(a)
             x == [a EXCEPT !.dropped = TRUE]
             y == [a EXCEPT !.session = "Ended"]
             z == [a EXCEPT !.session = "Echoing", !.string = s, !.read = place]
  <2>1. \/ conns' = [conns EXCEPT ![p][i] = x]
        \/ conns' = [conns EXCEPT ![p][i] = y]
        \/ conns' = [conns EXCEPT ![p][i] = z]
    <3>1. Drop(p, i) \/ HangUp(p, i) => conns' = [conns EXCEPT ![p][i] = x]
                                      \/ conns' = [conns EXCEPT ![p][i] = y]
      BY DEF Drop, HangUp
    <3>2. ASSUME Read(p, i) PROVE conns' = [conns EXCEPT ![p][i] = z]
      BY ONLY Read(p, i) DEF Read
    <3>3. QED
      BY <1>3, <3>1, <3>2
  <2> HIDE DEF s, place
  <2>2. /\ x.tcb = a.tcb /\ x.input = a.input /\ y.tcb = a.tcb /\ y.input = a.input
        /\ z.tcb = a.tcb /\ z.input = a.input
    BY <1>1 DEF ConnOK, Conn
  <2> HIDE DEF x, y, z
  <2>3. b = x \/ b = y \/ b = z
    BY <1>2, <2>1
  <2>4. b.tcb = a.tcb /\ b.input = a.input
    BY <2>2, <2>3
  <2>5. QED
    BY <2>4 DEF GivenOnly
<1>4. ASSUME NEW in, in.kind # "Receive", NEW place, NEW s,
             \/ b = [enqueue(a, in) EXCEPT !.session = place]
             \/ b = [enqueue(a, in) EXCEPT !.session = place, !.string = s]
      PROVE  b.tcb = a.tcb /\ \A segs : GivenOnly(a, segs) => GivenOnly(b, segs)
  <2> DEFINE c == enqueue(a, in)
  <2>1. c.tcb = a.tcb /\ \A segs : GivenOnly(a, segs) => GivenOnly(c, segs)
    BY <1>1, <1>4, EnqueueFields, GivenOnlyEnqueued
  <2>2. /\ DOMAIN c = {"tcb", "input", "dropped", "read", "string", "session"}
    BY <1>1 DEF enqueue, ConnOK, Conn
  <2>3. b.tcb = c.tcb /\ b.input = c.input
    <3> HIDE DEF c
    <3>1. QED
      BY <1>4, <2>2 DEF c
  <2> HIDE DEF c
  <2>4. QED
    BY <2>1, <2>3 DEF GivenOnly
<1>5. CASE Open(p, i)
  <2> DEFINE in == Send(encoded(files[p]))
  <2>1. \/ b = [enqueue(a, Close) EXCEPT !.session = "Refused"]
        \/ b = [enqueue(a, in) EXCEPT !.session = "Reading"]
    BY <1>2, <1>5 DEF Open, refuse, greet
  <2>2. Close.kind # "Receive" /\ in.kind # "Receive"
    BY DEF Close, Send
  <2> HIDE DEF in
  <2>3. QED
    BY <1>4, <2>1, <2>2
<1>6. CASE Echo(p, i)
  <2> DEFINE in == Send(encoded(a.string))
             place == IF a.dropped THEN "Ended" ELSE "Reading"
  <2>1. b = [enqueue(a, in) EXCEPT !.session = place, !.string = << >>]
    BY <1>2, <1>6 DEF Echo, echoed
  <2>2. in.kind # "Receive"
    BY DEF Send
  <2> HIDE DEF in, place
  <2>3. QED
    BY <1>4, <2>1, <2>2
<1>7. QED
  BY <1>3, <1>5, <1>6

LEMMA ServerSessionStep ==
    ASSUME TypeOK, ClientInvariant, NEW p \in Peer, NEW i \in DOMAIN conns[p],
           ServerSession(p, i)
    PROVE  ClientInvariant'
<1> DEFINE a == conns[p][i]
           d == client[p]
           e == down[p]
<1>1. /\ ConnOK(a) /\ conns \in [Peer -> Seq(Conn)] /\ ServerSide(a.tcb)
      /\ ClientOK(Sockets(conns[p]), d) /\ client \in [Peer -> Client]
      /\ Greeting(d.tcb) => QuietServer(conns[p], down[p]) /\ QuietInput(d)
      /\ down = [down EXCEPT ![p] = e] /\ client = [client EXCEPT ![p] = d]
  BY PeerConns, PeerProperties
<1>2. /\ Thread(p, i) /\ UNCHANGED <<client, down>>
      /\ Drop(p, i) \/ Open(p, i) \/ Read(p, i) \/ Echo(p, i) \/ HangUp(p, i)
  BY DEF ServerSession, Thread
<1>3. PICK b : Rewrites(p, i, b)
  BY <1>2, ThreadStep
<1>4. ConnOK(b) /\ conns' = [conns EXCEPT ![p][i] = b]
  BY <1>3 DEF Rewrites
<1>5. b.tcb = a.tcb /\ (GivenOnly(a, {Syn}) => GivenOnly(b, {Syn}))
  BY <1>2, <1>4, SessionLeaves
<1>6. Greeting(d.tcb) => /\ Greeting(client[p].tcb) /\ QuietInput(d) /\ NoOtherAck(e)
                         /\ Running(b) => GivenOnly(b, {Syn})
  BY <1>1, <1>5 DEF QuietServer, Running
<1>7. client' = [client EXCEPT ![p] = d] /\ down' = [down EXCEPT ![p] = e]
  BY <1>1, <1>2
<1>8. /\ conns[p][i].tcb.socket \subseteq b.tcb.socket /\ e \subseteq down[p] \cup b.tcb.socket
      /\ ServerSide(b.tcb)
  BY <1>1, <1>5
<1> HIDE DEF d, e
<1>9. QED
  BY <1>1, <1>4, <1>6, <1>7, <1>8, ServerConnStep

(* A datagram of the client arrives: the first is a SYN, and until it is   *)
(* answered there is no other.                                             *)
LEMMA ArriveStep ==
    ASSUME TypeOK, ClientInvariant, NEW p \in Peer, NEW seg \in client[p].tcb.socket,
           Arrive(p, seg)
    PROVE  ClientInvariant'
<1> DEFINE c == client[p]
           d == [c EXCEPT !.tcb.socket = @ \ {seg}]
           e == down[p]
           in == Receive(seg)
<1>1. /\ conns \in [Peer -> Seq(Conn)] /\ ClientOK(Sockets(conns[p]), c)
      /\ client \in [Peer -> Client]
      /\ Greeting(c.tcb) => QuietServer(conns[p], down[p]) /\ QuietInput(c)
      /\ down = [down EXCEPT ![p] = e] /\ e \in SUBSET Segment
      /\ e \subseteq Sockets(conns[p])
      /\ \A i \in DOMAIN conns[p] : ServerSide(conns[p][i].tcb)
  BY PeerConns, PeerProperties
<1>2. /\ multiplexed_receive(p, seg) /\ seg \in Sent[p]
      /\ client' = [client EXCEPT ![p] = d] /\ down' = [down EXCEPT ![p] = e]
  BY <1>1 DEF Arrive, multiplexed_receive
<1>3. /\ ClientOK(Sockets(conns[p]), d) /\ (Greeting(d.tcb) <=> Greeting(c.tcb))
      /\ QuietInput(d) <=> QuietInput(c)
  <2> DEFINE t == [c.tcb EXCEPT !.socket = @ \ {seg}]
  <2>1. d = [c EXCEPT !.tcb = t]
    BY <1>1 DEF ClientOK, Client
  <2>2. /\ WellTyped(t) /\ t.state = c.tcb.state /\ SameSender(c.tcb, t)
        /\ SameReceiver(c.tcb, t) /\ t.socket \subseteq c.tcb.socket
        /\ ClientOK(Sockets(conns[p]), c)
    <3>1. WellTyped(c.tcb)
      BY <1>1, ClientPlace
    <3> HIDE DEF c
    <3>2. QED
      BY <1>1, <3>1 DEF WellTyped, TCB, SameSender, SameReceiver
  <2> HIDE DEF c, d, t
  <2>3. QED
    BY ONLY <2>1, <2>2, ClientSocketOK
<1> HIDE DEF d
<1>4. Greeting(c.tcb) => seg = Syn
  BY <1>1 DEF ClientOK, Speaks, Fresh
<1>5. in.kind = "Receive" /\ in.seg = seg /\ in \in TCBInput
  <2>1. in \in TCBInput
    BY <1>2, InputSegments
  <2>2. QED
    BY <2>1 DEF Receive
<1> HIDE DEF in
<1>6. CASE valid_channel_found(p)
  <2> DEFINE i == channels[p]
             a == conns[p][i]
             b == enqueue(a, in)
  <2>1. i \in DOMAIN conns[p]
    <3>1. ForwardsTo(p, seg)
      BY <1>2, <1>6, ReceiveStep DEF Connects
    <3>2. QED
      BY <3>1 DEF ForwardsTo
  <2>2. ConnOK(a) /\ ~ a.dropped
    BY <1>6, <2>1, PeerConns DEF valid_channel_found
  <2>3. conns' = [conns EXCEPT ![p][i] = b]
    BY <1>2, <1>6, <2>2 DEF multiplexed_receive, enqueue, in
  <2>4. ConnOK(b) /\ b.tcb = a.tcb
    BY <1>5, <2>2, EnqueueType, EnqueueFields
  <2>5. GivenOnly(a, {Syn}) /\ seg = Syn => GivenOnly(b, {Syn})
    BY <1>5, <2>2, GivenOnlyEnqueued
  <2> HIDE DEF b
  <2>6. Greeting(d.tcb) => /\ Greeting(client[p].tcb) /\ QuietInput(d) /\ NoOtherAck(e)
                           /\ Running(b) => GivenOnly(b, {Syn})
    BY <1>1, <1>3, <1>4, <2>1, <2>4, <2>5 DEF QuietServer, Running
  <2>7. /\ conns[p][i].tcb.socket \subseteq b.tcb.socket /\ e \subseteq down[p] \cup b.tcb.socket
        /\ ServerSide(b.tcb)
    BY <1>1, <2>1, <2>4
  <2> HIDE DEF i
  <2>8. i \in DOMAIN conns[p] /\ conns' = [conns EXCEPT ![p][i] = b]
    BY <2>1, <2>3
  <2> HIDE DEF e, a
  <2>9. QED
    BY <1>2, <1>3, <2>4, <2>6, <2>7, <2>8, ServerConnStep
<1>7. CASE ~ valid_channel_found(p)
  <2> DEFINE cs == conns[p]
             n == Len(cs)
             b == NewConn(seg)
             s == Append(cs, b)
  <2>1. conns' = [conns EXCEPT ![p] = s]
    BY <1>2, <1>7 DEF multiplexed_receive
  <2>2. cs \in Seq(Conn) /\ n \in Nat /\ DOMAIN cs = 1 .. n /\ b \in Conn
    BY <1>5, PeerConns, NewConnType DEF ConnOK, in
  <2>3. /\ b.tcb = new(1) /\ b.input = << in >> /\ b.tcb.socket = {}
        /\ b.tcb.unacked_segs = << >>
    BY DEF NewConn, new, in
  <2>4. ServerSide(b.tcb)
    <3>1. Len(<< >>) = 0
      BY EmptySeq
    <3>2. QED
      BY <2>3, <3>1 DEF ServerSide
  <2>5. Greeting(c.tcb) => GivenOnly(b, {Syn})
    BY <1>4, <1>5, <2>3 DEF GivenOnly
  <2> HIDE DEF b, cs
  <2>6. /\ DOMAIN s = 1 .. n + 1 /\ s[n + 1] = b
        /\ \A k \in 1 .. n : s[k] = cs[k]
    BY <2>2, AppendProperties, LenProperties
  <2> HIDE DEF s, n
  <2>7. \A k \in 1 .. n + 1 : k \in 1 .. n \/ k = n + 1
    BY <2>2
  <2>8. \A k \in 1 .. n : k \in 1 .. n + 1
    BY <2>2
  <2>9. Sockets(s) = Sockets(cs)
    <3>1. Sockets(cs) \subseteq Sockets(s)
      BY <2>2, <2>6, <2>8, Zenon DEF Sockets
    <3>2. ASSUME NEW x \in Sockets(s) PROVE x \in Sockets(cs)
      <4>1. PICK k \in 1 .. n + 1 : x \in s[k].tcb.socket
        BY <2>6 DEF Sockets
      <4>2. k \in 1 .. n /\ x \in cs[k].tcb.socket
        BY <2>3, <2>6, <2>7, <4>1
      <4>3. QED
        BY <2>2, <4>2 DEF Sockets
    <3>3. QED
      BY <3>1, <3>2
  <2>10. PeerOK(s, d, e)
    <3>1. \A k \in DOMAIN s : ServerSide(s[k].tcb)
      BY <1>1, <2>2, <2>4, <2>6, <2>7 DEF cs
    <3>2. Greeting(d.tcb) => QuietServer(s, e) /\ QuietInput(d)
      BY <1>1, <1>3, <2>2, <2>5, <2>6, <2>7 DEF QuietServer, cs
    <3>3. QED
      BY <1>1, <1>3, <2>9, <3>1, <3>2 DEF PeerOK, cs
  <2>11. d \in Client
    BY <1>3 DEF ClientOK
  <2> HIDE DEF e
  <2>12. QED
    BY <1>1, <1>2, <2>1, <2>10, <2>11, ServerStep
<1>8. QED
  BY <1>6, <1>7

-----------------------------------------------------------------------------
(* The clients are as Server takes them to be.                             *)

Streams == [p \in Peer |-> client_text]

LEMMA ClientSegmentsTalk ==
    ASSUME NEW seg \in ClientSegments
    PROVE  /\ "SYN" \in seg.flags => seg.seq_num = 1
           /\ seg.payload # << >> => PlacedIn(client_text, seg)
<1>1. \/ seg = Syn
      \/ \E n \in SeqNum : seg = Ack(n)
      \/ \E i \in 0 .. Len(client_text) : seg = Fin(NumberOf(i))
      \/ \E i \in 0 .. Len(client_text) - 1 :
           \E n \in 1 .. min(MAX_PAYLOAD_SIZE, Len(client_text) - i) : seg = Data(i, n)
  BY DEF ClientSegments
<1>2. CASE seg = Syn
  BY <1>2, SynProperties
<1>3. ASSUME NEW n, seg = Ack(n) \/ seg = Fin(n)
      PROVE  "SYN" \notin seg.flags /\ seg.payload = << >>
  <2>1. Ack(n).flags = {"ACK"} /\ Ack(n).payload = << >>
    BY DEF Ack, make_seg
  <2>2. Fin(n).flags = {"FIN"} /\ Fin(n).payload = << >>
    BY DEF Fin, make_seg
  <2>3. QED
    BY <1>3, <2>1, <2>2
<1>4. ASSUME NEW i \in 0 .. Len(client_text) - 1,
             NEW n \in 1 .. min(MAX_PAYLOAD_SIZE, Len(client_text) - i), seg = Data(i, n)
      PROVE  seg.flags = {} /\ PlacedIn(client_text, seg)
  <2> DEFINE l == Len(client_text)
             s == SubSeq(client_text, i + 1, i + n)
  <2>1. client_text \in Seq(Byte) /\ l \in Nat /\ MAX_PAYLOAD_SIZE \in Nat
    BY StoryNumbers, WindowAssumption
  <2>2. i \in Nat /\ n \in Nat /\ 1 <= n /\ i + n <= l
    BY <2>1 DEF min
  <2>3. \A j \in i + 1 .. i + n : client_text[j] \in Byte
    <3>1. \A j \in i + 1 .. i + n : j \in 1 .. l
      BY <2>1, <2>2
    <3>2. QED
      BY <2>1, <3>1, ElementOfSeq
  <2>4. /\ s \in Seq(Byte)
        /\ Len(s) = IF i + 1 <= i + n THEN (i + n) - (i + 1) + 1 ELSE 0
        /\ \A j \in 1 .. (i + n) - (i + 1) + 1 : s[j] = client_text[(i + 1) + j - 1]
    <3>1. i + 1 \in Int /\ i + n \in Int
      BY <2>2
    <3>2. QED
      BY <2>3, <3>1, SubSeqProperties
  <2> HIDE DEF s, l
  <2>5. (i + n) - (i + 1) + 1 = n /\ i + 1 <= i + n
    BY <2>2
  <2>6. Len(s) = n
    BY <2>4, <2>5
  <2>7. \A j \in 1 .. n : s[j] = client_text[i + j]
    <3> TAKE j \in 1 .. n
    <3>1. (i + 1) + j - 1 = i + j
      BY <2>2
    <3>2. s[j] = client_text[(i + 1) + j - 1]
      BY <2>4, <2>5
    <3>3. QED
      BY <3>1, <3>2
  <2>8. seg.flags = {} /\ seg.seq_num = NumberOf(i) /\ seg.payload = s
    BY <1>4 DEF Data, make_seg, s
  <2>9. QED
    BY <2>2, <2>6, <2>7, <2>8 DEF PlacedIn, l
<1>5. QED
  BY <1>1, <1>2, <1>3, <1>4

(* The one string of the story is a text of strings.                       *)
LEMMA StoryTalk == ClientsTalk(Streams)
<1> DEFINE l == Len(client_text)
           n == Len(Story)
           B == {0, l}
<1>1. /\ client_text \in Seq(Byte) /\ l \in Nat /\ n \in Nat /\ l = n + 1
      /\ client_text[1] = n /\ l + WINDOW_SIZE < SEQ_SPACE
      /\ \A i \in 1 .. n : client_text[i + 1] \in Char
      /\ WINDOW_SIZE \in Nat /\ SEQ_SPACE \in Nat
  BY StoryNumbers
<1> HIDE DEF l, n
<1>2. ClosedUnderStrings(client_text, B)
  <2>1. ASSUME NEW b \in B, b < l PROVE b = 0 /\ client_text[b + 1] = n /\ b + n + 1 = l
    BY <1>1, <2>1
  <2>2. QED
    BY <2>1 DEF ClosedUnderStrings, l
<1>3. Strings(client_text)
  <2> SUFFICES ASSUME NEW b \in Starts(client_text), b < l,
                      NEW j \in 1 .. client_text[b + 1], b + 1 + j <= l
               PROVE  client_text[b + 1 + j] \in Char
    BY DEF Strings, l
  <2>1. B \in SUBSET (0 .. l)
    BY <1>1
  <2>2. b \in B
    BY <1>2, <2>1 DEF Starts, l
  <2>3. b = 0
    BY <1>1, <2>2
  <2>4. j \in 1 .. n /\ b + 1 + j = j + 1
    BY <1>1, <2>3
  <2>5. QED
    BY <1>1, <2>4
<1>4. l + WINDOW_SIZE <= SEQ_SPACE
  BY <1>1
<1>5. \A p \in Peer : Sent[p] = ClientSegments /\ Streams[p] = client_text
  BY StoryAssumption DEF Streams
<1>6. Streams \in [Peer -> Seq(Byte)]
  BY <1>1 DEF Streams
<1>7. QED
  BY <1>3, <1>4, <1>5, <1>6, ClientSegmentsTalk DEF ClientsTalk, l

LEMMA ClientInvariantStep ==
    ASSUME TypeOK, SessionInvariant(Streams), ClientInvariant, [SystemNext]_systemVars
    PROVE  ClientInvariant'
<1>1. CASE UNCHANGED systemVars
  BY <1>1 DEF systemVars, ClientInvariant, ClientsTyped, ClientInStep, OfServer, Quiet
<1>2. ASSUME SystemNext PROVE ClientInvariant'
  <2>1. PICK p \in Peer :
          \/ Network(p)
          \/ Start(p) \/ ClientMain(p)
          \/ ClientHandles(p) \/ ClientTimeout(p) \/ ClientDrop(p)
          \/ \E i \in DOMAIN conns[p] :
               ServerHandles(p, i) \/ ServerTimeout(p, i) \/ ServerSession(p, i)
    BY <1>2 DEF SystemNext
  <2>2. CASE Network(p)
    BY <2>2, ArriveStep, SocketLoopStep DEF Network
  <2>3. CASE Start(p) \/ ClientMain(p)
    BY <2>3, StartStep, ClientMainStep
  <2>4. CASE ClientHandles(p) \/ ClientTimeout(p) \/ ClientDrop(p)
    BY <2>4, ClientThreadStep
  <2>5. ASSUME NEW i \in DOMAIN conns[p],
               ServerHandles(p, i) \/ ServerTimeout(p, i) \/ ServerSession(p, i)
        PROVE  ClientInvariant'
    <3>1. CASE ServerHandles(p, i)
      BY <3>1, StoryTalk, ServerHandlesStep DEF Streams
    <3>2. CASE ServerTimeout(p, i) \/ ServerSession(p, i)
      BY <3>2, ServerTimeoutStep, ServerSessionStep
    <3>3. QED
      BY <2>5, <3>1, <3>2
  <2>6. QED
    BY <2>1, <2>2, <2>3, <2>4, <2>5
<1>3. QED
  BY <1>1, <1>2

LEMMA ClientInvariantInit == SystemInit => ClientInvariant
<1> SUFFICES ASSUME SystemInit PROVE ClientInvariant
  OBVIOUS
<1> DEFINE c == NoClient
           t == handle_close(new(1))
<1>1. /\ << >> \in Seq(Byte) /\ << >> \in Seq(ClientInput) /\ << >> \in Seq(Seq(Byte)) /\ Len(<< >>) = 0
      /\ {} \in SUBSET Nat
  BY EmptySeq
<1>2. /\ WellTyped(t) /\ t.state = "Closed" /\ t.socket = {} /\ t.unacked_segs = << >>
      /\ t.byte_output = << >> /\ t \in TCB
  <2> DEFINE u == new(1)
  <2>1. WellTyped(u)
    BY NewType, StoryNumbers
  <2>2. u.socket = {} /\ u.unacked_segs = << >> /\ u.byte_output = << >>
    BY DEF new
  <2> HIDE DEF u
  <2>3. QED
    BY <2>1, <2>2 DEF handle_close, WellTyped, TCB, TCBState, u
<1> HIDE DEF t
<1>3. /\ c \in Client /\ c.tcb = t /\ c.input = << >> /\ c.dropped = TRUE
      /\ c.session = "Done" /\ c.read = 0
  <2> DEFINE none == << >>
             b == NewClient(0, none, {})
             y == [b EXCEPT !.input = none, !.dropped = TRUE, !.session = "Done"]
  <2>1. b.tcb = new(1) /\ b.read = 0
    BY DEF NewClient
  <2>2. b \in Client
    BY <1>1, NewClientOK DEF ClientOK
  <2>3. c = [y EXCEPT !.tcb = handle_close(y.tcb)]
    BY DEF NoClient
  <2>4. none \in Seq(ClientInput) /\ none = << >>
    BY <1>1
  <2> HIDE DEF b, c, none
  <2>5. /\ y \in Client /\ y.tcb = b.tcb /\ y.input = none /\ y.dropped = TRUE
        /\ y.session = "Done" /\ y.read = b.read
    BY <2>2, <2>4 DEF Client
  <2> HIDE DEF y
  <2>6. handle_close(y.tcb) = t
    BY <2>1, <2>5 DEF t
  <2>7. c = [y EXCEPT !.tcb = t]
    BY <2>3, <2>6
  <2>8. QED
    BY <1>2, <2>1, <2>4, <2>5, <2>7 DEF Client
<1> HIDE DEF c
<1>5. ClientOK(Sockets(<< >>), c)
  <2>1. Within(ClientSent(Answerable(Sockets(<< >>))), ClientQueued, t)
    BY <1>1, <1>2 DEF Within, Queued
  <2>2. Speaks(Answerable(Sockets(<< >>)), given(c), t)
    BY <1>2, <2>1 DEF Speaks, Greeting
  <2>3. InputInStep(Sockets(<< >>), c)
    BY <1>1, <1>2, <1>3 DEF InputInStep
  <2>4. QED
    BY <1>1, <1>2, <1>3, <2>2, <2>3 DEF ClientOK, Running, Greeting
<1>6. PeerOK(<< >>, c, {})
  <2>1. DOMAIN << >> = {}
    OBVIOUS
  <2>2. QED
    BY <1>2, <1>3, <1>5, <2>1 DEF PeerOK, Greeting
<1>7. \A p \in Peer : conns[p] = << >> /\ client[p] = c /\ down[p] = {}
  BY DEF SystemInit, Init, c
<1>8. ClientsTyped
  BY <1>3 DEF SystemInit, ClientsTyped, c
<1>9. QED
  BY <1>6, <1>7, <1>8, ClientInvariantByPeer DEF PeersOK

(* Within the program the sessions of the server are in step with what     *)
(* run_client says, without a word assumed of what clients send.           *)
LEMMA SystemSessionsInStep == SystemSpec => []SessionInvariant(Streams)
<1>1. Init => SessionInvariant(Streams)
  BY SessionInit
<1>2. TypeOK /\ SessionInvariant(Streams) /\ [Next]_vars => SessionInvariant(Streams)'
  BY StoryTalk, SessionInvariantStep
<1>3. QED
  BY <1>1, <1>2, SystemImplementsServer, TypeCorrect, PTL DEF Spec

(* Every segment of a client is its SYN, its FIN, a part of its stream in  *)
(* its place, or an acknowledgement of something that the server has sent  *)
(* to it: also when data is stored ahead of its turn, when datagrams of    *)
(* several connections of the server meet in one window, and when a TCB    *)
(* that an earlier client has left behind takes part (lib.rs 83-187,       *)
(* tcp.rs 127-261).                                                        *)
THEOREM ClientsKeepInStep == SystemSpec => []ClientInvariant
<1>1. QED
  BY ClientInvariantInit, ClientInvariantStep, SystemSessionsInStep, SystemImplementsServer,
     TypeCorrect, PTL DEF SystemSpec

(* The clients of the program send what the server takes its clients to    *)
(* send: what is proved of Server, whose clients are left open, is proved  *)
(* of the program (lib.rs 83-146, 148-187).                                *)
THEOREM ClientsSendAsAssumed == SystemSpec => []ClientsAsAssumed
<1>1. ClientInvariant => ClientsAsAssumed
  <2> SUFFICES ASSUME ClientInvariant, NEW p \in Peer, NEW seg \in client[p].tcb.socket
               PROVE  seg \in Sent[p] /\ ("ACK" \in seg.flags => answers(p, seg))
    BY DEF ClientsAsAssumed
  <2>1. seg \in ClientSegments /\ ("ACK" \in seg.flags => seg.ack_num \in Answerable(OfServer(p)))
    BY DEF ClientInvariant, ClientInStep, ClientSide
  <2>2. seg \in Sent[p]
    BY <2>1, StoryAssumption
  <2>3. ASSUME "ACK" \in seg.flags PROVE answers(p, seg)
    <3>1. PICK x \in OfServer(p) : seg.ack_num = next_seq(x)
      BY <2>1, <2>3 DEF Answerable
    <3>2. PICK i \in DOMAIN conns[p] : x \in conns[p][i].tcb.socket
      BY DEF OfServer
    <3>3. QED
      BY <3>1, <3>2 DEF answers
  <2>4. QED
    BY <2>2, <2>3
<1>2. QED
  BY <1>1, ClientsKeepInStep, PTL

(* And so the files of the program hold strings: no length that a client   *)
(* sends is taken for a character, however often run_client is run at an   *)
(* address (lib.rs 49-52, 66-70, 174-178).                                 *)
THEOREM SystemFilesHoldStrings == SystemSpec => []FilesHoldStrings
<1>1. SessionInvariant(Streams) => FilesHoldStrings
  BY DEF SessionInvariant, FilesHoldStrings
<1>2. QED
  BY <1>1, SystemSessionsInStep, PTL

-----------------------------------------------------------------------------
(* What the files hold.                                                    *)

Stories(file, n) ==
    /\ Len(file) = Len(Story) * n
    /\ \A k \in 1 .. Len(file) : file[k] = Story[((k - 1) % Len(Story)) + 1]

HaveRead(p) == {i \in DOMAIN conns[p] : conns[p][i].read # 0}

LEMMA Remainder ==
    ASSUME NEW b \in Nat \ {0}, NEW q \in Nat, NEW r \in 0 .. b - 1
    PROVE  (b * q + r) % b = r
OBVIOUS

LEMMA OneMoreStory ==
    ASSUME NEW file \in Seq(Char), NEW n \in Nat, Stories(file, n)
    PROVE  Stories(file \o Story, n + 1)
<1> DEFINE l == Len(file)
           m == Len(Story)
           longer == file \o Story
<1>1. Story \in Seq(Char) /\ m \in Nat /\ l \in Nat
  BY SystemAssumption, LenProperties
<1>2. /\ Len(longer) = l + m
      /\ \A k \in 1 .. l + m : longer[k] = IF k <= l THEN file[k] ELSE Story[k - l]
  BY <1>1, ConcatProperties
<1>3. l = m * n /\ \A k \in 1 .. l : file[k] = Story[((k - 1) % m) + 1]
  BY DEF Stories
<1> HIDE DEF longer, l, m
<1>4. m * (n + 1) = m * n + m
  BY <1>1
<1>5. ASSUME NEW k \in 1 .. l + m PROVE longer[k] = Story[((k - 1) % m) + 1]
  <2>1. CASE k <= l
    <3>1. k \in 1 .. l
      BY <1>1, <2>1
    <3>2. QED
      BY <1>2, <1>3, <2>1, <3>1
  <2>2. CASE ~ k <= l
    <3> DEFINE j == k - l
    <3>1. j \in Nat /\ 1 <= j /\ j <= m /\ k - 1 = l + (j - 1)
      BY <1>1, <2>2
    <3>2. m \in Nat \ {0} /\ j - 1 \in 0 .. m - 1 /\ (j - 1) + 1 = j
      BY <1>1, <3>1
    <3> HIDE DEF j
    <3>3. (m * n + (j - 1)) % m = j - 1
      BY <3>2, Remainder
    <3>4. (k - 1) % m = j - 1
      BY ONLY <1>3, <3>1, <3>3
    <3>5. longer[k] = Story[j]
      BY <1>2, <2>2 DEF j
    <3>6. QED
      BY ONLY <3>2, <3>4, <3>5
  <2>3. QED
    BY <2>1, <2>2
<1>6. QED
  BY <1>2, <1>3, <1>4, <1>5 DEF Stories, longer, m

LEMMA StoryAt ==
    /\ Starts(client_text) \subseteq {0, Len(client_text)}
    /\ Len(client_text) # 0 /\ After(client_text, 0) = Len(client_text)
    /\ StringAt(client_text, 0) = Story
<1> DEFINE l == Len(client_text)
           n == Len(Story)
           B == {0, l}
           prefix == << n % (MAX_BYTE + 1) >>
<1>1. client_text \in Seq(Byte) /\ l \in Nat /\ n \in Nat /\ l = n + 1 /\ client_text[1] = n
  BY StoryNumbers
<1>2. Story \in Seq(Byte)
  BY SystemAssumption, ServerAssumption, SeqMonotonic
<1>3. prefix \in Seq(Byte) /\ Len(prefix) = 1
  <2>1. n % (MAX_BYTE + 1) = n /\ n \in Byte
    <3>1. n <= MAX_BYTE /\ MAX_BYTE \in Nat /\ Byte = 0 .. MAX_BYTE
      BY StoryAssumption, ServerAssumption
    <3>2. \A a, b \in Nat : a <= b => a % (b + 1) = a
      BY ONLY SMT
    <3>3. QED
      BY <1>1, <3>1, <3>2
  <2>2. QED
    BY <2>1
<1>4. client_text = prefix \o Story
  BY DEF client_text, encoded
<1> HIDE DEF prefix
<1>5. \A i \in 1 .. n : Story[i] = client_text[1 + i]
  <2> TAKE i \in 1 .. n
  <2>1. /\ \A k \in 1 .. Len(prefix) + Len(Story) :
             (prefix \o Story)[k] = IF k <= Len(prefix) THEN prefix[k] ELSE Story[k - Len(prefix)]
    BY <1>2, <1>3, ConcatProperties
  <2>2. 1 + i \in 1 .. 1 + n /\ ~ (1 + i <= 1) /\ (1 + i) - 1 = i
    BY <1>1
  <2>3. QED
    BY <1>3, <1>4, <2>1, <2>2
<1>6. Story = SubSeq(client_text, 2, 1 + n)
  <2>1. Story = SubSeq(client_text, 1 + 1, 1 + Len(Story))
    BY <1>1, <1>2, <1>5, SubSeqEqual
  <2>2. QED
    BY <2>1
<1> HIDE DEF l, n
<1>7. ClosedUnderStrings(client_text, B)
  <2>1. ASSUME NEW b \in B, b < l PROVE b = 0 /\ client_text[b + 1] = n /\ b + n + 1 = l
    BY <1>1, <2>1
  <2>2. QED
    BY <2>1 DEF ClosedUnderStrings, l
<1>8. B \in SUBSET (0 .. l)
  BY <1>1
<1>9. Starts(client_text) \subseteq B
  BY <1>7, <1>8 DEF Starts, l
<1>10. After(client_text, 0) = l /\ StringAt(client_text, 0) = SubSeq(client_text, 2, 1 + n)
  BY <1>1 DEF After, StringAt
<1>11. QED
  BY <1>1, <1>6, <1>9, <1>10 DEF l

LEMMA HaveReadFinite ==
    ASSUME TypeOK, NEW p \in Peer
    PROVE  IsFiniteSet(HaveRead(p)) /\ Cardinality(HaveRead(p)) \in Nat
<1>1. conns[p] \in Seq(Conn)
  BY DEF TypeOK
<1>2. DOMAIN conns[p] = 1 .. Len(conns[p]) /\ Len(conns[p]) \in Nat
  BY <1>1, LenProperties
<1>3. IsFiniteSet(1 .. Len(conns[p]))
  BY <1>2, FS_Interval
<1>4. HaveRead(p) \in SUBSET (1 .. Len(conns[p]))
  BY <1>2 DEF HaveRead
<1>5. IsFiniteSet(HaveRead(p))
  BY <1>3, <1>4, FS_Subset
<1>6. QED
  BY <1>5, FS_CardinalityType

LEMMA StoriesStep ==
    ASSUME TypeOK, SessionInvariant(Streams), FilesHoldStories, [Next]_vars
    PROVE  FilesHoldStories'
<1>1. \A p \in Peer : Stories(files[p], Cardinality(HaveRead(p)))
  BY DEF FilesHoldStories, Stories, HaveRead
<1>2. (\A p \in Peer : Stories(files'[p], Cardinality(HaveRead(p)'))) => FilesHoldStories'
  BY DEF FilesHoldStories, Stories, HaveRead
<1>3. CASE ReadsStay
  <2>1. \A p \in Peer : HaveRead(p)' = HaveRead(p)
    BY <1>3 DEF ReadsStay, HaveRead
  <2>2. files' = files
    BY <1>3 DEF ReadsStay
  <2>3. QED
    BY <1>1, <1>2, <2>1, <2>2
<1>4. ASSUME NEW p \in Peer, NEW i \in DOMAIN conns[p], Read(p, i)
      PROVE  FilesHoldStories'
  <2> DEFINE b == conns[p][i].read
  <2>1. Grows(Streams, p, i) /\ Streams[p] = client_text
    BY <1>4, StoryTalk, ReadGrows DEF Streams
  <2>2. b = 0
    BY <2>1, StoryAt DEF Grows
  <2>3. /\ files' = [files EXCEPT ![p] = files[p] \o Story]
        /\ conns' = [conns EXCEPT ![p] = conns'[p]] /\ DOMAIN conns'[p] = DOMAIN conns[p]
        /\ \A j \in DOMAIN conns[p] :
             conns'[p][j].read = IF j = i THEN Len(client_text) ELSE conns[p][j].read
    BY <2>1, <2>2, StoryAt DEF Grows
  <2>4. HaveRead(p)' = HaveRead(p) \cup {i} /\ i \notin HaveRead(p)
    BY <1>4, <2>2, <2>3, StoryAt DEF HaveRead
  <2>5. Cardinality(HaveRead(p)') = Cardinality(HaveRead(p)) + 1
    BY <2>4, HaveReadFinite, FS_AddElement
  <2>6. files[p] \in Seq(Char) /\ files'[p] = files[p] \o Story
    BY <2>3 DEF SessionInvariant, TypeOK
  <2>7. Stories(files'[p], Cardinality(HaveRead(p)'))
    <3>1. Cardinality(HaveRead(p)) \in Nat
      BY HaveReadFinite
    <3>2. Stories(files[p] \o Story, Cardinality(HaveRead(p)) + 1)
      BY <1>1, <2>6, <3>1, OneMoreStory
    <3>3. QED
      BY <2>5, <2>6, <3>2
  <2>8. ASSUME NEW q \in Peer, q # p PROVE HaveRead(q)' = HaveRead(q) /\ files'[q] = files[q]
    <3>1. conns'[q] = conns[q] /\ files'[q] = files[q]
      BY <2>3, <2>8 DEF TypeOK
    <3>2. QED
      BY <3>1 DEF HaveRead
  <2>9. \A q \in Peer : Stories(files'[q], Cardinality(HaveRead(q)'))
    BY <1>1, <2>7, <2>8
  <2>10. QED
    BY <1>2, <2>9
<1>5. QED
  BY <1>3, <1>4, StepReads

(* The file of an address is the story over and over, once for each        *)
(* session that has read it: however often run_client is run there, and    *)
(* whatever its earlier connections have left behind, no run adds anything *)
(* else (lib.rs 66-70, 174-178).                                           *)
THEOREM FilesAlwaysHoldStories == SystemSpec => []FilesHoldStories
<1>1. SystemInit => FilesHoldStories
  <2> SUFFICES ASSUME SystemInit, NEW p \in Peer
               PROVE  /\ Len(files[p]) = Len(Story) * Cardinality(HaveRead(p))
                      /\ \A k \in 1 .. Len(files[p]) : files[p][k] = Story[((k - 1) % Len(Story)) + 1]
    BY DEF FilesHoldStories, HaveRead
  <2>1. files[p] = << >> /\ conns[p] = << >>
    BY DEF SystemInit, Init
  <2>2. HaveRead(p) = {}
    BY <2>1 DEF HaveRead
  <2>3. Cardinality(HaveRead(p)) = 0 /\ Len(Story) \in Nat
    BY <2>2, FS_EmptySet, StoryNumbers
  <2>4. Len(Story) * 0 = 0
    BY <2>3
  <2>5. QED
    BY <2>1, <2>3, <2>4
<1>2. TypeOK /\ SessionInvariant(Streams) /\ FilesHoldStories /\ [SystemNext]_systemVars => FilesHoldStories'
  <2>1. [SystemNext]_systemVars => [Next]_vars
    BY SystemStep DEF systemVars, vars
  <2>2. QED
    BY <2>1, StoriesStep
<1>3. QED
  BY <1>1, <1>2, SystemSessionsInStep, SystemImplementsServer, TypeCorrect, PTL DEF SystemSpec
=============================================================================
