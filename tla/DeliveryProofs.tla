--------------------------- MODULE DeliveryProofs ---------------------------
(***************************************************************************)
(* Type correctness of a connection, and every handler of a TCB keeps the  *)
(* invariant of Delivery: one lemma per handler, and the facts about       *)
(* numbers and positions they rest on.                                     *)
(***************************************************************************)
EXTENDS Delivery, TcbProofs

-----------------------------------------------------------------------------
(* Endpoints, and steps of one of them.                                    *)

(* TypeOK, said of one endpoint at a time.                                 *)
LEMMA TypeOKByEndpoint ==
    TypeOK <=> /\ tcb = [e \in Endpoint |-> tcb[e]]
               /\ \A e \in Endpoint : WellTyped(tcb[e])
               /\ handed \in [Endpoint -> Nat]
               /\ \A e \in Endpoint : handed[e] <= Len(Stream[e])
               /\ losses \in 0 .. MaxLosses
BY DEF TypeOK, WellTyped

LEMMA PeerProperties ==
    ASSUME NEW e \in Endpoint
    PROVE  peer(e) \in Endpoint /\ peer(e) # e /\ peer(peer(e)) = e
BY ConnectionAssumption DEF peer, Endpoint

(* A step that rewrites the TCB of one endpoint and at most takes          *)
(* datagrams of its peer out of flight preserves the types.                *)
LEMMA TcbStepType ==
    ASSUME TypeOK, NEW e \in Endpoint, NEW t, WellTyped(t), NEW S, S \subseteq tcb[peer(e)].socket,
           tcb' = [tcb EXCEPT ![e] = t, ![peer(e)].socket = S]
    PROVE  /\ tcb' = [f \in Endpoint |-> tcb'[f]]
           /\ \A f \in Endpoint : WellTyped(tcb'[f])
<1>1. peer(e) \in Endpoint /\ peer(e) # e /\ \A f \in Endpoint : f = e \/ f = peer(e)
  BY PeerProperties DEF Endpoint, peer
<1>2. \A f \in Endpoint : WellTyped(tcb[f])
  BY TypeOKByEndpoint
<1>3. WellTyped([tcb[peer(e)] EXCEPT !.socket = S])
  BY <1>1, <1>2 DEF WellTyped, TCB
<1>4. tcb'[e] = t /\ tcb'[peer(e)] = [tcb[peer(e)] EXCEPT !.socket = S]
  BY <1>1 DEF TypeOK
<1>5. tcb' = [f \in Endpoint |-> tcb'[f]]
  BY DEF TypeOK
<1>6. QED
  BY <1>1, <1>3, <1>4, <1>5

(* The same for a step that rewrites one TCB only.                         *)
LEMMA OneTcbStepType ==
    ASSUME TypeOK, NEW e \in Endpoint, NEW t, WellTyped(t), tcb' = [tcb EXCEPT ![e] = t]
    PROVE  /\ tcb' = [f \in Endpoint |-> tcb'[f]]
           /\ \A f \in Endpoint : WellTyped(tcb'[f])
<1>1. \A f \in Endpoint : WellTyped(tcb[f])
  BY TypeOKByEndpoint
<1>2. \A f \in Endpoint : tcb'[f] = IF f = e THEN t ELSE tcb[f]
  BY DEF TypeOK
<1>3. tcb' = [f \in Endpoint |-> tcb'[f]]
  BY DEF TypeOK
<1>4. QED
  BY <1>1, <1>2, <1>3

-----------------------------------------------------------------------------
(* Type correctness.                                                       *)

LEMMA InitType == Init => TypeOK
<1> SUFFICES ASSUME Init PROVE TypeOK
  OBVIOUS
<1>1. \A e \in Endpoint : WellTyped(tcb[e])
  <2>1. \A e \in Endpoint : InitialSeq[e] \in SeqNum /\ tcb[e] = new(InitialSeq[e])
    BY ConnectionAssumption DEF Init
  <2>2. QED
    BY <2>1, NewType
<1>2. handed \in [Endpoint -> Nat] /\ losses \in 0 .. MaxLosses
  BY ConnectionAssumption DEF Init
<1>3. \A e \in Endpoint : handed[e] <= Len(Stream[e])
  <2>1. \A e \in Endpoint : Len(Stream[e]) \in Nat
    BY ConnectionAssumption, LenProperties
  <2>2. QED
    BY <2>1 DEF Init
<1>4. QED
  BY <1>1, <1>2, <1>3, TypeOKByEndpoint DEF Init

LEMMA StepType == TypeOK /\ [Next]_vars => TypeOK'
<1> SUFFICES ASSUME TypeOK, [Next]_vars PROVE TypeOK'
  OBVIOUS
<1> DEFINE TcbOK == /\ tcb = [e \in Endpoint |-> tcb[e]]
                    /\ \A e \in Endpoint : WellTyped(tcb[e])
           HandedOK == /\ handed \in [Endpoint -> Nat]
                       /\ \A e \in Endpoint : handed[e] <= Len(Stream[e])
           LossesOK == losses \in 0 .. MaxLosses
<1>1. TcbOK /\ HandedOK /\ LossesOK
  BY TypeOKByEndpoint
<1>2. TypeOK' <=> TcbOK' /\ HandedOK' /\ LossesOK'
  BY TypeOKByEndpoint, PTL
<1>3. /\ UNCHANGED handed => HandedOK'
      /\ UNCHANGED losses => LossesOK'
      /\ UNCHANGED tcb => TcbOK'
  BY <1>1
<1>4. \A e \in Endpoint : WellTyped(tcb[e]) /\ tcb[e].socket \subseteq Segment
  BY <1>1 DEF WellTyped, TCB
<1>5. \A e \in Endpoint : Len(Stream[e]) \in Nat /\ Stream[e] \in Seq(Byte)
  BY ConnectionAssumption, LenProperties
<1>6. CASE SendSyn
  <2>1. TcbOK'
    BY <1>4, <1>6, SendSynType, OneTcbStepType DEF SendSyn, Endpoint
  <2>2. QED
    BY <1>2, <1>3, <1>6, <2>1 DEF SendSyn
<1>7. ASSUME NEW e \in Endpoint, Send(e) PROVE TypeOK'
  <2>1. PICK n \in 1 .. min(MaxSend, Len(Stream[e]) - handed[e]) :
          /\ tcb' = [tcb EXCEPT ![e] = send(@, SubSeq(Stream[e], handed[e] + 1, handed[e] + n))]
          /\ handed' = [handed EXCEPT ![e] = @ + n]
    BY <1>7 DEF Send
  <2>2. handed[e] \in Nat /\ n \in Nat /\ handed[e] + n <= Len(Stream[e])
    BY <1>1, <1>5, <2>1, ConnectionAssumption DEF min
  <2>3. SubSeq(Stream[e], handed[e] + 1, handed[e] + n) \in Seq(Byte)
    <3>1. \A i \in handed[e] + 1 .. handed[e] + n : Stream[e][i] \in Byte
      BY <1>5, <2>2, ElementOfSeq
    <3>2. handed[e] + 1 \in Int /\ handed[e] + n \in Int
      BY <2>2
    <3>3. QED
      BY <3>1, <3>2, SubSeqProperties
  <2>4. TcbOK'
    BY <1>4, <2>1, <2>3, SendType, OneTcbStepType DEF TypeOK
  <2>5. HandedOK'
    BY <1>1, <2>1, <2>2
  <2>6. QED
    BY <1>2, <1>3, <1>7, <2>4, <2>5 DEF Send
<1>8. ASSUME NEW e \in Endpoint, Close(e) PROVE TypeOK'
  <2>1. TcbOK'
    BY <1>4, <1>8, SendCloseType, OneTcbStepType DEF Close, TypeOK
  <2>2. QED
    BY <1>2, <1>3, <1>8, <2>1 DEF Close
<1>9. ASSUME NEW e \in Endpoint, Timeout(e) PROVE TypeOK'
  <2>1. TcbOK'
    BY <1>4, <1>9, HandleResendType, OneTcbStepType DEF Timeout, TypeOK
  <2>2. QED
    BY <1>2, <1>3, <1>9, <2>1 DEF Timeout
<1>10. ASSUME NEW e \in Endpoint, NEW seg \in tcb[peer(e)].socket, Receive(e, seg)
       PROVE  TypeOK'
  <2> DEFINE S == IF Duplicating THEN tcb[peer(e)].socket ELSE tcb[peer(e)].socket \ {seg}
  <2>1. WellTyped(handle_seg(tcb[e], seg))
    BY <1>4, PeerProperties, HandleSegType
  <2>2. tcb' = [tcb EXCEPT ![e] = handle_seg(tcb[e], seg), ![peer(e)].socket = S]
    BY <1>10, PeerProperties DEF Receive, TypeOK
  <2>3. S \subseteq tcb[peer(e)].socket
    OBVIOUS
  <2> HIDE DEF S
  <2>4. TcbOK'
    BY <2>1, <2>2, <2>3, TcbStepType
  <2>5. QED
    BY <1>2, <1>3, <1>10, <2>4 DEF Receive
<1>11. ASSUME NEW e \in Endpoint, NEW seg \in tcb[e].socket, Lose(e, seg) PROVE TypeOK'
  <2>1. WellTyped([tcb[e] EXCEPT !.socket = @ \ {seg}])
    BY <1>4 DEF WellTyped, TCB
  <2>2. TcbOK'
    BY <1>11, <2>1, OneTcbStepType DEF Lose, TypeOK
  <2>3. LossesOK'
    BY <1>1, <1>11, ConnectionAssumption DEF Lose
  <2>4. QED
    BY <1>2, <1>3, <1>11, <2>2, <2>3 DEF Lose
<1>12. CASE UNCHANGED vars
  BY <1>2, <1>3, <1>12 DEF vars
<1>13. QED
  BY <1>6, <1>7, <1>8, <1>9, <1>10, <1>11, <1>12 DEF Next

(* Every reachable state is well typed: a number stays within u32, only    *)
(* bytes are delivered, never more than WINDOW_SIZE bytes are in flight,   *)
(* and dupe_acks is reset before it reaches three (tcp.rs 132, 243-246).   *)
THEOREM TypeCorrect == Spec => []TypeOK
<1>1. QED
  BY InitType, StepType, PTL DEF Spec

-----------------------------------------------------------------------------
(* Positions in a stream and their sequence numbers.                       *)

(* What the assumptions say of the numbers, in one place.                  *)
LEMMA Numbers ==
    /\ SEQ_SPACE \in Nat /\ WINDOW_SIZE \in Nat /\ MAX_PAYLOAD_SIZE \in Nat
    /\ 1 <= WINDOW_SIZE /\ 1 <= MAX_PAYLOAD_SIZE
    /\ 0 \in SeqNum /\ 0 < SEQ_SPACE /\ WINDOW_SIZE \in SeqNum
    /\ \A e \in Endpoint :
         /\ Stream[e] \in Seq(Byte)
         /\ Len(Stream[e]) \in Nat
         /\ Len(Stream[e]) + 2 * WINDOW_SIZE + 2 <= SEQ_SPACE
         /\ Len(Stream[e]) < SEQ_SPACE
         /\ InitialSeq[e] \in SeqNum
         /\ FirstSeq(e) \in SeqNum
         /\ FirstSeq(e) # InitialSeq[e]
<1>1. /\ SEQ_SPACE \in Nat /\ WINDOW_SIZE \in Nat /\ MAX_PAYLOAD_SIZE \in Nat
      /\ 1 <= WINDOW_SIZE /\ 1 <= MAX_PAYLOAD_SIZE
      /\ 0 \in SeqNum /\ 0 < SEQ_SPACE /\ WINDOW_SIZE \in SeqNum
  BY WindowAssumption, SeqSpaceAssumption DEF SeqNum
<1>2. ASSUME NEW e \in Endpoint
      PROVE  /\ Stream[e] \in Seq(Byte)
             /\ Len(Stream[e]) \in Nat
             /\ Len(Stream[e]) + 2 * WINDOW_SIZE + 2 <= SEQ_SPACE
             /\ Len(Stream[e]) < SEQ_SPACE
             /\ InitialSeq[e] \in SeqNum
  <2>1. \A a \in Nat : a + 2 * WINDOW_SIZE + 2 <= SEQ_SPACE => a < SEQ_SPACE
    BY <1>1
  <2>2. QED
    BY <2>1, ConnectionAssumption, LenProperties
<1>3. ASSUME NEW e \in Endpoint
      PROVE  FirstSeq(e) \in SeqNum /\ FirstSeq(e) # InitialSeq[e]
  <2>1. SEQ_SPACE > 1 /\ InitialSeq[e] \in SeqNum
    <3>1. \A a \in Nat : a + 2 * WINDOW_SIZE + 2 <= SEQ_SPACE => SEQ_SPACE > 1
      BY <1>1
    <3>2. QED
      BY <1>2, <3>1
  <2>2. QED
    BY <1>1, <2>1 DEF FirstSeq, wrapping_add, SeqNum
<1>4. QED
  BY <1>1, <1>2, <1>3

(* At, for the positions of a stream and a window beyond them.             *)
LEMMA AtProperties ==
    ASSUME NEW e \in Endpoint, NEW m \in Nat, m < SEQ_SPACE
    PROVE  /\ At(e, m) \in SeqNum
           /\ At(e, 0) = FirstSeq(e)
           /\ \A n \in Nat : m + n < SEQ_SPACE => wrapping_add(At(e, m), n) = At(e, m + n)
           /\ \A n \in Nat : n < SEQ_SPACE =>
                wrapping_sub(At(e, m), At(e, n)) = wrapping_sub(m, n)
<1>1. FirstSeq(e) \in SeqNum /\ SEQ_SPACE \in Nat
  BY Numbers
<1>2. At(e, 0) = FirstSeq(e)
  BY <1>1 DEF At, wrapping_add, SeqNum
<1>3. \A n \in Nat : n < SEQ_SPACE => n \in SeqNum
  BY <1>1 DEF SeqNum
<1>4. At(e, m) \in SeqNum
  BY <1>1, <1>3, WrappingType DEF At
<1>5. ASSUME NEW n \in Nat, m + n < SEQ_SPACE
      PROVE  wrapping_add(At(e, m), n) = At(e, m + n)
  BY <1>1, <1>5, WrapAdd DEF At
<1>6. ASSUME NEW n \in Nat, n < SEQ_SPACE
      PROVE  wrapping_sub(At(e, m), At(e, n)) = wrapping_sub(m, n)
  BY <1>1, <1>3, <1>6, WrapDistance DEF At
<1>7. QED
  BY <1>2, <1>4, <1>5, <1>6

(* seq_base and the number of acknowledged bytes determine each other.     *)
LEMMA AckedProperties ==
    ASSUME NEW e \in Endpoint, NEW t, t.seq_base \in SeqNum
    PROVE  /\ AckedBy(e, t) \in Nat /\ AckedBy(e, t) < SEQ_SPACE
           /\ t.seq_base # InitialSeq[e] => t.seq_base = At(e, AckedBy(e, t))
           /\ \A n \in 0 .. Len(Stream[e]) :
                t.seq_base = At(e, n) => AckedBy(e, t) = n /\ t.seq_base # InitialSeq[e]
<1>1. /\ FirstSeq(e) \in SeqNum /\ SEQ_SPACE \in Nat /\ InitialSeq[e] \in SeqNum
      /\ Len(Stream[e]) \in Nat /\ Len(Stream[e]) + 2 <= SEQ_SPACE
  <2>1. \A a, b \in Nat : a + 2 * b + 2 <= SEQ_SPACE => a + 2 <= SEQ_SPACE
    BY Numbers
  <2>2. QED
    BY <2>1, Numbers
<1>2. AckedBy(e, t) \in SeqNum
  <2>1. 0 \in SeqNum
    BY <1>1 DEF SeqNum
  <2>2. QED
    BY <1>1, <2>1, WrappingType DEF AckedBy
<1>3. t.seq_base # InitialSeq[e] => t.seq_base = At(e, AckedBy(e, t))
  BY <1>1, WrappingType DEF AckedBy, At
<1>4. ASSUME NEW n \in 0 .. Len(Stream[e]), t.seq_base = At(e, n)
      PROVE  AckedBy(e, t) = n /\ t.seq_base # InitialSeq[e]
  <2>1. n \in SeqNum
    BY <1>1 DEF SeqNum
  <2>2. wrapping_sub(t.seq_base, FirstSeq(e)) = n
    BY <1>1, <1>4, <2>1, WrappingType DEF At
  <2>3. t.seq_base # InitialSeq[e]
    <3>1. n <= SEQ_SPACE - 2
      BY <1>1
    <3>2. QED
      BY <1>1, <1>4, <3>1 DEF At, FirstSeq, wrapping_add, SeqNum
  <2>4. QED
    BY <2>2, <2>3 DEF AckedBy
<1>5. QED
  BY <1>1, <1>2, <1>3, <1>4 DEF SeqNum

-----------------------------------------------------------------------------
(* One endpoint: what a handler may assume of its TCB, and must restore.   *)

Holds(e, t, given, got, sent) ==
    /\ WellTyped(t)
    /\ given \in 0 .. Len(Stream[e])
    /\ got \in Nat
    /\ sent \in 0 .. Len(Stream[peer(e)])
    /\ InStep(e, t, given, got, sent)

\* the numbers that a handler may only raise
Grows(e, t, u) ==
    /\ SentBy(e, t) <= SentBy(e, u)
    /\ Len(t.byte_output) <= Len(u.byte_output)

\* what only an ACK, a handshake or a payload changes
Kept(t, u) ==
    /\ u.state = t.state
    /\ u.seq_base = t.seq_base
    /\ u.ack_base = t.ack_base
    /\ u.byte_output = t.byte_output

(* The types of the fields, and the order of the positions of a TCB.       *)
LEMMA Fields ==
    ASSUME NEW t, WellTyped(t)
    PROVE  /\ t.socket \subseteq Segment
           /\ t.byte_output \in Seq(Byte) /\ Len(t.byte_output) \in Nat
           /\ t.send_buffer \in Seq(Byte) /\ Len(t.send_buffer) \in Nat
           /\ t.send_window \in Seq(Byte) /\ Len(t.send_window) \in Nat
           /\ Len(t.send_window) <= WINDOW_SIZE
           /\ t.recv_window \in [Slot -> Byte \cup {None}]
           /\ t.seq_base \in SeqNum /\ t.ack_base \in SeqNum
           /\ t.unacked_segs \in Seq(Segment) /\ Len(t.unacked_segs) \in Nat
BY LenProperties DEF WellTyped, TCB

(* How the positions of the two ends are ordered: acknowledged, delivered, *)
(* sent, handed over; a window is the most that can be in flight.          *)
LEMMA Positions ==
    ASSUME NEW e \in Endpoint, NEW t, NEW given, NEW got, NEW sent,
           Holds(e, t, given, got, sent)
    PROVE  /\ AckedBy(e, t) \in Nat /\ SentBy(e, t) \in Nat
           /\ SentBy(e, t) = AckedBy(e, t) + Len(t.send_window)
           /\ AckedBy(e, t) <= got /\ got <= SentBy(e, t)
           /\ SentBy(e, t) <= given /\ given <= Len(Stream[e])
           /\ SentBy(e, t) <= got + WINDOW_SIZE
           /\ SentBy(e, t) + 2 * WINDOW_SIZE + 2 <= SEQ_SPACE
           /\ given \in Nat /\ got \in Nat /\ sent \in Nat
           /\ Len(t.byte_output) <= sent
           /\ sent + 2 * WINDOW_SIZE + 2 <= SEQ_SPACE
<1>1. /\ Len(t.send_window) \in Nat /\ Len(t.send_window) <= WINDOW_SIZE
      /\ Len(t.send_buffer) \in Nat /\ t.seq_base \in SeqNum
  BY Fields DEF Holds
<1>2. AckedBy(e, t) \in Nat
  BY <1>1, AckedProperties
<1>3. /\ SentBy(e, t) = AckedBy(e, t) + Len(t.send_window)
      /\ SentBy(e, t) + Len(t.send_buffer) = given
      /\ AckedBy(e, t) <= got /\ got <= SentBy(e, t)
      /\ Len(t.byte_output) <= sent
      /\ given \in 0 .. Len(Stream[e]) /\ got \in Nat /\ sent \in 0 .. Len(Stream[peer(e)])
  BY DEF Holds, InStep, SendSide, ReceiveSide, HoldsStream, SentBy
<1>4. /\ WINDOW_SIZE \in Nat /\ SEQ_SPACE \in Nat
      /\ \A f \in Endpoint : Len(Stream[f]) \in Nat
      /\ \A f \in Endpoint : Len(Stream[f]) + 2 * WINDOW_SIZE + 2 <= SEQ_SPACE
  BY Numbers
<1>5. Len(Stream[e]) \in Nat /\ Len(Stream[peer(e)]) \in Nat
  BY <1>4, PeerProperties
<1>6. SentBy(e, t) <= given /\ given <= Len(Stream[e]) /\ SentBy(e, t) \in Nat /\ given \in Nat
  <2>1. SentBy(e, t) \in Nat
    BY <1>1, <1>2, <1>3
  <2>2. given \in Nat /\ given <= Len(Stream[e])
    BY <1>3, <1>5
  <2>3. SentBy(e, t) <= given
    BY <1>1, <1>3, <2>1, <2>2
  <2>4. QED
    BY <2>1, <2>2, <2>3
<1>7. \A a, b \in Nat : a <= b /\ b + 2 * WINDOW_SIZE + 2 <= SEQ_SPACE =>
                          a + 2 * WINDOW_SIZE + 2 <= SEQ_SPACE
  BY <1>4
<1>8. SentBy(e, t) + 2 * WINDOW_SIZE + 2 <= SEQ_SPACE
  BY <1>4, <1>5, <1>6, <1>7
<1>9. sent \in Nat /\ sent <= Len(Stream[peer(e)])
  BY <1>3, <1>5
<1>10. sent + 2 * WINDOW_SIZE + 2 <= SEQ_SPACE
  BY <1>4, <1>5, <1>7, <1>9, PeerProperties
<1>11. SentBy(e, t) <= got + WINDOW_SIZE
  BY <1>1, <1>2, <1>3, <1>4
<1>12. QED
  BY <1>2, <1>3, <1>6, <1>8, <1>9, <1>10, <1>11

(* What is sound stays sound: the numbers it depends on only grow, and an  *)
(* endpoint that has closed keeps its last sequence number.                *)
LEMMA SoundStays ==
    ASSUME NEW e \in Endpoint, NEW t, NEW u, NEW seg,
           SentBy(e, t) \in Nat, SentBy(e, u) \in Nat,
           Len(t.byte_output) \in Nat, Len(u.byte_output) \in Nat,
           Grows(e, t, u),
           t.state = "Closed" => u.state = "Closed" /\ u.seq_base = t.seq_base,
           Sound(e, t, seg)
    PROVE  Sound(e, u, seg)
<1>1. CASE \E n \in 0 .. Len(t.byte_output) : seg = PureAck(e, n)
  BY <1>1 DEF Grows, Sound
<1>2. CASE \E i \in 0 .. SentBy(e, t) - 1 :
             \E n \in 1 .. min(MAX_PAYLOAD_SIZE, SentBy(e, t) - i) : seg = Data(e, i, n)
  <2>1. PICK i \in 0 .. SentBy(e, t) - 1 :
          \E n \in 1 .. min(MAX_PAYLOAD_SIZE, SentBy(e, t) - i) : seg = Data(e, i, n)
    BY <1>2
  <2>. PICK n \in 1 .. min(MAX_PAYLOAD_SIZE, SentBy(e, t) - i) : seg = Data(e, i, n)
    BY <2>1
  <2>2. /\ i \in 0 .. SentBy(e, u) - 1
        /\ n \in 1 .. min(MAX_PAYLOAD_SIZE, SentBy(e, u) - i)
    BY <2>1, Numbers DEF Grows, min
  <2>3. QED
    BY <2>2 DEF Sound
<1>3. CASE seg = Syn(e) \/ seg = SynAck(e) \/ (t.state = "Closed" /\ seg = Fin(t.seq_base))
  BY <1>3 DEF Sound
<1>4. QED
  BY <1>1, <1>2, <1>3 DEF Sound

(* A segment of the stream: its bytes are those of the stream, in place.   *)
LEMMA DataProperties ==
    ASSUME NEW e \in Endpoint, NEW i \in Nat, NEW n \in Nat, i + n <= Len(Stream[e])
    PROVE  /\ Data(e, i, n) \in Segment
           /\ Data(e, i, n).seq_num = At(e, i)
           /\ Data(e, i, n).flags = {}
           /\ Data(e, i, n).payload \in Seq(Byte)
           /\ Len(Data(e, i, n).payload) = n
           /\ \A j \in 1 .. n : Data(e, i, n).payload[j] = Stream[e][i + j]
<1> DEFINE bytes == SubSeq(Stream[e], i + 1, i + n)
<1>1. Stream[e] \in Seq(Byte) /\ Len(Stream[e]) \in Nat /\ i < SEQ_SPACE
  <2>1. \A a \in Nat : i + n <= a /\ a + 2 * WINDOW_SIZE + 2 <= SEQ_SPACE => i < SEQ_SPACE
    BY Numbers
  <2>2. QED
    BY <2>1, Numbers
<1>2. \A j \in i + 1 .. i + n : Stream[e][j] \in Byte
  BY <1>1, ElementOfSeq
<1>3. /\ bytes \in Seq(Byte)
      /\ Len(bytes) = IF i + 1 <= i + n THEN (i + n) - (i + 1) + 1 ELSE 0
      /\ \A j \in 1 .. (i + n) - (i + 1) + 1 : bytes[j] = Stream[e][(i + 1) + j - 1]
  <2>1. i + 1 \in Int /\ i + n \in Int
    OBVIOUS
  <2>2. QED
    BY <1>2, <2>1, SubSeqProperties
<1> HIDE DEF bytes
<1>4. Len(bytes) = n /\ \A j \in 1 .. n : bytes[j] = Stream[e][i + j]
  BY <1>3
<1>5. At(e, i) \in SeqNum
  BY <1>1, AtProperties
<1>6. Data(e, i, n) = [make_seg EXCEPT !.seq_num = At(e, i), !.payload = bytes]
  BY DEF Data, bytes
<1>7. Data(e, i, n) = [seq_num |-> At(e, i), ack_num |-> 0, flags |-> {}, payload |-> bytes]
  BY <1>6 DEF make_seg
<1>8. Data(e, i, n) \in Segment
  <2>1. 0 \in SeqNum
    BY Numbers
  <2>2. QED
    BY <1>3, <1>5, <1>7, <2>1, MakeSegType
<1>9. QED
  BY <1>3, <1>4, <1>7, <1>8

(* The other datagrams hold no bytes.                                      *)
LEMMA ControlProperties ==
    ASSUME NEW e \in Endpoint, NEW n \in Nat, n < SEQ_SPACE, NEW seq \in SeqNum
    PROVE  /\ Syn(e) = [seq_num |-> InitialSeq[e], ack_num |-> 0,
                        flags |-> {"SYN"}, payload |-> << >>]
           /\ SynAck(e) = [seq_num |-> InitialSeq[e], ack_num |-> At(peer(e), 0),
                           flags |-> {"SYN", "ACK"}, payload |-> << >>]
           /\ PureAck(e, n) = [seq_num |-> 0, ack_num |-> At(peer(e), n),
                               flags |-> {"ACK"}, payload |-> << >>]
           /\ Fin(seq) = [seq_num |-> seq, ack_num |-> 0,
                          flags |-> {"FIN"}, payload |-> << >>]
           /\ {Syn(e), SynAck(e), PureAck(e, n), Fin(seq)} \subseteq Segment
<1>1. /\ InitialSeq[e] \in SeqNum /\ 0 \in SeqNum
      /\ At(peer(e), 0) \in SeqNum /\ At(peer(e), n) \in SeqNum
      /\ At(peer(e), 0) = FirstSeq(peer(e))
  <2>1. 0 < SEQ_SPACE /\ 0 \in SeqNum
    BY Numbers
  <2>2. QED
    BY <2>1, Numbers, AtProperties, PeerProperties
<1>2. << >> \in Seq(Byte)
  BY EmptySeq
<1>3. {"SYN"} \subseteq Flag /\ {"SYN", "ACK"} \subseteq Flag /\ {"ACK"} \subseteq Flag /\ {"FIN"} \subseteq Flag
  BY DEF Flag
<1> DEFINE seg(s, a, f) == [seq_num |-> s, ack_num |-> a, flags |-> f, payload |-> << >>]
<1>4. ASSUME NEW s, NEW a, NEW f
      PROVE  /\ [make_seg EXCEPT !.flags = f, !.seq_num = s] = seg(s, 0, f)
             /\ [make_seg EXCEPT !.flags = f, !.ack_num = a] = seg(0, a, f)
  <2>1. [make_seg EXCEPT !.flags = f] = seg(0, 0, f)
    BY DEF make_seg
  <2>2. [seg(0, 0, f) EXCEPT !.seq_num = s] = seg(s, 0, f)
    OBVIOUS
  <2>3. [seg(0, 0, f) EXCEPT !.ack_num = a] = seg(0, a, f)
    OBVIOUS
  <2> HIDE DEF seg
  <2>4. QED
    BY <2>1, <2>2, <2>3
<1> HIDE DEF seg
<1>5. /\ Syn(e) = seg(InitialSeq[e], 0, {"SYN"})
      /\ SynAck(e) = seg(InitialSeq[e], At(peer(e), 0), {"SYN", "ACK"})
      /\ PureAck(e, n) = seg(0, At(peer(e), n), {"ACK"})
      /\ Fin(seq) = seg(seq, 0, {"FIN"})
  <2>1. Syn(e) = seg(InitialSeq[e], 0, {"SYN"})
    BY <1>4, Zenon DEF Syn
  <2>2. SynAck(e) = seg(InitialSeq[e], FirstSeq(peer(e)), {"SYN", "ACK"})
    <3> DEFINE flags == {"SYN", "ACK"}
    <3>1. SynAck(e) = [make_seg EXCEPT !.flags = flags, !.seq_num = InitialSeq[e],
                                       !.ack_num = FirstSeq(peer(e))]
      BY Zenon DEF SynAck
    <3> HIDE DEF flags
    <3>2. SynAck(e) = seg(InitialSeq[e], FirstSeq(peer(e)), flags)
      <4>1. [make_seg EXCEPT !.flags = flags, !.seq_num = InitialSeq[e]]
              = seg(InitialSeq[e], 0, flags)
        BY <1>4, Zenon
      <4>2. SynAck(e) = [[make_seg EXCEPT !.flags = flags, !.seq_num = InitialSeq[e]]
                           EXCEPT !.ack_num = FirstSeq(peer(e))]
        BY <3>1
      <4>3. [seg(InitialSeq[e], 0, flags) EXCEPT !.ack_num = FirstSeq(peer(e))]
              = seg(InitialSeq[e], FirstSeq(peer(e)), flags)
        BY DEF seg
      <4>4. QED
        BY <4>1, <4>2, <4>3
    <3>3. QED
      BY <3>2 DEF flags
  <2>3. PureAck(e, n) = seg(0, At(peer(e), n), {"ACK"})
    BY <1>4, Zenon DEF PureAck
  <2>4. Fin(seq) = seg(seq, 0, {"FIN"})
    BY <1>4, Zenon DEF Fin
  <2>5. QED
    BY <1>1, <2>1, <2>2, <2>3, <2>4
<1>6. Syn(e) \in Segment /\ SynAck(e) \in Segment /\ PureAck(e, n) \in Segment /\ Fin(seq) \in Segment
  BY <1>1, <1>2, <1>3, <1>5 DEF Segment, seg
<1>7. QED
  BY <1>5, <1>6 DEF seg

(* A sound datagram is a segment.                                          *)
LEMMA SoundIsSegment ==
    ASSUME NEW e \in Endpoint, NEW t, NEW given, NEW got, NEW sent,
           Holds(e, t, given, got, sent), NEW seg, Sound(e, t, seg)
    PROVE  seg \in Segment
<1>1. /\ SentBy(e, t) \in Nat /\ SentBy(e, t) <= Len(Stream[e])
      /\ Len(t.byte_output) \in Nat /\ Len(t.byte_output) < SEQ_SPACE
      /\ t.seq_base \in SeqNum
  <2>1. /\ Len(t.byte_output) \in Nat /\ sent \in Nat /\ Len(t.byte_output) <= sent
        /\ sent + 2 * WINDOW_SIZE + 2 <= SEQ_SPACE /\ t.seq_base \in SeqNum
        /\ WINDOW_SIZE \in Nat /\ SEQ_SPACE \in Nat
    BY Fields, Positions, Numbers DEF Holds
  <2>2. Len(t.byte_output) < SEQ_SPACE
    BY <2>1
  <2>3. /\ SentBy(e, t) \in Nat /\ given \in Nat /\ Len(Stream[e]) \in Nat
        /\ SentBy(e, t) <= given /\ given <= Len(Stream[e])
    BY Positions, Numbers
  <2>4. SentBy(e, t) <= Len(Stream[e])
    BY <2>3
  <2>5. QED
    BY <2>1, <2>2, <2>3, <2>4
<1>2. CASE \E n \in 0 .. Len(t.byte_output) : seg = PureAck(e, n)
  <2>1. PICK n \in 0 .. Len(t.byte_output) : seg = PureAck(e, n)
    BY <1>2
  <2>2. n \in Nat /\ n < SEQ_SPACE
    BY <1>1, Numbers
  <2>3. QED
    BY <1>1, <2>1, <2>2, ControlProperties
<1>3. CASE \E i \in 0 .. SentBy(e, t) - 1 :
             \E n \in 1 .. min(MAX_PAYLOAD_SIZE, SentBy(e, t) - i) : seg = Data(e, i, n)
  <2>1. PICK i \in 0 .. SentBy(e, t) - 1 :
          \E n \in 1 .. min(MAX_PAYLOAD_SIZE, SentBy(e, t) - i) : seg = Data(e, i, n)
    BY <1>3
  <2>2. PICK n \in 1 .. min(MAX_PAYLOAD_SIZE, SentBy(e, t) - i) : seg = Data(e, i, n)
    BY <2>1
  <2>3. i \in Nat /\ n \in Nat /\ i + n <= Len(Stream[e])
    BY <1>1, <2>1, <2>2, Numbers DEF min
  <2>4. QED
    BY <2>2, <2>3, DataProperties
<1>4. CASE seg = Syn(e) \/ seg = SynAck(e) \/ seg = Fin(t.seq_base)
  <2>1. 0 \in Nat /\ 0 < SEQ_SPACE
    BY Numbers
  <2>2. QED
    BY <1>1, <1>4, <2>1, ControlProperties
<1>5. QED
  BY <1>2, <1>3, <1>4 DEF Sound

(* What the receiver may rely on in a datagram of its peer, which has been *)
(* given `got' bytes and has sent `sent'.                                  *)
Incoming(e, seg, got, sent) ==
    /\ seg \in Segment
    /\ "ACK" \in seg.flags => \E n \in 0 .. got : seg.ack_num = At(e, n)
    /\ "SYN" \in seg.flags => seg.seq_num = InitialSeq[peer(e)]
    /\ seg.flags # {} => seg.payload = << >>
    /\ seg.payload # << >> => \E i \in Nat :
         /\ seg.seq_num = At(peer(e), i)
         /\ i + Len(seg.payload) <= sent
         /\ \A j \in 1 .. Len(seg.payload) : seg.payload[j] = Stream[peer(e)][i + j]

(* What the peer may have in flight is what an endpoint can deal with.     *)
LEMMA SoundIsIncoming ==
    ASSUME NEW e \in Endpoint, NEW t, NEW given, NEW got, NEW sent,
           Holds(peer(e), t, given, got, sent), NEW seg, Sound(peer(e), t, seg)
    PROVE  Incoming(e, seg, Len(t.byte_output), SentBy(peer(e), t))
<1>1. /\ peer(e) \in Endpoint /\ peer(peer(e)) = e
      /\ seg \in Segment
  BY PeerProperties, SoundIsSegment
<1>2. /\ SentBy(peer(e), t) \in Nat /\ SentBy(peer(e), t) <= Len(Stream[peer(e)])
      /\ Len(t.byte_output) \in Nat /\ Len(t.byte_output) < SEQ_SPACE
      /\ t.seq_base \in SeqNum
  <2>1. /\ Len(t.byte_output) \in Nat /\ sent \in Nat /\ Len(t.byte_output) <= sent
        /\ sent + 2 * WINDOW_SIZE + 2 <= SEQ_SPACE /\ t.seq_base \in SeqNum
        /\ WINDOW_SIZE \in Nat /\ SEQ_SPACE \in Nat
    BY <1>1, Fields, Positions, Numbers DEF Holds
  <2>2. Len(t.byte_output) < SEQ_SPACE
    BY <2>1
  <2>3. /\ SentBy(peer(e), t) \in Nat /\ given \in Nat /\ Len(Stream[peer(e)]) \in Nat
        /\ SentBy(peer(e), t) <= given /\ given <= Len(Stream[peer(e)])
    BY <1>1, Positions, Numbers
  <2>4. SentBy(peer(e), t) <= Len(Stream[peer(e)])
    BY <2>3
  <2>5. QED
    BY <2>1, <2>2, <2>3, <2>4
<1>3. ASSUME NEW n \in 0 .. Len(t.byte_output), seg = PureAck(peer(e), n)
      PROVE  Incoming(e, seg, Len(t.byte_output), SentBy(peer(e), t))
  <2>1. n \in Nat /\ n < SEQ_SPACE
    BY <1>2, Numbers
  <2>2. seg = [seq_num |-> 0, ack_num |-> At(e, n), flags |-> {"ACK"}, payload |-> << >>]
    BY <1>1, <1>2, <1>3, <2>1, ControlProperties
  <2>3. QED
    BY <1>1, <1>3, <2>2 DEF Incoming
<1>4. ASSUME NEW i \in 0 .. SentBy(peer(e), t) - 1,
             NEW n \in 1 .. min(MAX_PAYLOAD_SIZE, SentBy(peer(e), t) - i),
             seg = Data(peer(e), i, n)
      PROVE  Incoming(e, seg, Len(t.byte_output), SentBy(peer(e), t))
  <2>1. i \in Nat /\ n \in Nat /\ i + n <= SentBy(peer(e), t) /\ i + n <= Len(Stream[peer(e)])
    BY <1>2, Numbers DEF min
  <2>2. /\ seg.seq_num = At(peer(e), i) /\ seg.flags = {} /\ Len(seg.payload) = n
        /\ \A j \in 1 .. n : seg.payload[j] = Stream[peer(e)][i + j]
    <3> DEFINE p == peer(e)
    <3>1. p \in Endpoint /\ i + n <= Len(Stream[p]) /\ seg = Data(p, i, n)
      BY <1>1, <1>4, <2>1
    <3> HIDE DEF p
    <3>2. /\ seg.seq_num = At(p, i) /\ seg.flags = {} /\ Len(seg.payload) = n
          /\ \A j \in 1 .. n : seg.payload[j] = Stream[p][i + j]
      BY <2>1, <3>1, DataProperties
    <3>3. QED
      BY <3>2 DEF p
  <2>3. QED
    BY <1>1, <2>1, <2>2 DEF Incoming
<1>5. CASE \/ seg = Syn(peer(e)) \/ seg = SynAck(peer(e)) \/ seg = Fin(t.seq_base)
  <2>1. 0 \in Nat /\ 0 < SEQ_SPACE
    BY Numbers
  <2>2. /\ Syn(peer(e)) = [seq_num |-> InitialSeq[peer(e)], ack_num |-> 0,
                           flags |-> {"SYN"}, payload |-> << >>]
        /\ SynAck(peer(e)) = [seq_num |-> InitialSeq[peer(e)], ack_num |-> At(e, 0),
                              flags |-> {"SYN", "ACK"}, payload |-> << >>]
        /\ Fin(t.seq_base) = [seq_num |-> t.seq_base, ack_num |-> 0,
                              flags |-> {"FIN"}, payload |-> << >>]
    BY <1>1, <1>2, <2>1, ControlProperties
  <2>3. 0 \in 0 .. Len(t.byte_output)
    BY <1>2
  <2>4. QED
    BY <1>1, <1>5, <2>2, <2>3 DEF Incoming
<1>6. QED
  <2>1. CASE \E n \in 0 .. Len(t.byte_output) : seg = PureAck(peer(e), n)
    BY <1>3, <2>1
  <2>2. CASE \E i \in 0 .. SentBy(peer(e), t) - 1 :
               \E n \in 1 .. min(MAX_PAYLOAD_SIZE, SentBy(peer(e), t) - i) :
                  seg = Data(peer(e), i, n)
    BY <1>4, <2>2
  <2>3. QED
    BY <1>5, <2>1, <2>2 DEF Sound

-----------------------------------------------------------------------------
(* Sending: the handlers that only queue and send.                         *)

\* t and u differ in their datagrams and in dupe_acks at most
SameButOutput(t, u) ==
    /\ u.state = t.state
    /\ u.byte_output = t.byte_output
    /\ u.send_buffer = t.send_buffer
    /\ u.send_window = t.send_window
    /\ u.recv_window = t.recv_window
    /\ u.seq_base = t.seq_base
    /\ u.ack_base = t.ack_base

(* Sending, queueing and losing sound datagrams disturbs nothing.          *)
LEMMA OutputStep ==
    ASSUME NEW e \in Endpoint, NEW t, NEW given, NEW got, NEW sent,
           Holds(e, t, given, got, sent), NEW u, WellTyped(u), SameButOutput(t, u),
           \A seg \in u.socket : Sound(e, t, seg),
           \A k \in 1 .. Len(u.unacked_segs) : Sound(e, t, u.unacked_segs[k])
    PROVE  Holds(e, u, given, got, sent) /\ Grows(e, t, u)
<1>1. AckedBy(e, u) = AckedBy(e, t) /\ SentBy(e, u) = SentBy(e, t)
  BY DEF SameButOutput, AckedBy, SentBy
<1>2. /\ SentBy(e, t) \in Nat /\ Len(t.byte_output) \in Nat
  BY Positions, Fields DEF Holds
<1>3. Grows(e, t, u)
  BY <1>1, <1>2 DEF Grows, SameButOutput
<1>4. \A seg : Sound(e, t, seg) => Sound(e, u, seg)
  BY <1>1, <1>2, <1>3, SoundStays DEF SameButOutput
<1>5. SoundOutput(e, u)
  BY <1>4 DEF SoundOutput
<1>6. Phase(e, u)
  BY <1>1 DEF Holds, InStep, Phase, Greeting, SameButOutput
<1>7. SendSide(e, u, given)
  BY <1>1 DEF Holds, InStep, SendSide, SameButOutput
<1>8. ReceiveSide(e, u, sent)
  BY DEF Holds, InStep, ReceiveSide, HoldsStream, SameButOutput
<1>9. QED
  BY <1>1, <1>3, <1>5, <1>6, <1>7, <1>8 DEF Holds, InStep

(* Two handlers in a row, as in handle_seg, let an endpoint grow once.     *)
LEMMA GrowsTwice ==
    ASSUME NEW e \in Endpoint, NEW t, NEW v, NEW u, NEW given, NEW got, NEW sent,
           Holds(e, t, given, got, sent), Holds(e, v, given, got, sent),
           Holds(e, u, given, got, sent), Grows(e, t, v), Grows(e, v, u)
    PROVE  Grows(e, t, u)
<1>1. /\ SentBy(e, t) \in Nat /\ SentBy(e, v) \in Nat /\ SentBy(e, u) \in Nat
      /\ Len(t.byte_output) \in Nat /\ Len(v.byte_output) \in Nat /\ Len(u.byte_output) \in Nat
  BY Positions, Fields DEF Holds
<1>2. QED
  BY <1>1 DEF Grows

(* A handler that does nothing lets an endpoint grow by nothing.           *)
LEMMA GrowsNot ==
    ASSUME NEW e \in Endpoint, NEW t, NEW given, NEW got, NEW sent,
           Holds(e, t, given, got, sent)
    PROVE  Grows(e, t, t)
BY Positions, Fields DEF Holds, Grows

(* Sending a sound datagram, queued or not, keeps the invariant (send_seg, *)
(* resend_seg, tcp.rs 309-326).                                            *)
LEMMA SendSegStep ==
    ASSUME NEW e \in Endpoint, NEW t, NEW given, NEW got, NEW sent,
           Holds(e, t, given, got, sent), NEW seg, Sound(e, t, seg)
    PROVE  /\ Holds(e, resend_seg(t, seg), given, got, sent)
           /\ Grows(e, t, resend_seg(t, seg))
           /\ Holds(e, send_seg(t, seg), given, got, sent)
           /\ Grows(e, t, send_seg(t, seg))
<1> DEFINE u == resend_seg(t, seg)
           v == send_seg(t, seg)
<1>1. /\ WellTyped(t) /\ seg \in Segment /\ t.unacked_segs \in Seq(Segment)
      /\ Len(t.unacked_segs) \in Nat
      /\ \A s \in t.socket : Sound(e, t, s)
      /\ \A k \in 1 .. Len(t.unacked_segs) : Sound(e, t, t.unacked_segs[k])
  BY SoundIsSegment, Fields DEF Holds, InStep, SoundOutput
<1>2. WellTyped(u) /\ WellTyped(v)
  BY <1>1, ResendSegType, SendSegType
<1>3. SameButOutput(t, u) /\ u.socket = t.socket \cup {seg} /\ u.unacked_segs = t.unacked_segs
  BY <1>1 DEF WellTyped, TCB, resend_seg, SameButOutput
<1>4. /\ SameButOutput(t, v) /\ v.socket = t.socket \cup {seg}
      /\ v.unacked_segs = Append(t.unacked_segs, seg)
  BY <1>1 DEF WellTyped, TCB, send_seg, resend_seg, SameButOutput
<1> HIDE DEF u, v
<1>5. Holds(e, u, given, got, sent) /\ Grows(e, t, u)
  BY <1>1, <1>2, <1>3, OutputStep
<1>6. \A k \in 1 .. Len(v.unacked_segs) : Sound(e, t, v.unacked_segs[k])
  BY <1>1, <1>4, AppendProperties
<1>7. Holds(e, v, given, got, sent) /\ Grows(e, t, v)
  BY <1>1, <1>2, <1>4, <1>6, OutputStep
<1>8. QED
  BY <1>5, <1>7 DEF u, v

(* So does sending the oldest one again (handle_resend, tcp.rs 302-307).   *)
LEMMA HandleResendStep ==
    ASSUME NEW e \in Endpoint, NEW t, NEW given, NEW got, NEW sent,
           Holds(e, t, given, got, sent)
    PROVE  /\ Holds(e, handle_resend(t), given, got, sent)
           /\ Grows(e, t, handle_resend(t))
<1>1. Grows(e, t, t)
  BY GrowsNot
<1>2. CASE t.unacked_segs = << >>
  BY <1>1, <1>2 DEF handle_resend
<1>3. CASE t.unacked_segs # << >>
  <2>1. t.unacked_segs \in Seq(Segment)
    BY Fields DEF Holds
  <2>2. Len(t.unacked_segs) \in Nat \ {0}
    BY <1>3, <2>1, EmptySeq
  <2>3. Head(t.unacked_segs) = t.unacked_segs[1]
    BY <1>3, <2>1
  <2>4. Sound(e, t, Head(t.unacked_segs))
    BY <2>2, <2>3 DEF Holds, InStep, SoundOutput
  <2>5. QED
    BY <1>3, <2>4, SendSegStep DEF handle_resend
<1>4. QED
  BY <1>2, <1>3

\* t and u differ in their state and in ack_base at most
SameButState(t, u) ==
    /\ u.socket = t.socket
    /\ u.unacked_segs = t.unacked_segs
    /\ u.byte_output = t.byte_output
    /\ u.send_buffer = t.send_buffer
    /\ u.send_window = t.send_window
    /\ u.recv_window = t.recv_window
    /\ u.seq_base = t.seq_base

(* A change of state is right if what Phase asks of the new state holds.   *)
LEMMA StateStep ==
    ASSUME NEW e \in Endpoint, NEW t, NEW given, NEW got, NEW sent,
           Holds(e, t, given, got, sent), NEW u, WellTyped(u), SameButState(t, u),
           t.state # "Closed", Phase(e, u)
    PROVE  Holds(e, u, given, got, sent) /\ Grows(e, t, u)
<1>1. AckedBy(e, u) = AckedBy(e, t) /\ SentBy(e, u) = SentBy(e, t)
  BY DEF SameButState, AckedBy, SentBy
<1>2. /\ SentBy(e, t) \in Nat /\ Len(t.byte_output) \in Nat
  BY Positions, Fields DEF Holds
<1>3. Grows(e, t, u)
  BY <1>1, <1>2 DEF Grows, SameButState
<1>4. \A seg : Sound(e, t, seg) => Sound(e, u, seg)
  BY <1>1, <1>2, <1>3, SoundStays DEF SameButState
<1>5. SoundOutput(e, u)
  BY <1>4 DEF Holds, InStep, SoundOutput, SameButState
<1>6. SendSide(e, u, given)
  BY <1>1 DEF Holds, InStep, SendSide, SameButState
<1>7. ReceiveSide(e, u, sent)
  BY DEF Holds, InStep, ReceiveSide, HoldsStream, SameButState
<1>8. QED
  BY <1>1, <1>3, <1>5, <1>6, <1>7 DEF Holds, InStep

(* So does the SYN of a client in Listen (send_syn).                       *)
LEMMA SendSynStep ==
    ASSUME NEW e \in Endpoint, NEW t, NEW given, NEW got, NEW sent,
           Holds(e, t, given, got, sent), t.state = "Listen"
    PROVE  Holds(e, send_syn(t), given, got, sent) /\ Grows(e, t, send_syn(t))
<1> DEFINE v == send_seg(t, Syn(e))
           u == send_syn(t)
<1>1. Holds(e, v, given, got, sent) /\ Grows(e, t, v)
  BY SendSegStep DEF Sound
<1>2. WellTyped(u) /\ WellTyped(v)
  BY <1>1, SendSynType DEF Holds
<1>3. u = [v EXCEPT !.state = "SynSent"]
  BY DEF Holds, InStep, Phase, send_syn, Syn
<1>4. v.state = "Listen" /\ v.seq_base = t.seq_base
  BY DEF Holds, WellTyped, TCB, send_seg, resend_seg
<1> HIDE DEF v, u
<1>5. SameButState(v, u) /\ u.state = "SynSent" /\ u.ack_base = v.ack_base
  BY <1>2, <1>3 DEF WellTyped, TCB, SameButState
<1>6. Phase(e, u)
  BY <1>1, <1>4, <1>5 DEF Holds, InStep, Phase, Greeting, SameButState, AckedBy
<1>7. Holds(e, u, given, got, sent) /\ Grows(e, v, u)
  BY <1>1, <1>2, <1>4, <1>5, <1>6, StateStep
<1>8. Grows(e, t, u)
  BY <1>1, <1>7, GrowsTwice
<1>9. QED
  BY <1>7, <1>8 DEF u

(* Closing: the FIN follows what has been acknowledged, whatever is still  *)
(* in the window.                                                          *)
LEMMA SendCloseStep ==
    ASSUME NEW e \in Endpoint, NEW t, NEW given, NEW got, NEW sent,
           Holds(e, t, given, got, sent), t.state # "Closed"
    PROVE  Holds(e, send_close(t), given, got, sent) /\ Grows(e, t, send_close(t))
<1> DEFINE v == [t EXCEPT !.state = "Closed"]
           fin == Fin(v.seq_base)
<1>1. WellTyped(v) /\ SameButState(t, v) /\ v.state = "Closed"
  BY DEF Holds, WellTyped, TCB, TCBState, SameButState
<1>2. send_close(t) = send_seg(v, fin)
  BY DEF Holds, WellTyped, TCB, send_close, send_seg, resend_seg, Fin
<1> HIDE DEF v
<1>3. Phase(e, v)
  BY <1>1 DEF Phase, Greeting
<1>4. Holds(e, v, given, got, sent) /\ Grows(e, t, v)
  BY <1>1, <1>3, StateStep
<1>5. Sound(e, v, fin)
  BY <1>1 DEF Sound
<1> HIDE DEF fin
<1>6. Holds(e, send_seg(v, fin), given, got, sent) /\ Grows(e, v, send_seg(v, fin))
  BY <1>4, <1>5, SendSegStep
<1>7. Grows(e, t, send_close(t))
  BY <1>2, <1>4, <1>6, GrowsTwice
<1>8. QED
  BY <1>2, <1>6, <1>7

(* The segments of send_data are segments of the stream: when `data' is    *)
(* the stream from byte `first' on, so are the payloads it is cut into.    *)
LEMMA SegmentIsData ==
    ASSUME NEW e \in Endpoint, NEW first \in Nat, NEW data \in Seq(Byte),
           first + Len(data) <= Len(Stream[e]),
           \A i \in 1 .. Len(data) : data[i] = Stream[e][first + i],
           NEW m \in Nat, m < Len(data), NEW upto,
           upto = min(m + MAX_PAYLOAD_SIZE, Len(data))
    PROVE  /\ SubSeq(data, m + 1, upto) = SubSeq(Stream[e], first + m + 1, first + upto)
           /\ wrapping_add(At(e, first), m) = At(e, first + m)
           /\ upto - m \in 1 .. min(MAX_PAYLOAD_SIZE, Len(data) - m)
<1>1. Len(data) \in Nat /\ MAX_PAYLOAD_SIZE \in Nat /\ 1 <= MAX_PAYLOAD_SIZE
  BY LenProperties, Numbers
<1>2. upto \in Nat /\ m < upto /\ upto <= Len(data) /\ upto - m <= MAX_PAYLOAD_SIZE
  BY <1>1 DEF min
<1>3. upto - m \in 1 .. min(MAX_PAYLOAD_SIZE, Len(data) - m)
  BY <1>1, <1>2 DEF min
<1>4. /\ Stream[e] \in Seq(Byte) /\ Len(Stream[e]) \in Nat
      /\ Len(Stream[e]) + 2 * WINDOW_SIZE + 2 <= SEQ_SPACE
      /\ WINDOW_SIZE \in Nat /\ SEQ_SPACE \in Nat
  BY Numbers
<1>5. wrapping_add(At(e, first), m) = At(e, first + m)
  <2>1. first + m < Len(Stream[e])
    BY <1>1, <1>4
  <2>2. Len(Stream[e]) < SEQ_SPACE
    BY Numbers
  <2>3. first < SEQ_SPACE /\ first + m < SEQ_SPACE
    BY <1>4, <2>1, <2>2
  <2>4. QED
    BY <2>3, AtProperties
<1> DEFINE a == SubSeq(data, m + 1, upto)
           b == SubSeq(Stream[e], first + m + 1, first + upto)
<1>6. /\ a \in Seq(Byte) /\ Len(a) = upto - m
      /\ \A i \in 1 .. upto - m : a[i] = data[m + i]
  <2>1. \A i \in m + 1 .. upto : data[i] \in Byte
    BY <1>1, <1>2, ElementOfSeq
  <2>2. m + 1 \in Int /\ upto \in Int
    BY <1>2
  <2>3. /\ a \in Seq(Byte) /\ Len(a) = IF m + 1 <= upto THEN upto - (m + 1) + 1 ELSE 0
        /\ \A i \in 1 .. upto - (m + 1) + 1 : a[i] = data[(m + 1) + i - 1]
    BY <2>1, <2>2, SubSeqProperties
  <2> HIDE DEF a
  <2>4. QED
    BY <1>2, <2>3
<1>7. /\ b \in Seq(Byte) /\ Len(b) = upto - m
      /\ \A i \in 1 .. upto - m : b[i] = Stream[e][first + m + i]
  <2>1. \A i \in first + m + 1 .. first + upto : Stream[e][i] \in Byte
    <3>1. \A i \in first + m + 1 .. first + upto : i \in 1 .. Len(Stream[e])
      BY <1>1, <1>2, <1>4
    <3>2. QED
      BY <1>4, <3>1, ElementOfSeq
  <2>2. first + m + 1 \in Int /\ first + upto \in Int
    BY <1>2
  <2>3. /\ b \in Seq(Byte)
        /\ Len(b) = IF first + m + 1 <= first + upto
                    THEN (first + upto) - (first + m + 1) + 1 ELSE 0
        /\ \A i \in 1 .. (first + upto) - (first + m + 1) + 1 :
             b[i] = Stream[e][(first + m + 1) + i - 1]
    BY <2>1, <2>2, SubSeqProperties
  <2>4. /\ first + m + 1 <= first + upto
        /\ (first + upto) - (first + m + 1) + 1 = upto - m
        /\ \A i \in 1 .. upto - m : (first + m + 1) + i - 1 = first + m + i
    BY <1>2
  <2> HIDE DEF b
  <2>5. QED
    BY <2>3, <2>4
<1>8. \A i \in 1 .. upto - m : a[i] = b[i]
  <2> HIDE DEF a, b
  <2> TAKE i \in 1 .. upto - m
  <2>1. m + i \in 1 .. Len(data) /\ first + (m + i) = first + m + i
    BY <1>1, <1>2
  <2>2. QED
    BY <1>6, <1>7, <2>1
<1>9. a = b
  <2> HIDE DEF a, b
  <2>1. QED
    BY <1>6, <1>7, <1>8, SeqEqual
<1>10. QED
  BY <1>3, <1>5, <1>9

\* what fill_send_window sends: the next bytes, in full segments but for the last
Sends(e, t, u) ==
    LET start(k) == (k - 1) * MAX_PAYLOAD_SIZE
        amt == SentBy(e, u) - SentBy(e, t)
    IN  \E segs \in Seq(Segment) :
          /\ u.unacked_segs = t.unacked_segs \o segs
          /\ u.socket = t.socket \cup {segs[k] : k \in 1 .. Len(segs)}
          /\ amt <= Len(segs) * MAX_PAYLOAD_SIZE
          /\ \A k \in 1 .. Len(segs) :
               /\ start(k) \in Nat /\ start(k) < amt
               /\ segs[k] = Data(e, SentBy(e, t) + start(k),
                                 min(start(k) + MAX_PAYLOAD_SIZE, amt) - start(k))

(* fill_send_window moves bytes from the buffer to the window, and sends   *)
(* them at the numbers that follow what was sent before.                   *)
LEMMA FillSendWindowStep ==
    ASSUME NEW e \in Endpoint, NEW t, NEW given, NEW got, NEW sent,
           Holds(e, t, given, got, sent)
    PROVE  /\ Holds(e, fill_send_window(t), given, got, sent)
           /\ Grows(e, t, fill_send_window(t))
           /\ Kept(t, fill_send_window(t))
           /\ t.state = "Estab" => Sends(e, t, fill_send_window(t))
<1> DEFINE u == fill_send_window(t)
           amt == send_amt(t)
           data == Taken(t.send_buffer, amt)
           rest == Dropped(t.send_buffer, amt)
           window == t.send_window \o data
           n == SegmentsFor(Len(data))
           first == SentBy(e, t)
           next_seq == wrapping_add(t.seq_base, Len(t.send_window))
           start(k) == (k - 1) * MAX_PAYLOAD_SIZE
           upto(k) == min(start(k) + MAX_PAYLOAD_SIZE, Len(data))
           seg(k) == [make_seg EXCEPT !.seq_num = wrapping_add(next_seq, start(k)),
                                      !.payload = SubSeq(data, start(k) + 1, upto(k))]
           segs == [k \in 1 .. n |-> seg(k)]
<1>1. CASE t.state # "Estab"
  BY <1>1, GrowsNot DEF fill_send_window, Kept
<1>2. CASE t.state = "Estab"
  <2>1. /\ WellTyped(t) /\ WellTyped(u)
        /\ t.send_buffer \in Seq(Byte) /\ t.send_window \in Seq(Byte)
        /\ Len(t.send_buffer) \in Nat /\ Len(t.send_window) \in Nat
        /\ Len(t.send_window) <= WINDOW_SIZE
        /\ t.unacked_segs \in Seq(Segment) /\ Len(t.unacked_segs) \in Nat
    BY FillSendWindowType, Fields DEF Holds
  <2>2. /\ first \in Nat /\ AckedBy(e, t) \in Nat /\ given \in Nat /\ got \in Nat
        /\ Len(t.send_buffer) \in Nat /\ Len(t.send_window) \in Nat
        /\ Len(Stream[e]) \in Nat /\ SEQ_SPACE \in Nat
    BY <2>1, Positions, Numbers
  <2>window. first = AckedBy(e, t) + Len(t.send_window)
    BY DEF SentBy
  <2>buffer. first + Len(t.send_buffer) = given /\ given <= Len(Stream[e])
    BY Positions DEF Holds, InStep, SendSide
  <2>got. AckedBy(e, t) <= got /\ got <= first
    BY Positions
  <2>space. Len(Stream[e]) < SEQ_SPACE /\ first < SEQ_SPACE /\ AckedBy(e, t) < SEQ_SPACE
    <3>1. Len(Stream[e]) < SEQ_SPACE
      BY Numbers
    <3>2. first <= given /\ given <= Len(Stream[e])
      BY Positions
    <3> HIDE DEF first
    <3>3. first < SEQ_SPACE
      BY <2>2, <3>1, <3>2
    <3>4. AckedBy(e, t) <= first
      BY <2>2, <2>window
    <3>5. QED
      BY <2>2, <3>1, <3>3, <3>4
  <2>sides. /\ \A i \in 1 .. Len(t.send_window) : t.send_window[i] = Stream[e][AckedBy(e, t) + i]
        /\ \A i \in 1 .. Len(t.send_buffer) : t.send_buffer[i] = Stream[e][first + i]
    BY DEF Holds, InStep, SendSide
  <2> HIDE DEF u, first
  <2>3. amt \in 0 .. Len(t.send_buffer)
    <3>1. \A a \in Nat, b \in Nat : b <= WINDOW_SIZE => min(a, WINDOW_SIZE - b) \in 0 .. a
      BY Numbers DEF min
    <3>2. QED
      BY <2>1, <3>1 DEF send_amt
  <2> HIDE DEF amt
  <2>room. amt \in Nat /\ amt <= Len(t.send_buffer) /\ first + amt <= Len(Stream[e])
    <3>1. amt \in Nat /\ amt <= Len(t.send_buffer)
      BY <2>2, <2>3
    <3>2. QED
      BY <2>2, <2>buffer, <3>1
  <2>4. /\ data \in Seq(Byte) /\ Len(data) = amt
        /\ \A i \in 1 .. amt : data[i] = t.send_buffer[i]
        /\ rest \in Seq(Byte) /\ Len(rest) = Len(t.send_buffer) - amt
        /\ \A i \in 1 .. Len(t.send_buffer) - amt : rest[i] = t.send_buffer[amt + i]
    <3>1. t.send_buffer \in Seq(Byte)
      BY <2>1
    <3>2. /\ Taken(t.send_buffer, amt) \in Seq(Byte) /\ Len(Taken(t.send_buffer, amt)) = amt
          /\ \A i \in 1 .. amt : Taken(t.send_buffer, amt)[i] = t.send_buffer[i]
      BY <2>3, <3>1, DrainProperties
    <3>3. /\ Dropped(t.send_buffer, amt) \in Seq(Byte)
          /\ Len(Dropped(t.send_buffer, amt)) = Len(t.send_buffer) - amt
          /\ \A i \in 1 .. Len(t.send_buffer) - amt :
               Dropped(t.send_buffer, amt)[i] = t.send_buffer[amt + i]
      BY <2>3, <3>1, DrainProperties, ZenonT(40)
    <3>4. QED
      BY <3>2, <3>3
  <2> HIDE DEF data, rest
  <2>5. /\ window \in Seq(Byte) /\ Len(window) = Len(t.send_window) + amt
        /\ \A i \in 1 .. Len(t.send_window) + amt :
             window[i] = IF i <= Len(t.send_window) THEN t.send_window[i]
                         ELSE data[i - Len(t.send_window)]
    BY <2>1, <2>4, ConcatProperties, ZenonT(40)
  <2> HIDE DEF window
  <2>6. n \in Nat /\ \A k \in 1 .. n : start(k) \in Nat /\ start(k) < Len(data)
    <3>1. Len(data) \in Nat
      BY <2>4, <2>room
    <3>2. n \in 0 .. Len(data) /\ \A k \in 1 .. n : start(k) < Len(data)
      BY <3>1, SegmentsForProperties
    <3> HIDE DEF n
    <3>3. n \in Nat
      BY <3>1, <3>2
    <3>4. \A k \in 1 .. n : start(k) \in Nat
      BY <3>3, Numbers
    <3>5. QED
      BY <3>2, <3>3, <3>4
  <2> HIDE DEF n
  <2>7. next_seq = At(e, first)
    <3>1. t.seq_base = At(e, AckedBy(e, t))
      BY <1>2, <2>1, AckedProperties, Fields DEF Holds, InStep, Phase
    <3>2. AckedBy(e, t) < SEQ_SPACE /\ AckedBy(e, t) + Len(t.send_window) < SEQ_SPACE
      BY <2>window, <2>space
    <3>3. wrapping_add(At(e, AckedBy(e, t)), Len(t.send_window)) = At(e, first)
      BY <2>2, <2>window, <3>2, AtProperties
    <3>4. QED
      BY <3>1, <3>3 DEF next_seq
  <2> HIDE DEF next_seq
  <2>8. \A k \in 1 .. n :
          /\ seg(k) = Data(e, first + start(k), upto(k) - start(k))
          /\ upto(k) - start(k) \in 1 .. min(MAX_PAYLOAD_SIZE, amt - start(k))
    <3> TAKE k \in 1 .. n
    <3>1. start(k) \in Nat /\ start(k) < Len(data)
      BY <2>6
    <3> HIDE DEF start
    <3>2. \A i \in 1 .. Len(data) : data[i] = Stream[e][first + i]
      <4>1. \A i \in 1 .. Len(data) : i \in 1 .. Len(t.send_buffer) /\ i \in 1 .. amt
        BY <2>2, <2>4, <2>room
      <4>2. QED
        BY <2>4, <2>sides, <4>1
    <3>3. first + Len(data) <= Len(Stream[e])
      BY <2>4, <2>room
    <3>4. upto(k) = min(start(k) + MAX_PAYLOAD_SIZE, Len(data))
      OBVIOUS
    <3> HIDE DEF upto
    <3>5. /\ SubSeq(data, start(k) + 1, upto(k))
               = SubSeq(Stream[e], first + start(k) + 1, first + upto(k))
          /\ wrapping_add(At(e, first), start(k)) = At(e, first + start(k))
          /\ upto(k) - start(k) \in 1 .. min(MAX_PAYLOAD_SIZE, Len(data) - start(k))
      BY <2>2, <2>4, <3>1, <3>2, <3>3, <3>4, SegmentIsData
    <3>6. upto(k) \in Int /\ first + upto(k) = first + start(k) + (upto(k) - start(k))
      <4>1. upto(k) \in Int
        BY <2>4, <2>room, <3>1, <3>4, Numbers DEF min
      <4>2. QED
        BY <2>2, <3>1, <4>1
    <3>7. seg(k) = Data(e, first + start(k), upto(k) - start(k))
      BY <2>7, <3>5, <3>6 DEF Data
    <3>8. QED
      BY <2>4, <3>5, <3>7
  <2>9. \A k \in 1 .. n : seg(k) \in Segment
    <3> TAKE k \in 1 .. n
    <3>1. /\ start(k) \in Nat /\ start(k) < Len(data)
          /\ upto(k) - start(k) \in 1 .. min(MAX_PAYLOAD_SIZE, amt - start(k))
          /\ seg(k) = Data(e, first + start(k), upto(k) - start(k))
      BY <2>6, <2>8
    <3> HIDE DEF start, upto, seg
    <3>2. /\ first + start(k) \in Nat /\ upto(k) - start(k) \in Nat
          /\ (first + start(k)) + (upto(k) - start(k)) <= Len(Stream[e])
      <4> DEFINE len == upto(k) - start(k)
      <4>1. len \in Nat /\ len <= amt - start(k)
        BY <2>room, <3>1, Numbers DEF min
      <4> HIDE DEF len
      <4>2. first + start(k) \in Nat /\ (first + start(k)) + len <= first + amt
        BY <2>2, <2>room, <3>1, <4>1, SMTT(30)
      <4>3. (first + start(k)) + len <= Len(Stream[e])
        BY <2>2, <2>room, <4>1, <4>2
      <4>4. QED
        BY <4>1, <4>2, <4>3 DEF len
    <3>3. QED
      BY <3>1, <3>2, DataProperties
  <2> HIDE DEF seg
  <2>10. segs \in Seq(Segment) /\ Len(segs) = n /\ DOMAIN segs = 1 .. n
         /\ \A k \in 1 .. n : segs[k] = seg(k)
    <3>1. segs \in Seq(Segment)
      BY <2>6, <2>9, IsASeq
    <3>2. Len(segs) = n /\ DOMAIN segs = 1 .. n
      BY <2>6, <3>1, LenProperties
    <3>3. QED
      BY <3>1, <3>2
  <2>11. u = [t EXCEPT !.send_window = window, !.send_buffer = rest,
                       !.socket = @ \cup {segs[k] : k \in DOMAIN segs},
                       !.unacked_segs = @ \o segs]
    BY <1>2, <2>1 DEF WellTyped, TCB, fill_send_window, send_data, u, amt, data, rest, window, n,
                      next_seq, seg
  <2> HIDE DEF segs
  <2>12. /\ u.send_window = window /\ u.send_buffer = rest
         /\ u.socket = t.socket \cup {segs[k] : k \in 1 .. n}
         /\ u.unacked_segs = t.unacked_segs \o segs
         /\ u.state = t.state /\ u.seq_base = t.seq_base /\ u.ack_base = t.ack_base
         /\ u.byte_output = t.byte_output /\ u.recv_window = t.recv_window
    BY <2>1, <2>10, <2>11 DEF WellTyped, TCB
  <2>13. AckedBy(e, u) = AckedBy(e, t) /\ SentBy(e, u) = first + amt
    <3>1. AckedBy(e, u) = AckedBy(e, t)
      BY <2>12 DEF AckedBy
    <3>2. SentBy(e, u) = AckedBy(e, t) + (Len(t.send_window) + amt)
      BY <2>5, <2>12, <3>1 DEF SentBy
    <3>3. AckedBy(e, t) + (Len(t.send_window) + amt) = (AckedBy(e, t) + Len(t.send_window)) + amt
      BY <2>2, <2>room
    <3>4. QED
      BY <2>window, <3>1, <3>2, <3>3
  <2>numbers. /\ SentBy(e, t) \in Nat /\ SentBy(e, u) \in Nat /\ SentBy(e, t) <= SentBy(e, u)
              /\ Len(t.byte_output) \in Nat /\ Len(u.byte_output) \in Nat
    <3>1. Len(t.byte_output) \in Nat
      BY <2>1, Fields
    <3>2. QED
      BY <2>2, <2>room, <2>12, <2>13, <3>1 DEF first
  <2>14. Grows(e, t, u)
    BY <2>12, <2>numbers DEF Grows
  <2>15. \A s : Sound(e, t, s) => Sound(e, u, s)
    <3>1. t.state # "Closed"
      BY <1>2
    <3>2. QED
      BY <2>14, <2>numbers, <3>1, SoundStays
  <2>16. \A k \in 1 .. n : Sound(e, u, segs[k])
    <3> TAKE k \in 1 .. n
    <3>1. /\ start(k) \in Nat /\ start(k) < amt
          /\ upto(k) - start(k) \in 1 .. min(MAX_PAYLOAD_SIZE, amt - start(k))
          /\ segs[k] = Data(e, first + start(k), upto(k) - start(k))
      BY <2>4, <2>6, <2>8, <2>10
    <3> HIDE DEF start, upto
    <3>2. /\ first + start(k) \in 0 .. (first + amt) - 1
          /\ (first + amt) - (first + start(k)) = amt - start(k)
      BY <2>2, <2>room, <3>1, SMTT(30)
    <3>3. QED
      BY <2>13, <3>1, <3>2 DEF Sound
  <2>17. SoundOutput(e, u)
    <3>1. \A s \in u.socket : Sound(e, u, s)
      BY <2>12, <2>15, <2>16 DEF Holds, InStep, SoundOutput
    <3>2. \A k \in 1 .. Len(u.unacked_segs) : Sound(e, u, u.unacked_segs[k])
      <4>1. /\ Len(u.unacked_segs) = Len(t.unacked_segs) + n
            /\ \A k \in 1 .. Len(t.unacked_segs) + n :
                 u.unacked_segs[k] = IF k <= Len(t.unacked_segs) THEN t.unacked_segs[k]
                                     ELSE segs[k - Len(t.unacked_segs)]
        <5> DEFINE queue == t.unacked_segs \o segs
        <5>1. t.unacked_segs \in Seq(Segment) /\ segs \in Seq(Segment)
          BY <2>1, <2>10
        <5>2. /\ Len(queue) = Len(t.unacked_segs) + Len(segs)
              /\ \A k \in 1 .. Len(t.unacked_segs) + Len(segs) :
                   queue[k] = IF k <= Len(t.unacked_segs) THEN t.unacked_segs[k]
                              ELSE segs[k - Len(t.unacked_segs)]
          BY <5>1, ConcatProperties
        <5>3. u.unacked_segs = queue /\ Len(segs) = n
          BY <2>10, <2>12
        <5> HIDE DEF queue
        <5>4. QED
          BY <5>2, <5>3
      <4>2. \A k \in 1 .. Len(t.unacked_segs) : Sound(e, u, t.unacked_segs[k])
        BY <2>15 DEF Holds, InStep, SoundOutput
      <4> TAKE k \in 1 .. Len(u.unacked_segs)
      <4>3. CASE k <= Len(t.unacked_segs)
        BY <2>1, <2>6, <4>1, <4>2, <4>3
      <4>4. CASE ~ k <= Len(t.unacked_segs)
        <5>1. k - Len(t.unacked_segs) \in 1 .. n
          BY <2>1, <2>6, <4>1, <4>4
        <5>2. u.unacked_segs[k] = segs[k - Len(t.unacked_segs)]
          BY <2>1, <2>6, <4>1, <4>4
        <5>3. QED
          BY <2>16, <5>1, <5>2
      <4>5. QED
        BY <4>3, <4>4
    <3>3. QED
      BY <3>1, <3>2 DEF SoundOutput
  <2>18. Phase(e, u)
    BY <1>2, <2>12, <2>13 DEF Holds, InStep, Phase, Greeting
  <2>19. SendSide(e, u, given)
    <3>1. SentBy(e, u) + Len(u.send_buffer) = given
      <4>1. (first + amt) + (Len(t.send_buffer) - amt) = first + Len(t.send_buffer)
        <5>1. first \in Nat /\ Len(t.send_buffer) \in Nat /\ amt \in Nat
          BY <2>2, <2>room
        <5>2. \A a, b, c \in Nat : (a + c) + (b - c) = a + b
          BY ONLY SMT
        <5>3. QED
          BY <5>1, <5>2, Zenon
      <4>2. QED
        BY <2>4, <2>buffer, <2>12, <2>13, <4>1
    <3>2. ASSUME NEW i \in 1 .. Len(u.send_window)
          PROVE  u.send_window[i] = Stream[e][AckedBy(e, u) + i]
      <4>1. i \in 1 .. Len(t.send_window) + amt
        BY <2>5, <2>12
      <4>2. CASE i <= Len(t.send_window)
        <5>1. i \in 1 .. Len(t.send_window)
          BY <2>2, <4>1, <4>2
        <5>2. window[i] = t.send_window[i]
          BY <2>5, <4>1, <4>2
        <5>3. QED
          BY <2>sides, <2>12, <2>13, <5>1, <5>2
      <4>3. CASE ~ i <= Len(t.send_window)
        <5>1. i - Len(t.send_window) \in 1 .. amt
          BY <2>2, <2>room, <4>1, <4>3
        <5>2. i - Len(t.send_window) \in 1 .. Len(t.send_buffer)
          <6>1. amt \in Nat /\ Len(t.send_buffer) \in Nat /\ amt <= Len(t.send_buffer)
            BY <2>2, <2>room
          <6>2. QED
            BY <5>1, <6>1
        <5>3. first + (i - Len(t.send_window)) = AckedBy(e, t) + i
          BY <2>2, <2>window, <4>1
        <5>4. window[i] = t.send_buffer[i - Len(t.send_window)]
          BY <2>4, <2>5, <4>1, <4>3, <5>1
        <5>5. window[i] = Stream[e][AckedBy(e, t) + i]
          BY <2>sides, <5>2, <5>3, <5>4
        <5>6. QED
          BY <2>12, <2>13, <5>5
      <4>4. QED
        BY <4>2, <4>3
    <3>3. ASSUME NEW i \in 1 .. Len(u.send_buffer)
          PROVE  u.send_buffer[i] = Stream[e][SentBy(e, u) + i]
      <4>1. i \in 1 .. Len(t.send_buffer) - amt
        BY <2>4, <2>12
      <4>2. amt + i \in 1 .. Len(t.send_buffer) /\ first + (amt + i) = (first + amt) + i
        BY <2>2, <2>room, <4>1
      <4>3. rest[i] = t.send_buffer[amt + i]
        BY <2>4, <4>1
      <4>4. rest[i] = Stream[e][first + (amt + i)]
        BY <2>sides, <4>2, <4>3
      <4>5. QED
        BY <2>12, <2>13, <4>2, <4>4
    <3>4. QED
      BY <3>1, <3>2, <3>3 DEF SendSide
  <2>20. ReceiveSide(e, u, sent)
    BY <2>12 DEF Holds, InStep, ReceiveSide, HoldsStream
  <2>21. AckedBy(e, u) <= got /\ got <= SentBy(e, u)
    <3>1. first <= first + amt
      BY <2>2, <2>room
    <3>2. QED
      BY <2>2, <2>got, <2>room, <2>13, <3>1
  <2>22. Holds(e, u, given, got, sent)
    BY <2>1, <2>17, <2>18, <2>19, <2>20, <2>21 DEF Holds, InStep
  <2>23. Kept(t, u)
    BY <2>12 DEF Kept
  <2>24. Sends(e, t, u)
    <3>1. SentBy(e, u) - SentBy(e, t) = amt
      BY <2>2, <2>room, <2>13 DEF first
    <3>2. amt <= n * MAX_PAYLOAD_SIZE
      BY <2>4, <2>room, SegmentsForProperties DEF n
    <3>3. \A k \in 1 .. n :
            /\ start(k) \in Nat /\ start(k) < amt
            /\ segs[k] = Data(e, first + start(k), min(start(k) + MAX_PAYLOAD_SIZE, amt) - start(k))
      BY <2>4, <2>6, <2>8, <2>10
    <3>4. QED
      BY <2>10, <2>12, <3>1, <3>2, <3>3 DEF Sends, first
  <2>25. QED
    BY <2>14, <2>22, <2>23, <2>24 DEF u
<1>3. QED
  BY <1>1, <1>2

(* What the application hands over waits in the buffer first.              *)
LEMMA BufferStep ==
    ASSUME NEW e \in Endpoint, NEW t, NEW given, NEW got, NEW sent,
           Holds(e, t, given, got, sent), NEW n \in Nat, given + n <= Len(Stream[e])
    PROVE  LET v == [t EXCEPT !.send_buffer = @ \o SubSeq(Stream[e], given + 1, given + n)]
           IN  /\ Holds(e, v, given + n, got, sent)
               /\ Grows(e, t, v)
               /\ Kept(t, v)
               /\ v.send_window = t.send_window /\ v.recv_window = t.recv_window
               /\ v.socket = t.socket /\ v.unacked_segs = t.unacked_segs
<1> DEFINE data == SubSeq(Stream[e], given + 1, given + n)
           buffer == t.send_buffer \o data
           v == [t EXCEPT !.send_buffer = buffer]
<1>1. /\ WellTyped(t) /\ t.send_buffer \in Seq(Byte) /\ Len(t.send_buffer) \in Nat
      /\ SentBy(e, t) \in Nat /\ given \in Nat /\ Len(t.byte_output) \in Nat
      /\ Stream[e] \in Seq(Byte) /\ Len(Stream[e]) \in Nat
  BY Fields, Positions, Numbers DEF Holds
<1>2. /\ data \in Seq(Byte) /\ Len(data) = n
      /\ \A i \in 1 .. n : data[i] = Stream[e][given + i]
  <2>1. \A i \in given + 1 .. given + n : Stream[e][i] \in Byte
    BY <1>1, ElementOfSeq
  <2>2. given + 1 \in Int /\ given + n \in Int
    BY <1>1
  <2>3. /\ data \in Seq(Byte)
        /\ Len(data) = IF given + 1 <= given + n THEN (given + n) - (given + 1) + 1 ELSE 0
        /\ \A i \in 1 .. (given + n) - (given + 1) + 1 : data[i] = Stream[e][(given + 1) + i - 1]
    BY <2>1, <2>2, SubSeqProperties
  <2> HIDE DEF data
  <2>4. /\ Len(data) = n
    BY <1>1, <2>3
  <2>5. \A i \in 1 .. n : data[i] = Stream[e][given + i]
    <3>1. \A i \in 1 .. n : i \in 1 .. (given + n) - (given + 1) + 1
                            /\ (given + 1) + i - 1 = given + i
      BY <1>1
    <3>2. QED
      BY <2>3, <3>1
  <2>6. QED
    BY <2>3, <2>4, <2>5
<1> HIDE DEF data
<1>3. /\ buffer \in Seq(Byte) /\ Len(buffer) = Len(t.send_buffer) + Len(data)
      /\ \A i \in 1 .. Len(t.send_buffer) + Len(data) :
           buffer[i] = IF i <= Len(t.send_buffer) THEN t.send_buffer[i]
                       ELSE data[i - Len(t.send_buffer)]
  <2>1. t.send_buffer \in Seq(Byte) /\ data \in Seq(Byte)
    BY <1>1, <1>2
  <2>2. QED
    BY <2>1, ConcatProperties
<1> HIDE DEF buffer
<1>4. /\ WellTyped(v) /\ v.send_buffer = buffer
      /\ v.send_window = t.send_window /\ v.recv_window = t.recv_window
      /\ v.socket = t.socket /\ v.unacked_segs = t.unacked_segs
      /\ Kept(t, v)
  BY <1>1, <1>3 DEF WellTyped, TCB, Kept
<1> HIDE DEF v
<1>5. AckedBy(e, v) = AckedBy(e, t) /\ SentBy(e, v) = SentBy(e, t)
  BY <1>4 DEF AckedBy, SentBy, Kept
<1>6. Grows(e, t, v)
  BY <1>1, <1>4, <1>5 DEF Grows, Kept
<1>7. \A s : Sound(e, t, s) => Sound(e, v, s)
  BY <1>1, <1>4, <1>5, <1>6, SoundStays DEF Kept
<1>8. SentBy(e, t) + Len(t.send_buffer) = given
  BY DEF Holds, InStep, SendSide
<1>9. SendSide(e, v, given + n)
  <2>1. SentBy(e, v) + Len(v.send_buffer) = given + n
    <3>1. SentBy(e, t) \in Nat /\ Len(t.send_buffer) \in Nat
      BY <1>1
    <3>2. SentBy(e, t) + (Len(t.send_buffer) + n) = given + n
      BY <1>8, <3>1
    <3>3. QED
      BY <1>2, <1>3, <1>4, <1>5, <3>2
  <2>2. ASSUME NEW i \in 1 .. Len(v.send_buffer)
        PROVE  v.send_buffer[i] = Stream[e][SentBy(e, v) + i]
    <3>1. i \in 1 .. Len(t.send_buffer) + Len(data) /\ Len(data) = n
      BY <1>2, <1>3, <1>4
    <3>2. CASE i <= Len(t.send_buffer)
      <4>1. i \in 1 .. Len(t.send_buffer)
        BY <1>1, <3>1, <3>2
      <4>2. buffer[i] = t.send_buffer[i]
        BY <1>3, <3>1, <3>2
      <4>3. QED
        BY <1>4, <1>5, <4>1, <4>2 DEF Holds, InStep, SendSide
    <3>3. CASE ~ i <= Len(t.send_buffer)
      <4>1. /\ i - Len(t.send_buffer) \in 1 .. n
            /\ given + (i - Len(t.send_buffer)) = SentBy(e, t) + i
        <5>1. SentBy(e, t) \in Nat /\ Len(t.send_buffer) \in Nat
          BY <1>1
        <5>2. /\ given \in Nat /\ SentBy(e, t) \in Nat /\ Len(t.send_buffer) \in Nat
              /\ i \in Nat /\ i <= Len(t.send_buffer) + n
          BY <1>1, <3>1
        <5>3. given + (i - Len(t.send_buffer)) = SentBy(e, t) + i
          BY <1>8, <3>1, <5>1
        <5>4. i - Len(t.send_buffer) \in 1 .. n
          BY <3>3, <5>2
        <5>5. QED
          BY <5>3, <5>4
      <4>2. buffer[i] = data[i - Len(t.send_buffer)]
        BY <1>3, <3>1, <3>3
      <4>3. buffer[i] = Stream[e][SentBy(e, t) + i]
        BY <1>2, <4>1, <4>2
      <4>4. QED
        BY <1>4, <1>5, <4>3
    <3>4. QED
      BY <3>2, <3>3
  <2>3. QED
    BY <1>4, <1>5, <2>1, <2>2 DEF Holds, InStep, SendSide
<1>10. SoundOutput(e, v) /\ Phase(e, v) /\ ReceiveSide(e, v, sent)
  BY <1>4, <1>5, <1>7
     DEF Holds, InStep, SoundOutput, Phase, Greeting, ReceiveSide, HoldsStream, Kept
<1>11. given + n \in 0 .. Len(Stream[e])
  BY <1>1
<1>12. Holds(e, v, given + n, got, sent)
  BY <1>4, <1>5, <1>9, <1>10, <1>11 DEF Holds, InStep
<1>13. v = [t EXCEPT !.send_buffer = @ \o data]
  BY DEF v, buffer
<1>14. QED
  BY <1>4, <1>6, <1>12, <1>13 DEF data

(* TCBInput::Send: the application hands over the next n bytes.            *)
LEMMA SendStep ==
    ASSUME NEW e \in Endpoint, NEW t, NEW given, NEW got, NEW sent,
           Holds(e, t, given, got, sent), NEW n \in Nat, given + n <= Len(Stream[e])
    PROVE  LET u == send(t, SubSeq(Stream[e], given + 1, given + n))
           IN  /\ Holds(e, u, given + n, got, sent)
               /\ Grows(e, t, u)
               /\ Kept(t, u)
<1> DEFINE data == SubSeq(Stream[e], given + 1, given + n)
           v == [t EXCEPT !.send_buffer = @ \o data]
           u == fill_send_window(v)
<1>1. Holds(e, v, given + n, got, sent) /\ Grows(e, t, v) /\ Kept(t, v)
  BY BufferStep
<1>2. u = send(t, data)
  BY DEF send
<1> HIDE DEF u, v
<1>3. Holds(e, u, given + n, got, sent) /\ Grows(e, v, u) /\ Kept(v, u)
  BY <1>1, FillSendWindowStep DEF u
<1>4. Grows(e, t, u)
  <2>1. /\ SentBy(e, t) \in Nat /\ SentBy(e, v) \in Nat /\ SentBy(e, u) \in Nat
        /\ Len(t.byte_output) \in Nat /\ Len(v.byte_output) \in Nat
        /\ Len(u.byte_output) \in Nat
    BY <1>1, <1>3, Positions, Fields DEF Holds
  <2>2. QED
    BY <1>1, <1>3, <2>1 DEF Grows
<1>5. Kept(t, u)
  BY <1>1, <1>3 DEF Kept
<1>6. QED
  BY <1>2, <1>3, <1>4, <1>5

-----------------------------------------------------------------------------
(* Receiving: acknowledgements.                                            *)

(* An ACK that is taken as new moves seq_base forward, by no more than a   *)
(* window.                                                                 *)
LEMMA NewAckMoves ==
    ASSUME NEW t, t.seq_base \in SeqNum, NEW seg, seg.ack_num \in SeqNum, new_ack(t, seg)
    PROVE  wrapping_sub(seg.ack_num, t.seq_base) <= WINDOW_SIZE
<1> DEFINE lb == wrapping_add(t.seq_base, 1)
<1>1. SEQ_SPACE \in Nat /\ WINDOW_SIZE \in Nat /\ WINDOW_SIZE \in SeqNum /\ 1 \in SeqNum
  BY Numbers DEF SeqNum
<1>2. lb \in SeqNum
  BY <1>1, WrappingType
<1>3. wrapping_sub(seg.ack_num, lb) < WINDOW_SIZE
  BY <1>1, <1>2, RangeIsDistance DEF new_ack
<1>4. QED
  BY <1>1, <1>3 DEF SeqNum, wrapping_add, wrapping_sub

(* In Estab a new ACK lies beyond seq_base and within what was sent: the   *)
(* peer acknowledges what it has, and nothing is far enough behind to look *)
(* new.                                                                    *)
LEMMA NewAckIsAhead ==
    ASSUME NEW e \in Endpoint, NEW t, NEW given, NEW got, NEW sent,
           Holds(e, t, given, got, sent), t.state = "Estab",
           NEW seg, new_ack(t, seg), NEW n \in 0 .. got, seg.ack_num = At(e, n)
    PROVE  /\ AckedBy(e, t) < n
           /\ wrapping_sub(seg.ack_num, t.seq_base) = n - AckedBy(e, t)
<1> DEFINE a == AckedBy(e, t)
<1>1. /\ a \in Nat /\ got \in Nat /\ n \in Nat /\ n <= got /\ a <= got
      /\ got <= SentBy(e, t) /\ SentBy(e, t) \in Nat
      /\ SentBy(e, t) + 2 * WINDOW_SIZE + 2 <= SEQ_SPACE
  BY Positions
<1>2. SEQ_SPACE \in Nat /\ WINDOW_SIZE \in Nat /\ WINDOW_SIZE \in SeqNum /\ 1 <= WINDOW_SIZE
  BY Numbers
<1>3. t.seq_base = At(e, a)
  BY AckedProperties, Fields DEF Holds, InStep, Phase
<1> HIDE DEF a
<1>4. got + 2 * WINDOW_SIZE + 2 <= SEQ_SPACE
  BY <1>1, <1>2
<1>5. /\ a + 1 < SEQ_SPACE /\ n < SEQ_SPACE /\ a < SEQ_SPACE
      /\ n + WINDOW_SIZE + 1 < SEQ_SPACE /\ a + WINDOW_SIZE + 1 < SEQ_SPACE
  BY <1>1, <1>2, <1>4
<1>6. wrapping_add(t.seq_base, 1) = At(e, a + 1)
  BY <1>1, <1>3, <1>5, AtProperties
<1>7. At(e, a + 1) \in SeqNum /\ At(e, n) \in SeqNum
  BY <1>1, <1>5, AtProperties
<1>8. wrapping_sub(At(e, n), At(e, a + 1)) < WINDOW_SIZE
  BY <1>2, <1>6, <1>7, RangeIsDistance DEF new_ack
<1>9. wrapping_sub(At(e, n), At(e, a + 1)) = wrapping_sub(n, a + 1)
  BY <1>1, <1>5, AtProperties
<1>10. a < n
  <2>1. wrapping_sub(n, a + 1) < WINDOW_SIZE
    BY <1>8, <1>9
  <2>2. QED
    BY <1>1, <1>2, <1>5, <2>1 DEF wrapping_sub
<1>11. wrapping_sub(At(e, n), At(e, a)) = n - a
  <2>1. wrapping_sub(At(e, n), At(e, a)) = wrapping_sub(n, a)
    BY <1>1, <1>5, AtProperties
  <2>2. wrapping_sub(n, a) = n - a
    BY <1>1, <1>10 DEF wrapping_sub
  <2>3. QED
    BY <2>1, <2>2
<1>12. QED
  BY <1>3, <1>10, <1>11 DEF a

(* Before Estab the only number that can be acknowledged is that of the    *)
(* SYN; one that has not been seen acknowledged yet is new.                *)
LEMMA GreetingAck ==
    ASSUME NEW e \in Endpoint, NEW t, NEW given, NEW got, NEW sent,
           Holds(e, t, given, got, sent), Greeting(t), NEW seg, Incoming(e, seg, got, sent),
           "ACK" \in seg.flags
    PROVE  /\ got = 0 /\ seg.ack_num = FirstSeq(e)
           /\ t.seq_base = InitialSeq[e] => new_ack(t, seg)
<1>1. AckedBy(e, t) = 0 /\ Len(t.send_window) = 0 /\ SentBy(e, t) = 0
  BY DEF Holds, InStep, Phase, SentBy
<1>2. got = 0
  BY <1>1, Positions
<1>3. seg.ack_num = At(e, 0)
  BY <1>2 DEF Incoming
<1>4. /\ 0 < SEQ_SPACE /\ At(e, 0) = FirstSeq(e) /\ FirstSeq(e) \in SeqNum
      /\ WINDOW_SIZE \in SeqNum /\ 0 < WINDOW_SIZE /\ WINDOW_SIZE \in Nat /\ SEQ_SPACE \in Nat
  BY Numbers, AtProperties
<1>5. t.seq_base = InitialSeq[e] => new_ack(t, seg)
  <2>1. wrapping_sub(FirstSeq(e), FirstSeq(e)) = 0
    BY <1>4 DEF wrapping_sub, SeqNum
  <2>2. in_wrapped_range(FirstSeq(e), wrapping_add(FirstSeq(e), WINDOW_SIZE), FirstSeq(e))
    BY <1>4, <2>1, RangeIsDistance
  <2>3. t.seq_base = InitialSeq[e] => wrapping_add(t.seq_base, 1) = FirstSeq(e)
    BY DEF FirstSeq
  <2>4. QED
    BY <1>3, <1>4, <2>2, <2>3 DEF new_ack
<1>6. QED
  BY <1>2, <1>3, <1>4, <1>5

\* the part of accept_ack that comes before the window is filled again, in Estab
drop_acked(t, seg) ==
    [t EXCEPT !.unacked_segs = retain_unacked(@, seg.ack_num),
              !.seq_base = seg.ack_num,
              !.send_window = Dropped(@, wrapping_sub(seg.ack_num, t.seq_base))]

(* An ACK of byte n takes what it acknowledges out of the window           *)
(* (tcp.rs 214-232).                                                       *)
LEMMA DropAckedStep ==
    ASSUME NEW e \in Endpoint, NEW t, NEW given, NEW got, NEW sent,
           Holds(e, t, given, got, sent), t.state = "Estab",
           NEW seg, seg.ack_num \in SeqNum, new_ack(t, seg),
           NEW n \in 0 .. got, seg.ack_num = At(e, n)
    PROVE  LET v == drop_acked(t, seg)
           IN  /\ accept_ack(t, seg) = fill_send_window(v)
               /\ Holds(e, v, given, got, sent)
               /\ Grows(e, t, v)
               /\ v.state = t.state /\ v.socket = t.socket
               /\ v.unacked_segs = retain_unacked(t.unacked_segs, seg.ack_num)
               /\ v.ack_base = t.ack_base /\ v.byte_output = t.byte_output
               /\ v.recv_window = t.recv_window
               /\ v.seq_base = seg.ack_num /\ v.seq_base # InitialSeq[e]
               /\ AckedBy(e, t) < n /\ AckedBy(e, v) = n /\ SentBy(e, v) = SentBy(e, t)
<1> DEFINE u == accept_ack(t, seg)
           v == drop_acked(t, seg)
           window == t.send_window
           num == wrapping_sub(seg.ack_num, t.seq_base)
           queue == retain_unacked(t.unacked_segs, seg.ack_num)
           a == AckedBy(e, t)
<1>1. /\ WellTyped(t) /\ t.seq_base \in SeqNum /\ t.unacked_segs \in Seq(Segment)
      /\ t.send_window \in Seq(Byte) /\ Len(t.send_window) \in Nat
      /\ Len(t.send_window) <= WINDOW_SIZE /\ Len(t.byte_output) \in Nat
      /\ WINDOW_SIZE \in Nat
  BY Fields, Numbers DEF Holds
<1>2. queue \in Seq(Segment) /\ \A k \in 1 .. Len(queue) : Sound(e, t, queue[k])
  <2>1. /\ queue \in Seq(Segment)
        /\ \A k \in 1 .. Len(queue) : \E i \in 1 .. Len(t.unacked_segs) :
             queue[k] = t.unacked_segs[i]
    <3> DEFINE segs == t.unacked_segs
    <3>1. segs \in Seq(Segment)
      BY <1>1
    <3> HIDE DEF segs, u, v
    <3>2. /\ retain_unacked(segs, seg.ack_num) \in Seq(Segment)
          /\ \A k \in 1 .. Len(retain_unacked(segs, seg.ack_num)) : \E i \in 1 .. Len(segs) :
               retain_unacked(segs, seg.ack_num)[k] = segs[i]
      BY <3>1, RetainProperties
    <3>3. QED
      BY <3>2 DEF segs
  <2> HIDE DEF queue
  <2>2. QED
    BY <2>1 DEF Holds, InStep, SoundOutput
<1> HIDE DEF u, v, queue, a
<1>3. /\ a \in Nat /\ got \in Nat /\ SentBy(e, t) \in Nat /\ SentBy(e, t) = a + Len(t.send_window)
      /\ got <= SentBy(e, t) /\ SentBy(e, t) <= given /\ given <= Len(Stream[e])
      /\ given \in Nat /\ Len(Stream[e]) \in Nat
  BY Positions, Numbers DEF a
<1>4. a < n /\ num = n - a
  BY NewAckIsAhead DEF a
<1> HIDE DEF num
<1>5. num \in 0 .. Len(t.send_window) /\ n \in Nat /\ n <= got
  BY <1>1, <1>3, <1>4
<1>6. n \in 0 .. Len(Stream[e])
  BY <1>3, <1>5
<1>7. /\ Dropped(window, num) \in Seq(Byte)
      /\ Len(Dropped(window, num)) = Len(window) - num
      /\ \A i \in 1 .. Len(window) - num : Dropped(window, num)[i] = window[num + i]
  <2>1. window \in Seq(Byte) /\ num \in 0 .. Len(window)
    BY <1>1, <1>5
  <2> HIDE DEF window
  <2>2. QED
    BY <2>1, DrainProperties
<1>8. /\ v.state = t.state /\ v.socket = t.socket /\ v.unacked_segs = queue
      /\ v.seq_base = seg.ack_num /\ v.ack_base = t.ack_base
      /\ v.send_window = Dropped(t.send_window, num) /\ v.send_buffer = t.send_buffer
      /\ v.byte_output = t.byte_output /\ v.recv_window = t.recv_window
      /\ v.dupe_acks = t.dupe_acks /\ v \in TCB
  BY <1>1, <1>2, <1>7 DEF WellTyped, TCB, drop_acked, v, queue, num
<1>9. u = fill_send_window(v)
  <2>1. ~ num > Len(t.send_window)
    BY <1>1, <1>5
  <2>2. v = [[t EXCEPT !.unacked_segs = queue, !.seq_base = seg.ack_num]
               EXCEPT !.send_window = Dropped(@, num)]
    BY <1>1 DEF WellTyped, TCB, drop_acked, v, queue, num
  <2>3. QED
    BY <2>1, <2>2 DEF accept_ack, u, queue, num
<1>10. WellTyped(v)
  <2>1. Len(v.send_window) <= WINDOW_SIZE
    BY <1>1, <1>5, <1>7, <1>8
  <2>2. QED
    BY <1>1, <1>8, <2>1 DEF WellTyped
<1>11. AckedBy(e, v) = n /\ v.seq_base # InitialSeq[e]
  BY <1>6, <1>8, AckedProperties
<1>12. SentBy(e, v) = SentBy(e, t)
  <2>1. n + (Len(window) - num) = a + Len(window)
    <3>1. Len(window) \in Nat
      BY <1>1
    <3> HIDE DEF window
    <3>2. QED
      BY <1>3, <1>4, <1>5, <3>1
  <2>2. QED
    BY <1>3, <1>7, <1>8, <1>11, <2>1 DEF SentBy
<1>13. Grows(e, t, v)
  BY <1>1, <1>3, <1>8, <1>12 DEF Grows
<1>14. SoundOutput(e, v)
  <2>1. SentBy(e, v) \in Nat /\ Len(v.byte_output) \in Nat /\ t.state # "Closed"
    BY <1>1, <1>3, <1>8, <1>12
  <2>2. \A s : Sound(e, t, s) => Sound(e, v, s)
    BY <1>1, <1>3, <1>13, <2>1, SoundStays
  <2>3. QED
    BY <1>2, <1>8, <2>2 DEF Holds, InStep, SoundOutput
<1>15. Phase(e, v)
  BY <1>8, <1>11 DEF Holds, InStep, Phase, Greeting
<1>16. SendSide(e, v, given)
  <2>1. ASSUME NEW i \in 1 .. Len(v.send_window)
        PROVE  v.send_window[i] = Stream[e][AckedBy(e, v) + i]
    <3>1. i \in 1 .. Len(t.send_window) - num
      BY <1>7, <1>8
    <3>2. num + i \in 1 .. Len(t.send_window)
      BY <1>1, <1>5, <3>1
    <3>3. a + (num + i) = n + i
      BY <1>3, <1>4, <1>5, <3>1
    <3>4. t.send_window[num + i] = Stream[e][a + (num + i)]
      BY <3>2 DEF Holds, InStep, SendSide, a
    <3>5. QED
      BY <1>7, <1>8, <1>11, <3>1, <3>3, <3>4
  <2>2. QED
    BY <1>8, <1>12, <2>1 DEF Holds, InStep, SendSide
<1>17. ReceiveSide(e, v, sent)
  BY <1>8 DEF Holds, InStep, ReceiveSide, HoldsStream
<1>18. AckedBy(e, v) <= got /\ got <= SentBy(e, v)
  BY <1>3, <1>5, <1>11, <1>12
<1>19. Holds(e, v, given, got, sent)
  BY <1>10, <1>14, <1>15, <1>16, <1>17, <1>18 DEF Holds, InStep
<1>20. QED
  BY <1>4, <1>8, <1>9, <1>11, <1>12, <1>13, <1>19 DEF u, v, queue, a

(* So does the first half of handle_acks: an acknowledgement of what the   *)
(* peer has been given moves the window up to it and no further.           *)
LEMMA AcceptAckStep ==
    ASSUME NEW e \in Endpoint, NEW t, NEW given, NEW got, NEW sent,
           Holds(e, t, given, got, sent), NEW seg, Incoming(e, seg, got, sent),
           t.state # "Closed", t.state = "Listen" => "ACK" \notin seg.flags
    PROVE  LET u == accept_ack(t, seg)
           IN  /\ Holds(e, u, given, got, sent)
               /\ Grows(e, t, u)
               /\ u.state = t.state /\ u.ack_base = t.ack_base /\ u.byte_output = t.byte_output
               /\ "ACK" \in seg.flags => u.seq_base # InitialSeq[e]
               /\ wrapping_sub(u.seq_base, t.seq_base) <= WINDOW_SIZE
<1> DEFINE u == accept_ack(t, seg)
           num == wrapping_sub(seg.ack_num, t.seq_base)
           queue == retain_unacked(t.unacked_segs, seg.ack_num)
           acked == [t EXCEPT !.unacked_segs = queue, !.seq_base = seg.ack_num]
           a == AckedBy(e, t)
<1>1. /\ WellTyped(t) /\ WellTyped(u) /\ seg \in Segment /\ seg.ack_num \in SeqNum
      /\ t.seq_base \in SeqNum /\ t.unacked_segs \in Seq(Segment)
      /\ t.send_window \in Seq(Byte) /\ Len(t.send_window) \in Nat
      /\ Len(t.send_window) <= WINDOW_SIZE /\ Len(t.byte_output) \in Nat
  BY AcceptAckType, Fields DEF Holds, Incoming, Segment
<1>2. t.state = "Estab" \/ Greeting(t)
  BY <1>1 DEF Holds, InStep, Phase, Greeting, WellTyped, TCB, TCBState
<1>3. /\ WINDOW_SIZE \in Nat /\ SEQ_SPACE \in Nat /\ FirstSeq(e) \in SeqNum
      /\ FirstSeq(e) # InitialSeq[e]
  BY Numbers
<1>4. CASE ~ new_ack(t, seg)
  <2>1. u = t
    BY <1>4 DEF accept_ack
  <2>2. Grows(e, t, u)
    BY <2>1, GrowsNot
  <2>3. "ACK" \in seg.flags => u.seq_base # InitialSeq[e]
    <3>1. CASE t.state = "Estab"
      BY <2>1, <3>1 DEF Holds, InStep, Phase
    <3>2. CASE Greeting(t)
      BY <1>4, <2>1, <3>2, GreetingAck
    <3>3. QED
      BY <1>2, <3>1, <3>2
  <2>4. wrapping_sub(t.seq_base, t.seq_base) <= WINDOW_SIZE
    BY <1>1, <1>3 DEF wrapping_sub, SeqNum
  <2>5. QED
    BY <2>1, <2>2, <2>3, <2>4
<1>5. CASE new_ack(t, seg)
  <2>1. "ACK" \in seg.flags
    BY <1>5 DEF new_ack
  <2>2. queue \in Seq(Segment) /\ \A k \in 1 .. Len(queue) : Sound(e, t, queue[k])
    <3>1. /\ queue \in Seq(Segment)
          /\ \A k \in 1 .. Len(queue) : \E i \in 1 .. Len(t.unacked_segs) :
               queue[k] = t.unacked_segs[i]
      BY <1>1, RetainProperties, SMTT(30)
    <3> HIDE DEF queue
    <3>2. QED
      BY <3>1 DEF Holds, InStep, SoundOutput
  <2> HIDE DEF queue
  <2>3. /\ acked.state = t.state /\ acked.socket = t.socket /\ acked.unacked_segs = queue
        /\ acked.seq_base = seg.ack_num /\ acked.ack_base = t.ack_base
        /\ acked.send_window = t.send_window /\ acked.send_buffer = t.send_buffer
        /\ acked.byte_output = t.byte_output /\ acked.recv_window = t.recv_window
        /\ acked.dupe_acks = t.dupe_acks /\ WellTyped(acked)
    BY <1>1, <2>2 DEF WellTyped, TCB
  <2>4. wrapping_sub(seg.ack_num, t.seq_base) <= WINDOW_SIZE
    BY <1>1, <1>5, NewAckMoves
  <2>5. CASE t.state # "Estab"
    <3>1. u = acked
      BY <1>5, <2>5 DEF accept_ack, queue
    <3> HIDE DEF u, acked
    <3>2. Greeting(t) /\ got = 0 /\ seg.ack_num = FirstSeq(e)
      BY <1>2, <2>1, <2>5, GreetingAck
    <3>3. t.state # "Listen" /\ t.state # "Closed" /\ t.state # "Panicked"
      BY <2>1 DEF Holds, InStep, Phase
    <3>4. /\ a = 0 /\ t.send_window = << >> /\ t.byte_output = << >> /\ SentBy(e, t) = 0
      BY <3>2 DEF Holds, InStep, Phase, SentBy
    <3>5. AckedBy(e, u) = 0 /\ SentBy(e, u) = 0 /\ u.seq_base # InitialSeq[e]
      <4>1. wrapping_sub(FirstSeq(e), FirstSeq(e)) = 0
        BY <1>3 DEF wrapping_sub, SeqNum
      <4>2. u.seq_base = FirstSeq(e) /\ u.send_window = << >>
        BY <2>3, <3>1, <3>2, <3>4
      <4>3. AckedBy(e, u) = 0
        BY <1>3, <4>1, <4>2 DEF AckedBy
      <4>4. QED
        BY <1>3, <4>2, <4>3 DEF SentBy
    <3>6. Grows(e, t, u)
      BY <1>1, <2>3, <3>1, <3>4, <3>5 DEF Grows
    <3>7. \A s : Sound(e, t, s) => Sound(e, u, s)
      <4>1. Len(u.byte_output) \in Nat
        BY <1>1, <2>3, <3>1
      <4>2. QED
        BY <1>1, <3>3, <3>4, <3>5, <3>6, <4>1, SoundStays
    <3>8. SoundOutput(e, u)
      BY <2>2, <2>3, <3>1, <3>7 DEF Holds, InStep, SoundOutput
    <3>9. Phase(e, u)
      BY <2>3, <3>1, <3>3, <3>4, <3>5 DEF Holds, InStep, Phase, Greeting
    <3>10. SendSide(e, u, given) /\ ReceiveSide(e, u, sent)
      BY <2>3, <3>1, <3>4, <3>5 DEF Holds, InStep, SendSide, ReceiveSide, HoldsStream
    <3>11. AckedBy(e, u) <= got /\ got <= SentBy(e, u)
      BY <3>2, <3>5
    <3>12. Holds(e, u, given, got, sent)
      BY <1>1, <3>8, <3>9, <3>10, <3>11 DEF Holds, InStep
    <3>13. QED
      BY <2>3, <2>4, <3>1, <3>5, <3>6, <3>12 DEF u
  <2>6. CASE t.state = "Estab"
    <3>1. PICK n \in 0 .. got : seg.ack_num = At(e, n)
      BY <2>1 DEF Incoming
    <3> DEFINE v == drop_acked(t, seg)
    <3>2. /\ u = fill_send_window(v)
          /\ Holds(e, v, given, got, sent) /\ Grows(e, t, v)
          /\ v.state = t.state /\ v.ack_base = t.ack_base /\ v.byte_output = t.byte_output
          /\ v.seq_base # InitialSeq[e] /\ v.seq_base = seg.ack_num
      BY <1>1, <1>5, <2>6, <3>1, DropAckedStep
    <3> HIDE DEF u, v
    <3>3. Holds(e, u, given, got, sent) /\ Grows(e, v, u) /\ Kept(v, u)
      BY <3>2, FillSendWindowStep
    <3>4. Grows(e, t, u)
      BY <3>2, <3>3, GrowsTwice
    <3>5. QED
      BY <2>4, <3>2, <3>3, <3>4 DEF Kept, u
  <2>7. QED
    BY <2>5, <2>6
<1>6. QED
  BY <1>4, <1>5

(* The resend that three "duplicates" cause changes nothing but what is in *)
(* flight.                                                                 *)
LEMMA CountDupeAckStep ==
    ASSUME NEW e \in Endpoint, NEW t, NEW given, NEW got, NEW sent,
           Holds(e, t, given, got, sent), NEW seg \in Segment
    PROVE  LET u == count_dupe_ack(t, seg)
           IN  /\ Holds(e, u, given, got, sent)
               /\ Grows(e, t, u)
               /\ Kept(t, u)
<1> DEFINE u == count_dupe_ack(t, seg)
           v == handle_resend(t)
<1>1. Holds(e, v, given, got, sent) /\ Grows(e, t, v)
  BY HandleResendStep
<1>2. Kept(t, v)
  BY DEF Holds, WellTyped, TCB, handle_resend, resend_seg, Kept
<1>3. WellTyped(t) /\ WellTyped(v) /\ WellTyped(u)
  BY <1>1, CountDupeAckType DEF Holds
<1>4. u = t \/ u = [v EXCEPT !.dupe_acks = 0] \/ u = [t EXCEPT !.dupe_acks = @ + 1]
  BY DEF count_dupe_ack
<1> HIDE DEF u, v
<1>5. CASE u = t
  BY <1>1, <1>5, GrowsNot DEF Kept, u
<1>6. CASE u = [v EXCEPT !.dupe_acks = 0]
  <2>1. SameButOutput(v, u) /\ u.socket = v.socket /\ u.unacked_segs = v.unacked_segs
    BY <1>3, <1>6 DEF WellTyped, TCB, SameButOutput
  <2>2. Holds(e, u, given, got, sent) /\ Grows(e, v, u)
    BY <1>1, <1>3, <2>1, OutputStep DEF Holds, InStep, SoundOutput
  <2>3. Kept(t, u)
    BY <1>2, <2>1 DEF Kept, SameButOutput
  <2>4. QED
    BY <1>1, <2>2, <2>3, GrowsTwice DEF u
<1>7. CASE u = [t EXCEPT !.dupe_acks = @ + 1]
  <2>1. SameButOutput(t, u) /\ u.socket = t.socket /\ u.unacked_segs = t.unacked_segs
    BY <1>3, <1>7 DEF WellTyped, TCB, SameButOutput
  <2>2. Holds(e, u, given, got, sent) /\ Grows(e, t, u)
    BY <1>3, <2>1, OutputStep DEF Holds, InStep, SoundOutput
  <2>3. Kept(t, u)
    BY <2>1 DEF Kept, SameButOutput
  <2>4. QED
    BY <2>2, <2>3 DEF u
<1>8. QED
  BY <1>4, <1>5, <1>6, <1>7

(* So does the whole of handle_acks, which leaves everything but the send  *)
(* side alone (tcp.rs 213-250).                                            *)
LEMMA HandleAcksStep ==
    ASSUME NEW e \in Endpoint, NEW t, NEW given, NEW got, NEW sent,
           Holds(e, t, given, got, sent), NEW seg, Incoming(e, seg, got, sent),
           t.state # "Closed", t.state = "Listen" => "ACK" \notin seg.flags
    PROVE  LET u == handle_acks(t, seg)
           IN  /\ Holds(e, u, given, got, sent)
               /\ Grows(e, t, u)
               /\ u.state = t.state /\ u.ack_base = t.ack_base /\ u.byte_output = t.byte_output
               /\ "ACK" \in seg.flags => u.seq_base # InitialSeq[e]
               /\ wrapping_sub(u.seq_base, t.seq_base) <= WINDOW_SIZE
<1> DEFINE v == accept_ack(t, seg)
           u == count_dupe_ack(v, seg)
<1>1. /\ Holds(e, v, given, got, sent) /\ Grows(e, t, v)
      /\ v.state = t.state /\ v.ack_base = t.ack_base /\ v.byte_output = t.byte_output
      /\ "ACK" \in seg.flags => v.seq_base # InitialSeq[e]
      /\ wrapping_sub(v.seq_base, t.seq_base) <= WINDOW_SIZE
  BY AcceptAckStep
<1> HIDE DEF v
<1>2. seg \in Segment
  BY DEF Incoming
<1>3. Holds(e, u, given, got, sent) /\ Grows(e, v, u) /\ Kept(v, u)
  BY <1>1, <1>2, CountDupeAckStep
<1>4. Grows(e, t, u)
  BY <1>1, <1>3, GrowsTwice
<1>5. u = handle_acks(t, seg)
  BY DEF handle_acks, v
<1> HIDE DEF u
<1>6. QED
  BY <1>1, <1>3, <1>4, <1>5 DEF Kept

-----------------------------------------------------------------------------
(* Receiving: the handshake.                                               *)

(* A SYN moves Listen to SynRecd, a SYN-ACK SynSent to Estab, and an ACK   *)
(* SynRecd to Estab: each learns from the datagram where the peer's stream *)
(* starts, or has learnt it before.                                        *)
LEMMA HandleShakeStep ==
    ASSUME NEW e \in Endpoint, NEW t, NEW given, NEW got, NEW sent,
           Holds(e, t, given, got, sent), NEW seg, Incoming(e, seg, got, sent),
           t.state # "Closed", "ACK" \in seg.flags => t.seq_base # InitialSeq[e]
    PROVE  LET u == handle_shake(t, seg)
           IN  /\ Holds(e, u, given, got, sent)
               /\ Grows(e, t, u)
               /\ u.state # "Closed"
               /\ u.state = "Listen" => t.state = "Listen" /\ "SYN" \notin seg.flags
               /\ u.seq_base = t.seq_base /\ u.byte_output = t.byte_output
               /\ t.state = "Estab" => u.state = "Estab" /\ u.ack_base = t.ack_base
<1> DEFINE u == handle_shake(t, seg)
           next == peer_next(seg)
           synack == [make_seg EXCEPT !.flags = {"SYN", "ACK"},
                                      !.seq_num = t.seq_base, !.ack_num = next]
           ack == [make_seg EXCEPT !.flags = {"ACK"}, !.ack_num = next]
           listened == [t EXCEPT !.state = "SynRecd", !.ack_base = next]
           answered == [t EXCEPT !.state = "Estab", !.ack_base = next]
           acked == [t EXCEPT !.state = "Estab"]
<1>1. /\ WellTyped(t) /\ peer(e) \in Endpoint /\ peer(peer(e)) = e /\ t.state # "Panicked"
      /\ InitialSeq[peer(e)] \in SeqNum /\ 0 < SEQ_SPACE
  BY PeerProperties, Numbers DEF Holds, InStep, Phase
<1>2. "SYN" \in seg.flags => next = FirstSeq(peer(e)) /\ next = At(peer(e), 0)
  BY <1>1, AtProperties DEF Incoming, peer_next, FirstSeq
<1>3. next \in SeqNum
  <2>1. seg.seq_num \in SeqNum /\ 1 \in SeqNum
    BY Numbers DEF SeqNum, Incoming, Segment
  <2>2. QED
    BY <2>1, WrappingType DEF peer_next
<1>4. u = CASE t.state = "Listen" /\ "SYN" \in seg.flags -> send_seg(listened, synack)
            [] t.state = "SynSent" /\ {"SYN", "ACK"} \subseteq seg.flags ->
                 fill_send_window(send_ack(answered, ack))
            [] t.state = "SynRecd" /\ "ACK" \in seg.flags -> fill_send_window(acked)
            [] OTHER -> t
  BY DEF handle_shake
<1> HIDE DEF u, next
<1>5. Greeting(t) => AckedBy(e, t) = 0 /\ t.send_window = << >> /\ t.byte_output = << >>
  BY DEF Holds, InStep, Phase
<1>6. ASSUME NEW v, WellTyped(v), SameButState(t, v)
      PROVE  AckedBy(e, v) = AckedBy(e, t)
  BY <1>6 DEF SameButState, AckedBy
<1>7. CASE t.state = "Listen" /\ "SYN" \in seg.flags
  <2>1. /\ WellTyped(listened) /\ SameButState(t, listened)
        /\ listened.state = "SynRecd" /\ listened.ack_base = next
    BY <1>1, <1>3 DEF WellTyped, TCB, TCBState, SameButState
  <2>2. u = send_seg(listened, synack)
    BY <1>4, <1>7
  <2>3. synack = SynAck(e)
    BY <1>2, <1>7 DEF SynAck, Holds, InStep, Phase
  <2> HIDE DEF listened, synack
  <2>4. Phase(e, listened)
    <3>1. /\ AckedBy(e, listened) = 0 /\ listened.send_window = << >>
          /\ listened.byte_output = << >>
      BY <1>5, <1>6, <1>7, <2>1 DEF Greeting, SameButState
    <3>2. Len(listened.byte_output) = 0
      BY <3>1
    <3>3. QED
      BY <1>2, <1>7, <2>1, <3>1, <3>2 DEF Phase, Greeting
  <2>5. Holds(e, listened, given, got, sent) /\ Grows(e, t, listened)
    BY <1>7, <2>1, <2>4, StateStep
  <2>6. Sound(e, listened, synack)
    BY <2>3 DEF Sound
  <2>7. Holds(e, u, given, got, sent) /\ Grows(e, listened, u)
    BY <2>2, <2>5, <2>6, SendSegStep
  <2>8. Grows(e, t, u)
    BY <2>5, <2>7, GrowsTwice
  <2>9. u.state = "SynRecd" /\ u.seq_base = t.seq_base /\ u.byte_output = t.byte_output
    BY <2>1, <2>2 DEF WellTyped, TCB, send_seg, resend_seg, SameButState
  <2>10. QED
    BY <1>7, <2>7, <2>8, <2>9 DEF u
<1>8. CASE t.state = "SynSent" /\ {"SYN", "ACK"} \subseteq seg.flags
  <2> DEFINE v == send_ack(answered, ack)
  <2>1. /\ WellTyped(answered) /\ SameButState(t, answered)
        /\ answered.state = "Estab" /\ answered.ack_base = next
    BY <1>1, <1>3 DEF WellTyped, TCB, TCBState, SameButState
  <2>2. u = fill_send_window(v)
    BY <1>4, <1>8
  <2>3. /\ AckedBy(e, answered) = 0 /\ answered.send_window = << >>
        /\ answered.byte_output = << >>
    <3> HIDE DEF answered
    <3>1. QED
      BY <1>5, <1>6, <1>8, <2>1 DEF Greeting, SameButState
  <2>4. ack = PureAck(e, 0)
    BY <1>2, <1>8 DEF PureAck
  <2> HIDE DEF answered, ack
  <2>5. Len(answered.byte_output) = 0
    BY <2>3
  <2>6. Phase(e, answered)
    <3>1. answered.seq_base # InitialSeq[e]
      BY <1>8, <2>1 DEF SameButState
    <3>2. QED
      BY <1>2, <1>8, <2>1, <2>3, <2>5, <3>1 DEF Phase, Greeting
  <2>7. Holds(e, answered, given, got, sent) /\ Grows(e, t, answered)
    BY <1>8, <2>1, <2>6, StateStep
  <2>8. Sound(e, answered, ack)
    <3>1. 0 \in 0 .. Len(answered.byte_output)
      BY <2>5
    <3>2. QED
      BY <2>4, <3>1 DEF Sound
  <2>9. Holds(e, v, given, got, sent) /\ Grows(e, answered, v)
    BY <2>7, <2>8, SendSegStep DEF send_ack
  <2>10. Kept(answered, v)
    BY <2>1 DEF WellTyped, TCB, send_ack, resend_seg, Kept
  <2> HIDE DEF v
  <2>11. Holds(e, u, given, got, sent) /\ Grows(e, v, u) /\ Kept(v, u)
    BY <2>2, <2>9, FillSendWindowStep
  <2>12. Grows(e, t, u)
    BY <2>7, <2>9, <2>11, GrowsTwice
  <2>13. QED
    BY <1>8, <2>1, <2>10, <2>11, <2>12 DEF SameButState, Kept, u
<1>9. CASE t.state = "SynRecd" /\ "ACK" \in seg.flags
  <2>1. /\ WellTyped(acked) /\ SameButState(t, acked)
        /\ acked.state = "Estab" /\ acked.ack_base = t.ack_base
    BY <1>1 DEF WellTyped, TCB, TCBState, SameButState
  <2>2. u = fill_send_window(acked)
    BY <1>4, <1>9
  <2> HIDE DEF acked
  <2>3. Phase(e, acked)
    BY <1>9, <2>1 DEF Holds, InStep, Phase, Greeting, SameButState
  <2>4. Holds(e, acked, given, got, sent) /\ Grows(e, t, acked)
    BY <1>9, <2>1, <2>3, StateStep
  <2>5. Holds(e, u, given, got, sent) /\ Grows(e, acked, u) /\ Kept(acked, u)
    BY <2>2, <2>4, FillSendWindowStep
  <2>6. Grows(e, t, u)
    BY <2>4, <2>5, GrowsTwice
  <2>7. QED
    BY <1>9, <2>1, <2>5, <2>6 DEF SameButState, Kept, u
<1>10. CASE /\ ~ (t.state = "Listen" /\ "SYN" \in seg.flags)
            /\ ~ (t.state = "SynSent" /\ {"SYN", "ACK"} \subseteq seg.flags)
            /\ ~ (t.state = "SynRecd" /\ "ACK" \in seg.flags)
  <2>1. u = t
    BY <1>4, <1>10
  <2>2. QED
    BY <1>10, <2>1, GrowsNot DEF u
<1>11. QED
  BY <1>7, <1>8, <1>9, <1>10

-----------------------------------------------------------------------------
(* Receiving: payloads.                                                    *)

(* A payload whose number is in the window of an established end starts at *)
(* or beyond what has been delivered and fits in the window, because the   *)
(* peer sends no more than a window beyond what it has seen acknowledged.  *)
LEMMA PayloadFits ==
    ASSUME NEW e \in Endpoint, NEW t, NEW given, NEW got, NEW sent,
           Holds(e, t, given, got, sent), t.state = "Estab",
           sent <= Len(t.byte_output) + WINDOW_SIZE,
           NEW seg, NEW i \in Nat, seg.seq_num = At(peer(e), i),
           NEW size \in Nat \ {0}, i + size <= sent,
           in_wrapped_range(t.ack_base, wrapping_add(t.ack_base, WINDOW_SIZE), seg.seq_num)
    PROVE  /\ Len(t.byte_output) <= i
           /\ window_index_base(t, seg) = i - Len(t.byte_output)
           /\ window_index_base(t, seg) .. window_index_base(t, seg) + size - 1 \subseteq Slot
<1> DEFINE d == Len(t.byte_output)
           p == peer(e)
<1>1. /\ p \in Endpoint /\ d \in Nat /\ sent \in Nat /\ d <= sent
      /\ sent + 2 * WINDOW_SIZE + 2 <= SEQ_SPACE
      /\ SEQ_SPACE \in Nat /\ WINDOW_SIZE \in Nat /\ WINDOW_SIZE \in SeqNum
  BY PeerProperties, Positions, Fields, Numbers DEF Holds
<1>2. t.ack_base = At(p, d)
  BY DEF Holds, InStep, Phase
<1> HIDE DEF d, p
<1>3. i < SEQ_SPACE /\ d < SEQ_SPACE /\ d + WINDOW_SIZE + 1 < SEQ_SPACE
  BY <1>1
<1>4. At(p, i) \in SeqNum /\ At(p, d) \in SeqNum
  BY <1>1, <1>3, AtProperties
<1>5. wrapping_sub(At(p, i), At(p, d)) = wrapping_sub(i, d)
  BY <1>1, <1>3, AtProperties
<1>6. wrapping_sub(At(p, i), At(p, d)) < WINDOW_SIZE
  BY <1>1, <1>2, <1>4, RangeIsDistance DEF p
<1>7. d <= i
  <2>1. wrapping_sub(i, d) < WINDOW_SIZE
    BY <1>5, <1>6
  <2>2. i + WINDOW_SIZE < SEQ_SPACE /\ d + WINDOW_SIZE < SEQ_SPACE
    BY <1>1
  <2>3. QED
    BY <1>1, <2>1, <2>2 DEF wrapping_sub
<1>8. window_index_base(t, seg) = i - d
  <2>1. wrapping_sub(i, d) = i - d
    BY <1>1, <1>7 DEF wrapping_sub
  <2>2. QED
    BY <1>2, <1>5, <2>1 DEF window_index_base, p
<1>9. (i - d) .. (i - d) + size - 1 \subseteq Slot
  <2>1. sent <= d + WINDOW_SIZE
    BY DEF d
  <2>2. \A j \in (i - d) .. (i - d) + size - 1 : j \in 0 .. WINDOW_SIZE - 1
    BY <1>1, <1>7, <2>1
  <2>3. QED
    BY <2>2 DEF Slot
<1>10. QED
  BY <1>7, <1>8, <1>9 DEF d

(* The loop of handle_payload sends on what is contiguous, and the window  *)
(* slides with it: its slots still hold the bytes that belong there, and   *)
(* the first is empty.                                                     *)
LEMMA DeliverPrefixStep ==
    ASSUME NEW e \in Endpoint, NEW t, NEW sent \in Nat, sent < SEQ_SPACE, WellTyped(t),
           HoldsStream(e, t, sent), t.ack_base = At(peer(e), Len(t.byte_output))
    PROVE  LET u == deliver_prefix(t)
           IN  /\ ReceiveSide(e, u, sent)
               /\ u.ack_base = At(peer(e), Len(u.byte_output))
               /\ Len(t.byte_output) <= Len(u.byte_output)
               /\ wrapping_sub(u.ack_base, t.ack_base) <= WINDOW_SIZE
               /\ t.recv_window[0] = None => u.byte_output = t.byte_output
<1> DEFINE u == deliver_prefix(t)
           n == FilledPrefix(t.recv_window)
           d == Len(t.byte_output)
<1>1. /\ d \in Nat /\ t.ack_base \in SeqNum /\ SEQ_SPACE \in Nat
      /\ WINDOW_SIZE \in Nat /\ 1 <= WINDOW_SIZE /\ WINDOW_SIZE \in SeqNum
      /\ peer(e) \in Endpoint
  BY Fields, Numbers, PeerProperties
<1>2. /\ n \in Nat /\ n <= WINDOW_SIZE
      /\ \A i \in Nat : i < n => i \in Slot /\ t.recv_window[i] # None
      /\ n \in Slot => t.recv_window[n] = None
      /\ Len(u.byte_output) = d + n
      /\ \A i \in 1 .. d + n :
           u.byte_output[i] = IF i <= d THEN t.byte_output[i] ELSE t.recv_window[i - d - 1]
      /\ n = 0 => u.byte_output = t.byte_output
      /\ \A i \in Slot : u.recv_window[i] = IF i + n \in Slot THEN t.recv_window[i + n] ELSE None
      /\ u.ack_base = wrapping_add(t.ack_base, n)
  BY DeliverPrefixProperties
<1> HIDE DEF u, n, d
<1>3. d + n <= sent
  <2>1. CASE n = 0
    BY <1>1, <2>1 DEF HoldsStream, d
  <2>2. CASE n # 0
    <3>1. n - 1 \in Nat /\ n - 1 < n /\ d + (n - 1) + 1 = d + n
      BY <1>1, <1>2, <2>2
    <3>2. d + (n - 1) + 1 <= sent
      BY <1>2, <3>1 DEF HoldsStream, d
    <3>3. QED
      BY <3>1, <3>2
  <2>3. QED
    BY <2>1, <2>2
<1>4. HoldsStream(e, u, sent)
  <2>1. ASSUME NEW i \in 1 .. Len(u.byte_output)
        PROVE  u.byte_output[i] = Stream[peer(e)][i]
    <3>1. i \in 1 .. d + n
      BY <1>2
    <3>2. CASE i <= d
      <4>1. i \in 1 .. d
        BY <1>1, <3>1, <3>2
      <4>2. u.byte_output[i] = t.byte_output[i]
        BY <1>2, <3>1, <3>2
      <4>3. QED
        BY <4>1, <4>2 DEF HoldsStream, d
    <3>3. CASE ~ i <= d
      <4>1. i - d - 1 \in Nat /\ i - d - 1 < n /\ d + (i - d - 1) + 1 = i
        BY <1>1, <1>2, <3>1, <3>3
      <4>2. i - d - 1 \in Slot /\ t.recv_window[i - d - 1] # None
        BY <1>2, <4>1
      <4>3. u.byte_output[i] = t.recv_window[i - d - 1]
        BY <1>2, <3>1, <3>3
      <4>4. t.recv_window[i - d - 1] = Stream[peer(e)][d + (i - d - 1) + 1]
        BY <4>2 DEF HoldsStream, d
      <4>5. QED
        BY <4>1, <4>3, <4>4
    <3>4. QED
      BY <3>2, <3>3
  <2>2. ASSUME NEW i \in Slot, u.recv_window[i] # None
        PROVE  /\ Len(u.byte_output) + i + 1 <= sent
               /\ u.recv_window[i] = Stream[peer(e)][Len(u.byte_output) + i + 1]
    <3>1. i + n \in Slot /\ u.recv_window[i] = t.recv_window[i + n]
      BY <1>2, <2>2
    <3>2. /\ d + (i + n) + 1 <= sent
          /\ t.recv_window[i + n] = Stream[peer(e)][d + (i + n) + 1]
      BY <2>2, <3>1 DEF HoldsStream, d
    <3>3. i \in Nat
      BY DEF Slot
    <3>4. d + (i + n) + 1 = (d + n) + i + 1
      BY <1>1, <1>2, <3>3
    <3>5. QED
      BY <1>2, <3>1, <3>2, <3>4
  <2>3. Len(u.byte_output) <= sent
    BY <1>2, <1>3
  <2>4. QED
    BY <2>1, <2>2, <2>3 DEF HoldsStream
<1>5. u.recv_window[0] = None
  <2>1. 0 \in Slot /\ 0 + n = n
    BY <1>1, <1>2 DEF Slot
  <2>2. QED
    BY <1>2, <2>1
<1>6. u.ack_base = At(peer(e), Len(u.byte_output))
  <2>1. d < SEQ_SPACE /\ d + n < SEQ_SPACE
    BY <1>1, <1>2, <1>3
  <2>2. wrapping_add(At(peer(e), d), n) = At(peer(e), d + n)
    BY <1>1, <1>2, <2>1, AtProperties
  <2>3. QED
    BY <1>2, <2>2 DEF d
<1>7. wrapping_sub(u.ack_base, t.ack_base) <= WINDOW_SIZE
  <2>1. n \in SeqNum
    BY <1>1, <1>2 DEF SeqNum
  <2>2. wrapping_sub(wrapping_add(t.ack_base, n), t.ack_base) = n
    BY <1>1, <2>1, WrappingType
  <2>3. QED
    BY <1>2, <2>2
<1>8. Len(t.byte_output) <= Len(u.byte_output)
  <2>1. d <= d + n
    BY <1>1, <1>2
  <2>2. QED
    BY <1>2, <2>1 DEF d
<1>9. t.recv_window[0] = None => u.byte_output = t.byte_output
  <2>1. 0 < n => t.recv_window[0] # None
    BY <1>2
  <2>2. QED
    BY <1>2, <2>1
<1>10. QED
  BY <1>4, <1>5, <1>6, <1>7, <1>8, <1>9 DEF ReceiveSide, u

\* t and u differ in what has been received at most
SameButReceived(t, u) ==
    /\ u.state = t.state
    /\ u.socket = t.socket
    /\ u.unacked_segs = t.unacked_segs
    /\ u.send_buffer = t.send_buffer
    /\ u.send_window = t.send_window
    /\ u.seq_base = t.seq_base

(* Receiving is right if what is received is.                              *)
LEMMA ReceivedStep ==
    ASSUME NEW e \in Endpoint, NEW t, NEW given, NEW got, NEW sent,
           Holds(e, t, given, got, sent), t.state = "Estab",
           NEW u, WellTyped(u), SameButReceived(t, u), ReceiveSide(e, u, sent),
           Len(t.byte_output) <= Len(u.byte_output),
           u.ack_base = At(peer(e), Len(u.byte_output))
    PROVE  Holds(e, u, given, got, sent) /\ Grows(e, t, u)
<1>1. AckedBy(e, u) = AckedBy(e, t) /\ SentBy(e, u) = SentBy(e, t)
  BY DEF SameButReceived, AckedBy, SentBy
<1>2. SentBy(e, t) \in Nat /\ Len(t.byte_output) \in Nat /\ Len(u.byte_output) \in Nat
  BY Positions, Fields DEF Holds
<1>3. Grows(e, t, u)
  BY <1>1, <1>2 DEF Grows
<1>4. \A seg : Sound(e, t, seg) => Sound(e, u, seg)
  <2>1. SentBy(e, u) \in Nat /\ t.state # "Closed"
    BY <1>1, <1>2
  <2>2. QED
    BY <1>2, <1>3, <2>1, SoundStays
<1>5. SoundOutput(e, u)
  BY <1>4 DEF Holds, InStep, SoundOutput, SameButReceived
<1>6. Phase(e, u)
  BY <1>1 DEF Holds, InStep, Phase, Greeting, SameButReceived
<1>7. SendSide(e, u, given)
  BY <1>1 DEF Holds, InStep, SendSide, SameButReceived
<1>8. QED
  BY <1>1, <1>3, <1>5, <1>6, <1>7 DEF Holds, InStep

(* A payload is stored where it belongs, what is contiguous goes to the    *)
(* application, and the ACK acknowledges just that.  What the peer has     *)
(* sent lies within a window of what has been delivered.                   *)
LEMMA HandlePayloadStep ==
    ASSUME NEW e \in Endpoint, NEW t, NEW given, NEW got, NEW sent,
           Holds(e, t, given, got, sent), sent <= Len(t.byte_output) + WINDOW_SIZE,
           NEW seg, Incoming(e, seg, got, sent)
    PROVE  LET u == handle_payload(t, seg)
           IN  /\ Holds(e, u, given, got, sent)
               /\ Grows(e, t, u)
               /\ u.state = t.state /\ u.seq_base = t.seq_base
               /\ wrapping_sub(u.ack_base, t.ack_base) <= WINDOW_SIZE
               /\ seg.payload = << >> => u.byte_output = t.byte_output
<1> DEFINE u == handle_payload(t, seg)
           size == Len(seg.payload)
           in_window == in_wrapped_range(t.ack_base, wrapping_add(t.ack_base, WINDOW_SIZE),
                                         seg.seq_num)
           index == window_index_base(t, seg)
           covered == index .. index + size - 1
           window == [i \in Slot |-> IF i \in covered THEN seg.payload[i - index + 1]
                                     ELSE t.recv_window[i]]
           stored == IF in_window THEN [t EXCEPT !.recv_window = window] ELSE t
           delivered == deliver_prefix(stored)
           ack == [make_seg EXCEPT !.flags = {"ACK"}, !.ack_num = delivered.ack_base]
           d == Len(t.byte_output)
<1>1. /\ WellTyped(t) /\ WellTyped(u) /\ seg \in Segment
      /\ seg.payload \in Seq(Byte) /\ size \in Nat /\ seg.seq_num \in SeqNum
      /\ t.recv_window \in [Slot -> Byte \cup {None}] /\ t.ack_base \in SeqNum
      /\ d \in Nat /\ sent \in Nat /\ d <= sent /\ sent < SEQ_SPACE
      /\ 1 <= WINDOW_SIZE /\ WINDOW_SIZE \in Nat /\ SEQ_SPACE \in Nat
  <2>1. WellTyped(t) /\ seg \in Segment
    BY DEF Holds, Incoming
  <2>2. seg.payload \in Seq(Byte) /\ seg.seq_num \in SeqNum /\ size \in Nat
    BY <2>1, LenProperties DEF Segment
  <2>3. WellTyped(u)
    BY <2>1, HandlePayloadType
  <2>4. WINDOW_SIZE \in Nat /\ 1 <= WINDOW_SIZE /\ SEQ_SPACE \in Nat
    BY Numbers
  <2>5. /\ t.recv_window \in [Slot -> Byte \cup {None}] /\ t.ack_base \in SeqNum /\ d \in Nat
    BY <2>1, Fields
  <2>6. sent \in Nat /\ d <= sent /\ sent + 2 * WINDOW_SIZE + 2 <= SEQ_SPACE
    BY Positions
  <2>7. sent < SEQ_SPACE
    BY <2>4, <2>6
  <2>8. QED
    BY <2>1, <2>2, <2>3, <2>4, <2>5, <2>6, <2>7
<1>2. CASE t.state # "Estab"
  <2>1. u = t
    BY <1>2 DEF handle_payload
  <2>2. wrapping_sub(t.ack_base, t.ack_base) <= WINDOW_SIZE
    BY <1>1 DEF wrapping_sub, SeqNum
  <2> HIDE DEF u
  <2>3. QED
    BY <2>1, <2>2, GrowsNot DEF u
<1>3. CASE t.state = "Estab"
  <2>1. u = CASE t.state # "Estab" -> t
              [] t.state = "Estab" /\ in_window /\ ~ covered \subseteq Slot ->
                   [t EXCEPT !.state = "Panicked"]
              [] t.state = "Estab" /\ covered \subseteq Slot /\ acknowledged(t, seg) ->
                   send_ack(delivered, ack)
              [] OTHER -> stored
    BY Zenon DEF handle_payload
  <2>2. t.ack_base = At(peer(e), d)
    BY <1>3 DEF Holds, InStep, Phase
  <2>3. index \in Nat
    <3>1. index \in SeqNum
      BY <1>1, WrappingType DEF window_index_base
    <3> HIDE DEF index
    <3>2. QED
      BY <3>1 DEF SeqNum
  <2>4. ASSUME in_window, size # 0
        PROVE  \E i \in Nat :
                  /\ d <= i /\ index = i - d /\ covered \subseteq Slot /\ i + size <= sent
                  /\ \A j \in 1 .. size : seg.payload[j] = Stream[peer(e)][i + j]
    <3>1. seg.payload # << >>
      BY <2>4, EmptySeq
    <3>2. PICK i \in Nat :
            /\ seg.seq_num = At(peer(e), i)
            /\ i + Len(seg.payload) <= sent
            /\ \A j \in 1 .. Len(seg.payload) : seg.payload[j] = Stream[peer(e)][i + j]
      BY <3>1 DEF Incoming
    <3>3. /\ d <= i /\ index = i - d /\ covered \subseteq Slot
      <4>1. size \in Nat \ {0} /\ i + size <= sent
        BY <1>1, <2>4, <3>2
      <4> HIDE DEF size
      <4>2. QED
        BY <1>3, <2>4, <3>2, <4>1, PayloadFits
    <3>4. QED
      BY <3>2, <3>3
  <2>5. in_window => covered \subseteq Slot
    <3>1. CASE size = 0
      <4> HIDE DEF index, size
      <4>1. covered = {}
        BY <2>3, <3>1
      <4>2. QED
        BY <4>1
    <3>2. CASE size # 0
      BY <2>4, <3>2
    <3>3. QED
      BY <3>1, <3>2
  <2>6. /\ SameButReceived(t, stored) /\ stored.byte_output = t.byte_output
        /\ stored.ack_base = t.ack_base
        /\ stored.recv_window = IF in_window THEN window ELSE t.recv_window
    <3> HIDE DEF window, in_window
    <3>1. QED
      BY <1>1 DEF WellTyped, TCB, SameButReceived
  <2>7. in_window => \A i \in Slot :
           window[i] = IF i \in covered THEN seg.payload[i - index + 1] ELSE t.recv_window[i]
    OBVIOUS
  <2>8. in_window => window \in [Slot -> Byte \cup {None}]
    <3>1. ASSUME NEW i \in Slot, i \in covered PROVE seg.payload[i - index + 1] \in Byte
      <4> HIDE DEF index, size
      <4>1. i - index + 1 \in 1 .. size
        BY <1>1, <2>3, <3>1
      <4>2. QED
        BY <1>1, <4>1, ElementOfSeq DEF size
    <3>2. \A i \in Slot : t.recv_window[i] \in Byte \cup {None}
      BY <1>1
    <3> HIDE DEF covered, index
    <3>3. QED
      BY <3>1, <3>2
  <2>9. WellTyped(stored)
    <3> HIDE DEF window, in_window
    <3>1. QED
      BY <1>1, <2>8 DEF WellTyped, TCB
  <2> HIDE DEF window, stored, u
  <2>10. HoldsStream(e, stored, sent)
    <3>1. ASSUME NEW i \in Slot, stored.recv_window[i] # None
          PROVE  /\ d + i + 1 <= sent
                 /\ stored.recv_window[i] = Stream[peer(e)][d + i + 1]
      <4>1. CASE in_window /\ i \in covered
        <5> HIDE DEF in_window, index
        <5>1. i \in Nat /\ size # 0 /\ i >= index /\ i <= index + size - 1
          BY <1>1, <2>3, <4>1 DEF Slot
        <5>2. PICK k \in Nat :
                /\ d <= k /\ index = k - d /\ k + size <= sent
                /\ \A j \in 1 .. size : seg.payload[j] = Stream[peer(e)][k + j]
          BY <2>4, <4>1, <5>1
        <5> HIDE DEF d, size
        <5>3. i - index + 1 \in 1 .. size
          BY <1>1, <2>3, <5>1
        <5>4. k + (i - index + 1) = d + i + 1
          BY <1>1, <5>1, <5>2
        <5>5. d + i + 1 <= sent
          BY <1>1, <5>1, <5>2
        <5>6. stored.recv_window[i] = seg.payload[i - index + 1]
          BY <2>6, <2>7, <4>1
        <5>7. seg.payload[i - index + 1] = Stream[peer(e)][k + (i - index + 1)]
          BY <5>2, <5>3
        <5>8. QED
          BY <5>4, <5>5, <5>6, <5>7
      <4>2. CASE ~ (in_window /\ i \in covered)
        <5> HIDE DEF in_window, covered
        <5>1. stored.recv_window[i] = t.recv_window[i]
          BY <2>6, <2>7, <4>2
        <5>2. QED
          BY <3>1, <5>1 DEF Holds, InStep, ReceiveSide, HoldsStream
      <4>3. QED
        BY <4>1, <4>2
    <3>2. QED
      BY <2>6, <3>1 DEF Holds, InStep, ReceiveSide, HoldsStream
  <2>11. ASSUME ~ acknowledged(t, seg) \/ size = 0
         PROVE  stored.recv_window[0] = None
    <3>1. 0 \in Slot
      BY <1>1 DEF Slot
    <3>2. t.recv_window[0] = None
      BY DEF Holds, InStep, ReceiveSide
    <3>3. in_window => 0 \notin covered
      <4>1. CASE size = 0
        <5> HIDE DEF index, size
        <5>1. covered = {}
          BY <2>3, <4>1
        <5>2. QED
          BY <5>1
      <4>2. CASE ~ acknowledged(t, seg)
        <5>1. seg.seq_num # t.ack_base
          BY <4>2 DEF acknowledged
        <5>2. index # 0
          BY <1>1, <5>1 DEF window_index_base, wrapping_sub, SeqNum
        <5> HIDE DEF index, size
        <5>3. QED
          BY <1>1, <2>3, <5>2
      <4>3. QED
        BY <2>11, <4>1, <4>2
    <3> HIDE DEF in_window, covered
    <3>4. QED
      BY <2>6, <2>7, <3>1, <3>2, <3>3
  <2>12. /\ ReceiveSide(e, delivered, sent)
         /\ delivered.ack_base = At(peer(e), Len(delivered.byte_output))
         /\ Len(t.byte_output) <= Len(delivered.byte_output)
         /\ wrapping_sub(delivered.ack_base, t.ack_base) <= WINDOW_SIZE
         /\ size = 0 => delivered.byte_output = t.byte_output
    BY <1>1, <2>2, <2>6, <2>9, <2>10, <2>11, DeliverPrefixStep
  <2>13. WellTyped(delivered) /\ SameButReceived(t, delivered)
    <3>1. WellTyped(delivered)
      BY <2>9, DeliverPrefixType
    <3>2. SameButReceived(stored, delivered)
      BY <2>9 DEF WellTyped, TCB, deliver_prefix, SameButReceived
    <3>3. QED
      BY <2>6, <3>1, <3>2 DEF SameButReceived
  <2>14. wrapping_sub(t.ack_base, t.ack_base) <= WINDOW_SIZE
    BY <1>1 DEF wrapping_sub, SeqNum
  <2>15. seg.payload = << >> => size = 0
    BY EmptySeq
  <2> HIDE DEF delivered, in_window, covered, size
  <2>16. CASE covered \subseteq Slot /\ acknowledged(t, seg)
    <3>1. u = send_ack(delivered, ack)
      BY <1>3, <2>1, <2>16
    <3>2. Holds(e, delivered, given, got, sent) /\ Grows(e, t, delivered)
      BY <1>3, <2>12, <2>13, ReceivedStep
    <3>3. Sound(e, delivered, ack)
      <4>1. ack = PureAck(e, Len(delivered.byte_output))
        BY <2>12 DEF PureAck
      <4>2. Len(delivered.byte_output) \in 0 .. Len(delivered.byte_output)
        <5>1. Len(delivered.byte_output) \in Nat
          BY <2>13, Fields
        <5>2. QED
          BY <5>1
      <4>3. QED
        BY <4>1, <4>2 DEF Sound
    <3> HIDE DEF ack
    <3>4. Holds(e, u, given, got, sent) /\ Grows(e, delivered, u)
      BY <3>1, <3>2, <3>3, SendSegStep DEF send_ack
    <3>5. Kept(delivered, u)
      BY <2>13, <3>1 DEF WellTyped, TCB, send_ack, resend_seg, Kept
    <3>6. Grows(e, t, u)
      BY <3>2, <3>4, GrowsTwice
    <3>7. QED
      BY <2>12, <2>13, <2>15, <3>4, <3>5, <3>6 DEF Kept, SameButReceived, u
  <2>17. CASE ~ (covered \subseteq Slot /\ acknowledged(t, seg))
    <3>1. u = stored
      BY <1>3, <2>1, <2>5, <2>17
    <3>2. stored.recv_window[0] = None
      <4>1. CASE in_window
        BY <2>5, <2>11, <2>17, <4>1
      <4>2. CASE ~ in_window
        BY <2>6, <4>2 DEF Holds, InStep, ReceiveSide
      <4>3. QED
        BY <4>1, <4>2
    <3>3. ReceiveSide(e, stored, sent)
      BY <2>10, <3>2 DEF ReceiveSide
    <3>4. /\ Len(t.byte_output) <= Len(stored.byte_output)
          /\ stored.ack_base = At(peer(e), Len(stored.byte_output))
      BY <1>1, <2>2, <2>6
    <3>5. Holds(e, stored, given, got, sent) /\ Grows(e, t, stored)
      BY <1>3, <2>6, <2>9, <3>3, <3>4, ReceivedStep
    <3>6. QED
      BY <2>6, <2>14, <3>1, <3>5 DEF SameButReceived, u
  <2>18. QED
    BY <2>16, <2>17
<1>4. QED
  BY <1>2, <1>3

-----------------------------------------------------------------------------
(* Receiving: the whole of handle_seg, in the order of its calls.          *)
LEMMA HandleSegStep ==
    ASSUME NEW e \in Endpoint, NEW t, NEW given, NEW got, NEW sent,
           Holds(e, t, given, got, sent), sent <= Len(t.byte_output) + WINDOW_SIZE,
           NEW seg, Incoming(e, seg, got, sent), t.state # "Closed",
           t.state = "Listen" => seg.flags = {"SYN"}
    PROVE  LET u == handle_seg(t, seg)
           IN  /\ Holds(e, u, given, got, sent)
               /\ Grows(e, t, u)
               /\ u.state # "Listen"
               /\ u.state = "Closed" <=> "FIN" \in seg.flags
               /\ "FIN" \in seg.flags => u.byte_output = t.byte_output
               /\ wrapping_sub(u.seq_base, t.seq_base) <= WINDOW_SIZE
               /\ t.state = "Estab" => wrapping_sub(u.ack_base, t.ack_base) <= WINDOW_SIZE
<1> DEFINE a == handle_acks(t, seg)
           s == handle_shake(a, seg)
           h == handle_payload(s, seg)
           u == handle_seg(t, seg)
<1>1. /\ Holds(e, a, given, got, sent) /\ Grows(e, t, a)
      /\ a.state = t.state /\ a.ack_base = t.ack_base /\ a.byte_output = t.byte_output
      /\ "ACK" \in seg.flags => a.seq_base # InitialSeq[e]
      /\ wrapping_sub(a.seq_base, t.seq_base) <= WINDOW_SIZE
  <2>1. t.state = "Listen" => "ACK" \notin seg.flags
    OBVIOUS
  <2>2. QED
    BY <2>1, HandleAcksStep
<1>2. u = IF "FIN" \in seg.flags /\ h.state # "Panicked" THEN handle_close(h) ELSE h
  BY DEF handle_seg
<1> HIDE DEF a, u
<1>3. /\ Holds(e, s, given, got, sent) /\ Grows(e, a, s) /\ s.state # "Closed"
      /\ s.state = "Listen" => a.state = "Listen" /\ "SYN" \notin seg.flags
      /\ s.seq_base = a.seq_base /\ s.byte_output = a.byte_output
      /\ a.state = "Estab" => s.state = "Estab" /\ s.ack_base = a.ack_base
  BY <1>1, HandleShakeStep
<1> HIDE DEF s
<1>4. /\ Holds(e, h, given, got, sent) /\ Grows(e, s, h)
      /\ h.state = s.state /\ h.seq_base = s.seq_base
      /\ wrapping_sub(h.ack_base, s.ack_base) <= WINDOW_SIZE
      /\ seg.payload = << >> => h.byte_output = s.byte_output
  <2>1. sent <= Len(s.byte_output) + WINDOW_SIZE
    BY <1>1, <1>3
  <2>2. QED
    BY <1>3, <2>1, HandlePayloadStep
<1> HIDE DEF h
<1>5. Grows(e, t, h)
  BY <1>1, <1>3, <1>4, GrowsTwice
<1>6. h.state # "Listen" /\ h.state # "Closed" /\ h.state # "Panicked"
  BY <1>1, <1>3, <1>4 DEF Holds, InStep, Phase
<1>7. CASE "FIN" \notin seg.flags
  <2>1. u = h
    BY <1>2, <1>7
  <2>2. QED
    BY <1>1, <1>3, <1>4, <1>5, <1>6, <1>7, <2>1 DEF u
<1>8. CASE "FIN" \in seg.flags
  <2>1. u = [h EXCEPT !.state = "Closed"]
    BY <1>2, <1>6, <1>8 DEF handle_close
  <2>2. /\ WellTyped(u) /\ SameButState(h, u) /\ u.state = "Closed" /\ u.ack_base = h.ack_base
    BY <1>4, <2>1 DEF Holds, WellTyped, TCB, TCBState, SameButState
  <2>3. Phase(e, u)
    BY <2>2 DEF Phase, Greeting
  <2>4. Holds(e, u, given, got, sent) /\ Grows(e, h, u)
    BY <1>4, <1>6, <2>2, <2>3, StateStep
  <2>5. Grows(e, t, u)
    BY <1>1, <1>4, <1>5, <2>4, GrowsTwice
  <2>6. seg.payload = << >>
    BY <1>8 DEF Incoming
  <2>7. QED
    BY <1>1, <1>3, <1>4, <1>8, <2>2, <2>4, <2>5, <2>6 DEF SameButState, u
<1>9. QED
  BY <1>7, <1>8
=============================================================================
