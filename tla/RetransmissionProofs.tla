------------------------ MODULE RetransmissionProofs ------------------------
(***************************************************************************)
(* CutInvariant is an invariant of Connection, and with it what an         *)
(* established end has in flight can be sent again.                        *)
(*                                                                         *)
(* Both halves of CutInvariant are about one direction of a connection:    *)
(* the sender e, whose TCB is t, and the receiver, whose TCB is w.  The    *)
(* lemmas take the two kinds of step one after the other, first those of   *)
(* the sender, then those of the receiver.                                 *)
(***************************************************************************)
EXTENDS DeliveryTheorems, Retransmission

-----------------------------------------------------------------------------
(* Pieces of the stream.                                                   *)

(* A segment with a payload, as send_data cuts it, is the piece of the     *)
(* stream from its sequence number on (tcp.rs 130-150).                    *)
LEMMA PieceOf ==
    ASSUME NEW e \in Endpoint, NEW i \in Nat, NEW n \in Nat \ {0}, i + n <= Len(Stream[e])
    PROVE  LET seg == Data(e, i, n)
           IN  /\ seg.payload # << >> /\ Len(seg.payload) = n
               /\ seg.seq_num = At(e, i) /\ seg.flags = {}
               /\ Place(e, seg) = i /\ After(e, seg) = i + n
<1> DEFINE seg == Data(e, i, n)
<1>1. /\ seg.seq_num = At(e, i) /\ seg.flags = {} /\ seg.payload \in Seq(Byte)
      /\ Len(seg.payload) = n
  BY DataProperties
<1>2. i \in SeqNum /\ FirstSeq(e) \in SeqNum
  <2>1. Len(Stream[e]) \in Nat /\ Len(Stream[e]) < SEQ_SPACE /\ SEQ_SPACE \in Nat
    BY Numbers
  <2>2. i < SEQ_SPACE
    BY <2>1
  <2>3. i \in SeqNum
    BY <2>1, <2>2 DEF SeqNum
  <2>4. QED
    BY <2>3, Numbers
<1> HIDE DEF seg
<1>3. Place(e, seg) = i
  BY <1>1, <1>2, WrappingType, ZenonT(40) DEF Place, At
<1>4. seg.payload # << >>
  BY <1>1
<1>5. QED
  BY <1>1, <1>3, <1>4 DEF After, seg

(* Every sound datagram with a payload is such a piece.                    *)
LEMMA PieceProperties ==
    ASSUME NEW e \in Endpoint, NEW t, NEW given, NEW got, NEW sent,
           Holds(e, t, given, got, sent), NEW seg, Sound(e, t, seg), seg.payload # << >>
    PROVE  /\ Place(e, seg) \in Nat /\ After(e, seg) \in Nat
           /\ Place(e, seg) < After(e, seg) /\ After(e, seg) <= SentBy(e, t)
           /\ Len(seg.payload) = After(e, seg) - Place(e, seg)
           /\ seg = Data(e, Place(e, seg), After(e, seg) - Place(e, seg))
           /\ seg.seq_num = At(e, Place(e, seg))
           /\ seg.flags = {}
<1>1. /\ SentBy(e, t) \in Nat /\ SentBy(e, t) <= Len(Stream[e])
      /\ t.seq_base \in SeqNum /\ Len(t.byte_output) \in Nat /\ Len(t.byte_output) < SEQ_SPACE
      /\ Len(Stream[e]) \in Nat
  <2>1. /\ SentBy(e, t) \in Nat /\ given \in Nat /\ Len(Stream[e]) \in Nat
        /\ SentBy(e, t) <= given /\ given <= Len(Stream[e])
    BY Positions, Numbers
  <2>2. SentBy(e, t) <= Len(Stream[e])
    BY <2>1
  <2>3. /\ Len(t.byte_output) \in Nat /\ sent \in Nat /\ Len(t.byte_output) <= sent
        /\ sent + 2 * WINDOW_SIZE + 2 <= SEQ_SPACE /\ t.seq_base \in SeqNum
        /\ WINDOW_SIZE \in Nat /\ SEQ_SPACE \in Nat
    BY Fields, Positions, Numbers DEF Holds
  <2>4. Len(t.byte_output) < SEQ_SPACE
    BY <2>3
  <2>5. QED
    BY <2>1, <2>2, <2>3, <2>4
<1>2. \E i \in 0 .. SentBy(e, t) - 1 :
        \E n \in 1 .. min(MAX_PAYLOAD_SIZE, SentBy(e, t) - i) : seg = Data(e, i, n)
  <2>1. /\ Syn(e).payload = << >> /\ SynAck(e).payload = << >> /\ Fin(t.seq_base).payload = << >>
    <3>1. 0 \in Nat /\ 0 < SEQ_SPACE
      BY Numbers
    <3>2. QED
      BY <1>1, <3>1, ControlProperties
  <2>2. \A n \in 0 .. Len(t.byte_output) : PureAck(e, n).payload = << >>
    <3> TAKE n \in 0 .. Len(t.byte_output)
    <3>1. n \in Nat /\ n < SEQ_SPACE
      BY <1>1, Numbers
    <3>2. QED
      BY <1>1, <3>1, ControlProperties
  <2>3. QED
    BY <2>1, <2>2 DEF Sound
<1>3. PICK i \in 0 .. SentBy(e, t) - 1 :
        \E n \in 1 .. min(MAX_PAYLOAD_SIZE, SentBy(e, t) - i) : seg = Data(e, i, n)
  BY <1>2
<1>4. PICK n \in 1 .. min(MAX_PAYLOAD_SIZE, SentBy(e, t) - i) : seg = Data(e, i, n)
  BY <1>3
<1>5. i \in Nat /\ n \in Nat \ {0} /\ i + n <= SentBy(e, t) /\ i + n <= Len(Stream[e])
  <2>1. i \in Nat /\ n \in Nat \ {0} /\ n <= SentBy(e, t) - i
    BY <1>1, Numbers DEF min
  <2>2. i + n <= SentBy(e, t)
    BY <1>1, <2>1
  <2>3. QED
    BY <1>1, <2>1, <2>2
<1>6. /\ Len(seg.payload) = n /\ seg.seq_num = At(e, i) /\ seg.flags = {}
      /\ Place(e, seg) = i /\ After(e, seg) = i + n
  BY <1>4, <1>5, PieceOf
<1>7. (i + n) - i = n /\ i < i + n /\ i + n \in Nat
  BY <1>5
<1>8. QED
  BY <1>4, <1>5, <1>6, <1>7

(* The queue of an established end lies in the order of the stream, from   *)
(* what is acknowledged up to what is sent.                                *)
LEMMA QueueOrder ==
    ASSUME NEW e \in Endpoint, NEW t, NEW given, NEW got, NEW sent,
           Holds(e, t, given, got, sent), Consecutive(e, t)
    PROVE  LET q == t.unacked_segs
           IN  /\ Len(q) \in Nat
               /\ \A k \in 1 .. Len(q) :
                    /\ Sound(e, t, q[k]) /\ q[k].payload # << >>
                    /\ Place(e, q[k]) \in Nat /\ After(e, q[k]) \in Nat
                    /\ AckedBy(e, t) <= Place(e, q[k])
                    /\ Place(e, q[k]) < After(e, q[k])
                    /\ After(e, q[k]) <= SentBy(e, t)
                    /\ q[k].seq_num = At(e, Place(e, q[k]))
               /\ \A k \in 1 .. Len(q) : \A j \in 1 .. k - 1 : After(e, q[j]) <= Place(e, q[k])
<1> DEFINE q == t.unacked_segs
           n == Len(q)
           lo == AckedBy(e, t)
           place(k) == Place(e, q[k])
           after(k) == After(e, q[k])
<1>1. n \in Nat /\ lo \in Nat
  BY Fields, Positions DEF Holds
<1>2. \A k \in 1 .. n : Sound(e, t, q[k]) /\ q[k].payload # << >>
  BY DEF Holds, InStep, SoundOutput, Consecutive
<1>3. \A k \in 1 .. n :
        /\ place(k) \in Nat /\ after(k) \in Nat /\ place(k) < after(k)
        /\ after(k) <= SentBy(e, t) /\ q[k].seq_num = At(e, place(k))
  BY <1>2, PieceProperties
<1>4. \A k \in 1 .. n : place(k) = IF k = 1 THEN lo ELSE after(k - 1)
  BY DEF Consecutive
<1> HIDE DEF q, n, lo, place, after
<1>5. ASSUME NEW j \in 0 .. n, NEW b \in Nat,
             j < n => b <= place(j + 1),
             \A k \in 1 .. n : b <= place(k) => b <= after(k)
      PROVE  \A k \in j + 1 .. n : b <= place(k)
  <2> DEFINE bad == {k \in j + 1 .. n : ~ b <= place(k)}
  <2>1. SUFFICES ASSUME bad # {} PROVE FALSE
    OBVIOUS
  <2>2. bad \in SUBSET Nat
    BY <1>1
  <2> DEFINE m == Least(bad)
  <2>3. m \in bad /\ \A k \in bad : m <= k
    BY <2>1, <2>2, LeastProperties
  <2> HIDE DEF m
  <2>4. m \in j + 1 .. n /\ ~ b <= place(m) /\ m # j + 1
    BY <1>1, <1>5, <2>3
  <2>5. m - 1 \in j + 1 .. n /\ m \in 1 .. n /\ m # 1 /\ m - 1 \in 1 .. n /\ ~ m <= m - 1
    BY <1>1, <2>4
  <2>6. b <= place(m - 1)
    BY <2>3, <2>5
  <2>7. b <= after(m - 1)
    BY <1>5, <2>5, <2>6
  <2>8. place(m) = after(m - 1)
    BY <1>4, <2>5
  <2>9. QED
    BY <2>4, <2>7, <2>8
<1>6. \A b \in Nat : \A k \in 1 .. n : b <= place(k) => b <= after(k)
  BY <1>3
<1>7. \A k \in 1 .. n : lo <= place(k)
  <2>1. 0 < n => lo <= place(0 + 1)
    BY <1>1, <1>4
  <2>2. 0 \in 0 .. n
    BY <1>1
  <2>3. \A k \in 0 + 1 .. n : lo <= place(k)
    BY <1>1, <1>5, <1>6, <2>1, <2>2
  <2>4. QED
    BY <2>3
<1>8. \A j \in 1 .. n : \A k \in j + 1 .. n : after(j) <= place(k)
  <2> TAKE j \in 1 .. n
  <2>1. j \in 0 .. n /\ after(j) \in Nat
    BY <1>1, <1>3
  <2>2. j < n => after(j) <= place(j + 1)
    <3>1. j < n => j + 1 \in 1 .. n /\ j + 1 # 1 /\ (j + 1) - 1 = j
      BY <1>1
    <3>2. j < n => place(j + 1) = after(j)
      BY <1>4, <3>1
    <3>3. QED
      BY <2>1, <3>2
  <2>3. QED
    BY <1>5, <1>6, <2>1, <2>2
<1>9. \A k \in 1 .. n : \A j \in 1 .. k - 1 : after(j) <= place(k)
  <2> TAKE k \in 1 .. n
  <2> TAKE j \in 1 .. k - 1
  <2>1. j \in 1 .. n /\ k \in j + 1 .. n
    BY <1>1
  <2>2. QED
    BY <1>8, <2>1
<1>10. QED
  BY <1>1, <1>2, <1>3, <1>7, <1>9 DEF q, n, lo, place, after

(* A cut is a place in the send window that lies inside none of the queued *)
(* segments, and every such place is a cut.                                *)
LEMMA CutProperties ==
    ASSUME NEW e \in Endpoint, NEW t, NEW given, NEW got, NEW sent,
           Holds(e, t, given, got, sent), Consecutive(e, t)
    PROVE  LET q == t.unacked_segs
               Outside(x) == \A k \in 1 .. Len(q) :
                                x <= Place(e, q[k]) \/ After(e, q[k]) <= x
           IN  /\ \A x \in Cuts(e, t) :
                    x \in Nat /\ AckedBy(e, t) <= x /\ x <= SentBy(e, t) /\ Outside(x)
               /\ \A x \in AckedBy(e, t) .. SentBy(e, t) : Outside(x) => x \in Cuts(e, t)
<1> DEFINE q == t.unacked_segs
           n == Len(q)
           lo == AckedBy(e, t)
           hi == SentBy(e, t)
           place(k) == Place(e, q[k])
           after(k) == After(e, q[k])
           Outside(x) == \A k \in 1 .. n : x <= place(k) \/ after(k) <= x
<1>1. n \in Nat /\ lo \in Nat /\ hi \in Nat /\ lo <= hi
  <2>1. lo \in Nat /\ hi \in Nat /\ got \in Nat /\ lo <= got /\ got <= hi
    BY Positions
  <2>2. QED
    BY <2>1, Fields DEF Holds
<1>2. /\ \A k \in 1 .. n :
           /\ place(k) \in Nat /\ after(k) \in Nat /\ lo <= place(k)
           /\ place(k) < after(k) /\ after(k) <= hi
      /\ \A k \in 1 .. n : \A j \in 1 .. k - 1 : after(j) <= place(k)
  BY QueueOrder
<1>3. /\ \A k \in 1 .. n : place(k) = IF k = 1 THEN lo ELSE after(k - 1)
      /\ hi = IF n = 0 THEN lo ELSE after(n)
  BY DEF Consecutive
<1>4. Cuts(e, t) = {lo} \cup {after(k) : k \in 1 .. n}
  BY DEF Cuts
<1> HIDE DEF q, n, lo, hi, place, after
<1>5. lo \in Nat /\ lo <= lo /\ lo <= hi /\ Outside(lo)
  BY <1>1, <1>2
<1>6. ASSUME NEW i \in 1 .. n
      PROVE  lo <= after(i) /\ after(i) <= hi /\ after(i) \in Nat /\ Outside(after(i))
  <2>1. after(i) \in Nat /\ lo <= after(i) /\ after(i) <= hi
    BY <1>1, <1>2
  <2>2. ASSUME NEW k \in 1 .. n
        PROVE  after(i) <= place(k) \/ after(k) <= after(i)
    <3>1. CASE i \in 1 .. k - 1
      BY <1>2, <3>1
    <3>2. CASE i = k
      BY <2>1, <3>2
    <3>3. CASE k \in 1 .. i - 1
      <4>1. after(k) <= place(i) /\ place(i) < after(i) /\ place(i) \in Nat /\ after(k) \in Nat
        BY <1>2, <3>3
      <4>2. QED
        BY <2>1, <4>1
    <3>4. QED
      BY <1>1, <3>1, <3>2, <3>3
  <2>3. QED
    BY <2>1, <2>2
<1>7. ASSUME NEW x \in lo .. hi, Outside(x)
      PROVE  x \in Cuts(e, t)
  <2>1. CASE x = lo
    BY <1>4, <2>1
  <2>2. CASE x # lo
    <3>1. x \in Nat /\ lo < x /\ x <= hi /\ n # 0
      BY <1>1, <1>3, <2>2
    <3> DEFINE past == {k \in 1 .. n : x <= after(k)}
               m == Least(past)
    <3>2. past \in SUBSET Nat /\ n \in past
      BY <1>1, <1>3, <3>1
    <3>3. m \in past /\ \A k \in past : m <= k
      BY <3>2, LeastProperties
    <3> HIDE DEF m
    <3>4. m \in 1 .. n /\ x <= after(m) /\ after(m) \in Nat /\ place(m) \in Nat
      BY <1>2, <3>3
    <3>5. place(m) < x
      <4>1. CASE m = 1
        BY <1>3, <3>1, <3>4, <4>1
      <4>2. CASE m # 1
        <5>1. m - 1 \in 1 .. n /\ ~ m <= m - 1
          BY <1>1, <3>4, <4>2
        <5>2. ~ x <= after(m - 1) /\ after(m - 1) \in Nat
          BY <1>2, <3>3, <5>1
        <5>3. place(m) = after(m - 1)
          BY <1>3, <3>4, <4>2
        <5>4. QED
          BY <3>1, <5>2, <5>3
      <4>3. QED
        BY <4>1, <4>2
    <3>6. after(m) <= x
      BY <1>7, <3>1, <3>4, <3>5
    <3>7. x = after(m)
      BY <3>1, <3>4, <3>6
    <3>8. QED
      BY <1>4, <3>4, <3>7
  <2>3. QED
    BY <2>1, <2>2
<1>8. \A x \in Cuts(e, t) : x \in Nat /\ lo <= x /\ x <= hi /\ Outside(x)
  BY <1>4, <1>5, <1>6
<1>9. \A x \in lo .. hi : Outside(x) => x \in Cuts(e, t)
  BY <1>7
<1>10. QED
  BY <1>8, <1>9 DEF q, n, lo, hi, place, after

(* An ACK that acknowledges up to a cut takes out of the queue just the    *)
(* segments before the cut (handle_acks, tcp.rs 217-225).                  *)
LEMMA RetainFromCut ==
    ASSUME NEW e \in Endpoint, NEW t, NEW given, NEW got, NEW sent,
           Holds(e, t, given, got, sent), Consecutive(e, t),
           NEW x \in Cuts(e, t), AckedBy(e, t) < x
    PROVE  LET q == t.unacked_segs
               left == retain_unacked(q, At(e, x))
           IN  \E c \in 1 .. Len(q) :
                 /\ After(e, q[c]) = x
                 /\ left \in Seq(Segment) /\ Len(left) = Len(q) - c
                 /\ \A k \in 1 .. Len(q) - c : left[k] = q[c + k]
<1> DEFINE q == t.unacked_segs
           n == Len(q)
           lo == AckedBy(e, t)
           hi == SentBy(e, t)
           place(k) == Place(e, q[k])
           after(k) == After(e, q[k])
<1>1. /\ n \in Nat /\ lo \in Nat /\ hi \in Nat /\ q \in Seq(Segment)
      /\ WINDOW_SIZE \in SeqNum /\ WINDOW_SIZE \in Nat /\ SEQ_SPACE \in Nat
  BY Positions, Fields, Numbers DEF Holds
<1>2. hi <= lo + WINDOW_SIZE /\ hi + 2 * WINDOW_SIZE + 2 <= SEQ_SPACE
  <2>1. Len(t.send_window) \in Nat /\ Len(t.send_window) <= WINDOW_SIZE
    BY Fields DEF Holds
  <2>2. hi = lo + Len(t.send_window)
    BY Positions
  <2>3. hi + 2 * WINDOW_SIZE + 2 <= SEQ_SPACE
    BY Positions
  <2> HIDE DEF hi, lo
  <2>4. hi <= lo + WINDOW_SIZE
    BY <1>1, <2>1, <2>2
  <2>5. QED
    BY <2>3, <2>4
<1>3. /\ \A k \in 1 .. n :
           /\ place(k) \in Nat /\ after(k) \in Nat /\ lo <= place(k)
           /\ place(k) < after(k) /\ after(k) <= hi /\ q[k].seq_num = At(e, place(k))
      /\ \A k \in 1 .. n : \A j \in 1 .. k - 1 : after(j) <= place(k)
  BY QueueOrder
<1>4. PICK c \in 1 .. n : x = after(c)
  <2>1. x # AckedBy(e, t)
    BY <1>1
  <2>2. QED
    BY <2>1 DEF Cuts
<1>5. x \in Nat /\ lo <= x /\ x <= hi
  BY CutProperties
<1> HIDE DEF q, n, lo, hi, place, after
<1>6. \A i \in 1 .. n : StillUnacked(At(e, x), q[i]) <=> c < i
  <2> TAKE i \in 1 .. n
  <2>1. x < SEQ_SPACE /\ place(i) < SEQ_SPACE /\ place(i) \in Nat
    BY <1>1, <1>2, <1>3, <1>5
  <2>2. At(e, x) \in SeqNum /\ At(e, place(i)) \in SeqNum
    BY <1>5, <2>1, AtProperties
  <2>3. StillUnacked(At(e, x), q[i]) <=> wrapping_sub(At(e, place(i)), At(e, x)) < WINDOW_SIZE
    BY <1>1, <1>3, <2>2, RangeIsDistance DEF StillUnacked
  <2>4. wrapping_sub(At(e, place(i)), At(e, x)) = wrapping_sub(place(i), x)
    BY <1>5, <2>1, AtProperties
  <2>5. wrapping_sub(place(i), x) < WINDOW_SIZE <=> x <= place(i)
    <3>1. lo <= place(i) /\ place(i) <= hi
      BY <1>1, <1>3
    <3>2. CASE x <= place(i)
      <4>1. wrapping_sub(place(i), x) = place(i) - x
        BY <1>5, <2>1, <3>2 DEF wrapping_sub
      <4>2. place(i) - x < WINDOW_SIZE
        <5>1. lo \in Nat /\ x \in Nat /\ lo <= x /\ place(i) <= lo + WINDOW_SIZE
              /\ x # lo /\ WINDOW_SIZE \in Nat /\ place(i) \in Nat
          BY <1>1, <1>2, <1>5, <2>1, <3>1 DEF lo
        <5>2. QED
          BY <5>1
      <4>3. QED
        BY <3>2, <4>1, <4>2
    <3>3. CASE ~ x <= place(i)
      <4>1. wrapping_sub(place(i), x) = (place(i) - x) + SEQ_SPACE
        BY <1>5, <2>1, <3>3 DEF wrapping_sub
      <4>2. ~ (place(i) - x) + SEQ_SPACE < WINDOW_SIZE
        BY <1>1, <1>2, <1>5, <2>1, <3>1
      <4>3. QED
        BY <3>3, <4>1, <4>2
    <3>4. QED
      BY <3>2, <3>3
  <2>6. x <= place(i) <=> c < i
    <3>1. CASE c < i
      <4>1. c \in 1 .. i - 1
        BY <1>1, <3>1
      <4>2. QED
        BY <1>3, <1>4, <3>1, <4>1
    <3>2. CASE i = c
      BY <1>3, <1>4, <3>2
    <3>3. CASE i < c
      <4>1. i \in 1 .. c - 1
        BY <1>1, <3>3
      <4>2. after(i) <= place(c) /\ place(c) < x /\ place(i) < after(i)
        BY <1>3, <1>4, <4>1
      <4>3. after(i) \in Nat /\ place(c) \in Nat
        BY <1>3
      <4>4. ~ x <= place(i)
        BY <1>5, <2>1, <4>2, <4>3
      <4>5. QED
        BY <1>1, <3>3, <4>4
    <3>4. QED
      BY <1>1, <3>1, <3>2, <3>3
  <2>7. QED
    BY <2>3, <2>4, <2>5, <2>6
<1>7. /\ retain_unacked(q, At(e, x)) \in Seq(Segment)
      /\ Len(retain_unacked(q, At(e, x))) = n - c
      /\ \A k \in 1 .. n - c : retain_unacked(q, At(e, x))[k] = q[c + k]
  <2>1. c \in 0 .. Len(q) /\ n = Len(q)
    BY <1>1 DEF n
  <2>2. \A i \in 1 .. Len(q) : StillUnacked(At(e, x), q[i]) <=> c < i
    BY <1>6, <2>1
  <2>3. q \in Seq(Segment)
    BY <1>1
  <2>4. QED
    <3> DEFINE ack == At(e, x)
    <3>1. \A i \in 1 .. Len(q) : StillUnacked(ack, q[i]) <=> c < i
      BY <2>2
    <3> HIDE DEF ack
    <3>2. /\ retain_unacked(q, ack) \in Seq(Segment)
          /\ Len(retain_unacked(q, ack)) = Len(q) - c
          /\ \A k \in 1 .. Len(q) - c : retain_unacked(q, ack)[k] = q[c + k]
      BY <2>1, <2>3, <3>1, RetainSuffix, ZenonT(40)
    <3>3. QED
      BY <2>1, <3>2 DEF ack
<1>8. QED
  BY <1>4, <1>7 DEF q, n, after

-----------------------------------------------------------------------------
(* The steps of the sender.                                                *)

\* the window moves on from t to u: the cuts ahead stay, new segments lie behind the old
Advances(e, t, u) ==
    /\ AckedBy(e, t) <= AckedBy(e, u)
    /\ SentBy(e, t) <= SentBy(e, u)
    /\ \A x \in Cuts(e, t) : AckedBy(e, u) <= x => x \in Cuts(e, u)
    /\ \A k \in 1 .. Len(u.unacked_segs) :
         \/ \E j \in 1 .. Len(t.unacked_segs) : u.unacked_segs[k] = t.unacked_segs[j]
         \/ SentBy(e, t) <= Place(e, u.unacked_segs[k])

(* What fill_send_window sends continues the queue where it ended          *)
(* (tcp.rs 127-154).                                                       *)
LEMMA FillSendWindowCut ==
    ASSUME NEW e \in Endpoint, NEW t, NEW given, NEW got, NEW sent,
           Holds(e, t, given, got, sent), t.state = "Estab",
           Consecutive(e, t), InFlightQueued(e, t)
    PROVE  LET u == fill_send_window(t)
           IN  Consecutive(e, u) /\ InFlightQueued(e, u) /\ Advances(e, t, u)
<1> DEFINE u == fill_send_window(t)
           q == t.unacked_segs
           n == Len(q)
           first == SentBy(e, t)
           amt == SentBy(e, u) - first
           start(k) == (k - 1) * MAX_PAYLOAD_SIZE
           stop(k) == min(start(k) + MAX_PAYLOAD_SIZE, amt)
<1>1. /\ Holds(e, u, given, got, sent) /\ Grows(e, t, u) /\ Kept(t, u) /\ Sends(e, t, u)
  BY FillSendWindowStep
<1> HIDE DEF u
<1>2. PICK segs \in Seq(Segment) :
        /\ u.unacked_segs = q \o segs
        /\ u.socket = t.socket \cup {segs[k] : k \in 1 .. Len(segs)}
        /\ amt <= Len(segs) * MAX_PAYLOAD_SIZE
        /\ \A k \in 1 .. Len(segs) :
             /\ start(k) \in Nat /\ start(k) < amt
             /\ segs[k] = Data(e, first + start(k), stop(k) - start(k))
  BY <1>1 DEF Sends
<1> DEFINE m == Len(segs)
<1>3. /\ q \in Seq(Segment) /\ n \in Nat /\ m \in Nat
      /\ first \in Nat /\ SentBy(e, u) \in Nat /\ first <= SentBy(e, u)
      /\ SentBy(e, u) <= Len(Stream[e]) /\ Len(Stream[e]) \in Nat /\ AckedBy(e, u) = AckedBy(e, t)
      /\ AckedBy(e, t) \in Nat /\ AckedBy(e, t) <= first
      /\ MAX_PAYLOAD_SIZE \in Nat /\ 1 <= MAX_PAYLOAD_SIZE
  <2>1. q \in Seq(Segment) /\ n \in Nat /\ m \in Nat
    BY <1>2, Fields, LenProperties DEF Holds
  <2>2. /\ first \in Nat /\ SentBy(e, u) \in Nat /\ given \in Nat /\ Len(Stream[e]) \in Nat
        /\ SentBy(e, u) <= given /\ given <= Len(Stream[e]) /\ got \in Nat
        /\ AckedBy(e, t) \in Nat /\ AckedBy(e, t) <= got /\ got <= first
    BY <1>1, Positions, Numbers
  <2>3. SentBy(e, u) <= Len(Stream[e]) /\ AckedBy(e, t) <= first
    BY <2>2
  <2>4. AckedBy(e, u) = AckedBy(e, t)
    BY <1>1 DEF Kept, AckedBy
  <2>5. first <= SentBy(e, u)
    BY <1>1 DEF Grows
  <2>6. QED
    BY <2>1, <2>2, <2>3, <2>4, <2>5, Numbers
<1> HIDE DEF q, n, m, first
<1>4. amt \in Nat /\ first + amt = SentBy(e, u)
  BY <1>3
<1> HIDE DEF amt
<1>5. \A k \in 1 .. m :
        /\ start(k) \in Nat /\ start(k) < stop(k) /\ stop(k) \in Nat /\ stop(k) <= amt
        /\ segs[k].payload # << >> /\ Place(e, segs[k]) = first + start(k)
        /\ After(e, segs[k]) = first + stop(k)
  <2> TAKE k \in 1 .. m
  <2>1. start(k) \in Nat /\ start(k) < amt /\ segs[k] = Data(e, first + start(k), stop(k) - start(k))
    BY <1>2 DEF m
  <2> HIDE DEF start
  <2>2. stop(k) \in Nat /\ start(k) < stop(k) /\ stop(k) <= amt
    BY <1>3, <1>4, <2>1 DEF min
  <2> HIDE DEF stop
  <2>3. /\ first + start(k) \in Nat /\ stop(k) - start(k) \in Nat \ {0}
        /\ (first + start(k)) + (stop(k) - start(k)) = first + stop(k)
    <3>1. \A a, b, c \in Nat : b < c => /\ a + b \in Nat /\ c - b \in Nat \ {0}
                                         /\ (a + b) + (c - b) = a + c
      OBVIOUS
    <3>2. first \in Nat /\ start(k) \in Nat /\ stop(k) \in Nat /\ start(k) < stop(k)
      BY <1>3, <2>1, <2>2
    <3>3. QED
      BY <3>1, <3>2
  <2>4. first + stop(k) <= Len(Stream[e])
    BY <1>3, <1>4, <2>2
  <2>5. QED
    BY <2>1, <2>2, <2>3, <2>4, PieceOf
<1>6. \A k \in 1 .. m : start(k) = IF k = 1 THEN 0 ELSE stop(k - 1)
  <2> TAKE k \in 1 .. m
  <2>1. CASE k = 1
    BY <1>3, <2>1
  <2>2. CASE k # 1
    <3>1. k \in Nat /\ k - 1 \in Nat /\ start(k) = start(k - 1) + MAX_PAYLOAD_SIZE
      BY <1>3, <2>2
    <3>2. start(k) < amt /\ start(k) \in Nat
      BY <1>2 DEF m
    <3> HIDE DEF start
    <3>3. stop(k - 1) = start(k)
      BY <1>4, <3>1, <3>2 DEF min
    <3>4. QED
      BY <2>2, <3>3
  <2>3. QED
    BY <2>1, <2>2
<1>7. amt = IF m = 0 THEN 0 ELSE stop(m)
  <2>1. CASE m = 0
    <3>1. amt <= m * MAX_PAYLOAD_SIZE
      BY <1>2 DEF m
    <3>2. QED
      BY <1>3, <1>4, <2>1, <3>1
  <2>2. CASE m # 0
    <3>1. m \in 1 .. m /\ start(m) + MAX_PAYLOAD_SIZE = m * MAX_PAYLOAD_SIZE
      BY <1>3, <2>2
    <3>2. amt <= m * MAX_PAYLOAD_SIZE /\ start(m) \in Nat
      BY <1>2, <3>1 DEF m
    <3> HIDE DEF start
    <3>3. amt <= start(m) + MAX_PAYLOAD_SIZE
      BY <3>1, <3>2
    <3>4. stop(m) = amt
      BY <1>3, <1>4, <3>2, <3>3, SMTT(30) DEF min
    <3>5. QED
      BY <2>2, <3>4
  <2>3. QED
    BY <2>1, <2>2
<1> HIDE DEF start, stop
<1>8. /\ Len(u.unacked_segs) = n + m
      /\ \A k \in 1 .. n : u.unacked_segs[k] = q[k]
      /\ \A k \in 1 .. m : u.unacked_segs[n + k] = segs[k]
  <2> DEFINE queue == q \o segs
  <2>1. /\ Len(queue) = n + m
        /\ \A k \in 1 .. n + m : queue[k] = IF k <= n THEN q[k] ELSE segs[k - n]
    BY <1>3, ConcatProperties DEF n, m
  <2>2. u.unacked_segs = queue
    BY <1>2
  <2> HIDE DEF queue
  <2>3. \A k \in 1 .. n : k \in 1 .. n + m /\ k <= n
    BY <1>3
  <2>4. \A k \in 1 .. m : n + k \in 1 .. n + m /\ ~ n + k <= n /\ (n + k) - n = k
    BY <1>3
  <2>5. QED
    BY <2>1, <2>2, <2>3, <2>4
<1>9. /\ \A k \in 1 .. n : q[k].payload # << >>
                         /\ Place(e, q[k]) = IF k = 1 THEN AckedBy(e, t) ELSE After(e, q[k - 1])
      /\ first = IF n = 0 THEN AckedBy(e, t) ELSE After(e, q[n])
  BY DEF Consecutive, q, n, first
<1>10. Consecutive(e, u)
  <2>1. ASSUME NEW k \in 1 .. n + m
        PROVE  /\ u.unacked_segs[k].payload # << >>
               /\ Place(e, u.unacked_segs[k]) = IF k = 1 THEN AckedBy(e, u)
                                                ELSE After(e, u.unacked_segs[k - 1])
    <3>1. CASE k \in 1 .. n
      <4>1. k # 1 => k - 1 \in 1 .. n
        BY <1>3, <3>1
      <4>2. QED
        BY <1>3, <1>8, <1>9, <3>1, <4>1
    <3>2. CASE k \notin 1 .. n
      <4> DEFINE i == k - n
      <4>1. i \in 1 .. m /\ k = n + i
        BY <1>3, <3>2
      <4> HIDE DEF i
      <4>2. u.unacked_segs[k] = segs[i]
        BY <1>8, <4>1
      <4>3. CASE i = 1
        <5>1. Place(e, segs[i]) = first
          <6>1. start(i) = 0 /\ Place(e, segs[i]) = first + start(i)
            BY <1>5, <1>6, <4>1, <4>3
          <6>2. QED
            BY <1>3, <6>1
        <5>2. k = 1 <=> n = 0
          BY <1>3, <4>1, <4>3
        <5>3. n # 0 => k - 1 = n /\ n \in 1 .. n
          BY <1>3, <4>1, <4>3
        <5>4. QED
          BY <1>3, <1>5, <1>8, <1>9, <4>1, <4>2, <5>1, <5>2, <5>3
      <4>4. CASE i # 1
        <5>1. i - 1 \in 1 .. m /\ k - 1 = n + (i - 1) /\ k # 1
          BY <1>3, <4>1, <4>4
        <5>2. start(i) = stop(i - 1)
          BY <1>6, <4>1, <4>4
        <5>3. u.unacked_segs[k - 1] = segs[i - 1]
          BY <1>8, <5>1
        <5>4. Place(e, segs[i]) = After(e, segs[i - 1]) /\ segs[i].payload # << >>
          BY <1>5, <4>1, <5>1, <5>2
        <5>5. QED
          BY <4>2, <5>1, <5>3, <5>4
      <4>5. QED
        BY <4>3, <4>4
    <3>3. QED
      BY <3>1, <3>2
  <2>2. SentBy(e, u) = IF n + m = 0 THEN AckedBy(e, u) ELSE After(e, u.unacked_segs[n + m])
    <3>1. CASE m = 0
      <4>1. n + m = n /\ SentBy(e, u) = first /\ (n # 0 => n \in 1 .. n)
        BY <1>3, <1>4, <1>7, <3>1
      <4>2. QED
        BY <1>3, <1>8, <1>9, <4>1
    <3>2. CASE m # 0
      <4>1. m \in 1 .. m /\ n + m # 0
        BY <1>3, <3>2
      <4>2. After(e, segs[m]) = first + stop(m) /\ stop(m) = amt
        BY <1>5, <1>7, <3>2, <4>1
      <4>3. QED
        BY <1>4, <1>8, <4>1, <4>2
    <3>3. QED
      BY <3>1, <3>2
  <2>3. QED
    BY <1>8, <2>1, <2>2 DEF Consecutive
<1>11. \A k \in 1 .. n : k \in 1 .. n + m
  BY <1>3
<1>12. \A k \in 1 .. m : n + k \in 1 .. n + m
  BY <1>3
<1>13. InFlightQueued(e, u)
  <2> SUFFICES ASSUME NEW seg \in u.socket
               PROVE  \/ seg.payload = << >>
                      \/ After(e, seg) <= AckedBy(e, u)
                      \/ \E k \in 1 .. Len(u.unacked_segs) : seg = u.unacked_segs[k]
    BY DEF InFlightQueued
  <2>1. CASE seg \in t.socket
    <3>1. \/ seg.payload = << >> \/ After(e, seg) <= AckedBy(e, t)
          \/ \E k \in 1 .. n : seg = q[k]
      BY <2>1 DEF InFlightQueued, q, n
    <3>2. QED
      BY <1>3, <1>8, <1>11, <3>1
  <2>2. CASE \E k \in 1 .. m : seg = segs[k]
    BY <1>8, <1>12, <2>2
  <2>3. QED
    BY <1>2, <2>1, <2>2 DEF m
<1>14. Advances(e, t, u)
  <2>1. \A x \in Cuts(e, t) : x \in Cuts(e, u)
    BY <1>3, <1>8, <1>11 DEF Cuts, q, n
  <2>2. ASSUME NEW k \in 1 .. n + m
        PROVE  \/ \E j \in 1 .. n : u.unacked_segs[k] = q[j]
               \/ first <= Place(e, u.unacked_segs[k])
    <3>1. CASE k \in 1 .. n
      BY <1>8, <3>1
    <3>2. CASE k \notin 1 .. n
      <4>1. k - n \in 1 .. m /\ n + (k - n) = k
        BY <1>3, <3>2
      <4>2. u.unacked_segs[k] = segs[k - n] /\ Place(e, segs[k - n]) = first + start(k - n)
            /\ start(k - n) \in Nat
        BY <1>5, <1>8, <4>1
      <4>3. first <= first + start(k - n)
        BY <1>3, <4>2
      <4>4. QED
        BY <4>2, <4>3
    <3>3. QED
      BY <3>1, <3>2
  <2>3. AckedBy(e, t) <= AckedBy(e, u)
    BY <1>3
  <2>4. QED
    BY <1>3, <1>8, <2>1, <2>2, <2>3 DEF Advances, q, n, first
<1>15. QED
  BY <1>10, <1>13, <1>14 DEF u

(* One advance after another is an advance.                                *)
LEMMA AdvancesTwice ==
    ASSUME NEW e \in Endpoint, NEW t, NEW v, NEW u, NEW given, NEW got, NEW sent,
           Holds(e, t, given, got, sent), Holds(e, v, given, got, sent),
           Holds(e, u, given, got, sent), Consecutive(e, t),
           Advances(e, t, v), Advances(e, v, u)
    PROVE  Advances(e, t, u)
<1>1. /\ AckedBy(e, t) \in Nat /\ AckedBy(e, v) \in Nat /\ AckedBy(e, u) \in Nat
      /\ SentBy(e, t) \in Nat /\ SentBy(e, v) \in Nat /\ SentBy(e, u) \in Nat
  BY Positions
<1>2. /\ AckedBy(e, t) <= AckedBy(e, v) /\ AckedBy(e, v) <= AckedBy(e, u)
      /\ SentBy(e, t) <= SentBy(e, v) /\ SentBy(e, v) <= SentBy(e, u)
  BY DEF Advances
<1>3. AckedBy(e, t) <= AckedBy(e, u) /\ SentBy(e, t) <= SentBy(e, u)
  BY <1>1, <1>2
<1>4. ASSUME NEW x \in Cuts(e, t), AckedBy(e, u) <= x
      PROVE  x \in Cuts(e, u)
  <2>1. x \in Nat
    BY CutProperties
  <2>2. AckedBy(e, v) <= x
    BY <1>1, <1>2, <1>4, <2>1
  <2>3. QED
    BY <1>4, <2>2 DEF Advances
<1>5. ASSUME NEW k \in 1 .. Len(u.unacked_segs)
      PROVE  \/ \E j \in 1 .. Len(t.unacked_segs) : u.unacked_segs[k] = t.unacked_segs[j]
             \/ SentBy(e, t) <= Place(e, u.unacked_segs[k])
  <2>1. CASE \E j \in 1 .. Len(v.unacked_segs) : u.unacked_segs[k] = v.unacked_segs[j]
    BY <2>1 DEF Advances
  <2>2. CASE SentBy(e, v) <= Place(e, u.unacked_segs[k])
    <3>1. Place(e, u.unacked_segs[k]) \in Int
      <4>1. u.unacked_segs[k].seq_num \in SeqNum /\ FirstSeq(e) \in SeqNum
        <5>1. u.unacked_segs[k] \in Segment
          BY Fields, ElementOfSeq DEF Holds
        <5>2. QED
          BY <5>1, Numbers DEF Segment
      <4>2. Place(e, u.unacked_segs[k]) \in SeqNum
        BY <4>1, WrappingType DEF Place
      <4>3. QED
        BY <4>2, Numbers DEF SeqNum
    <3>2. QED
      BY <1>1, <1>2, <2>2, <3>1
  <2>3. QED
    BY <2>1, <2>2 DEF Advances
<1>6. QED
  BY <1>3, <1>4, <1>5 DEF Advances

(* An ACK of a cut takes the acknowledged bytes out of the window and the  *)
(* acknowledged segments out of the queue, and these are the same bytes    *)
(* (tcp.rs 214-232).                                                       *)
LEMMA DropAckedCut ==
    ASSUME NEW e \in Endpoint, NEW t, NEW given, NEW got, NEW sent,
           Holds(e, t, given, got, sent), t.state = "Estab",
           Consecutive(e, t), InFlightQueued(e, t),
           NEW seg, seg.ack_num \in SeqNum, new_ack(t, seg),
           NEW x \in 0 .. got, seg.ack_num = At(e, x), AtCut(e, t, x)
    PROVE  LET v == drop_acked(t, seg)
           IN  Consecutive(e, v) /\ InFlightQueued(e, v) /\ Advances(e, t, v)
<1> DEFINE v == drop_acked(t, seg)
           q == t.unacked_segs
           n == Len(q)
           left == v.unacked_segs
<1>1. /\ Holds(e, v, given, got, sent) /\ v.socket = t.socket
      /\ left = retain_unacked(q, At(e, x))
      /\ AckedBy(e, t) < x /\ AckedBy(e, v) = x /\ SentBy(e, v) = SentBy(e, t)
  BY DropAckedStep
<1> HIDE DEF v
<1>2. /\ q \in Seq(Segment) /\ n \in Nat /\ AckedBy(e, t) \in Nat /\ SentBy(e, t) \in Nat
      /\ x \in Nat
  BY <1>1, Fields, Positions DEF Holds
<1>3. x \in Cuts(e, t)
  BY <1>1, <1>2 DEF AtCut
<1>4. PICK c \in 1 .. n :
        /\ After(e, q[c]) = x
        /\ left \in Seq(Segment) /\ Len(left) = n - c
        /\ \A k \in 1 .. n - c : left[k] = q[c + k]
  <2> DEFINE kept == retain_unacked(q, At(e, x))
  <2>1. \E c \in 1 .. n : /\ After(e, q[c]) = x
                         /\ kept \in Seq(Segment) /\ Len(kept) = n - c
                         /\ \A k \in 1 .. n - c : kept[k] = q[c + k]
    <3>1. AckedBy(e, t) < x
      BY <1>1
    <3>2. e \in Endpoint /\ Holds(e, t, given, got, sent) /\ Consecutive(e, t)
      OBVIOUS
    <3>3. QED
      BY ONLY <1>3, <3>1, <3>2, RetainFromCut
  <2>2. left = kept
    BY <1>1
  <2> HIDE DEF q, n, left, kept
  <2>3. QED
    BY <2>1, <2>2
<1>5. /\ \A k \in 1 .. n : q[k].payload # << >>
                         /\ Place(e, q[k]) = IF k = 1 THEN AckedBy(e, t) ELSE After(e, q[k - 1])
      /\ SentBy(e, t) = IF n = 0 THEN AckedBy(e, t) ELSE After(e, q[n])
  BY DEF Consecutive
<1>6. /\ \A k \in 1 .. n : Place(e, q[k]) \in Nat /\ After(e, q[k]) \in Nat
                         /\ Place(e, q[k]) < After(e, q[k])
      /\ \A k \in 1 .. n : \A j \in 1 .. k - 1 : After(e, q[j]) <= Place(e, q[k])
  BY QueueOrder
<1> HIDE DEF q, n, left
<1>7. \A k \in 1 .. n - c : c + k \in 1 .. n /\ c + k # 1 /\ (c + k) - 1 = c + (k - 1)
  BY <1>2
<1>8. Consecutive(e, v)
  <2>1. ASSUME NEW k \in 1 .. n - c
        PROVE  /\ left[k].payload # << >>
               /\ Place(e, left[k]) = IF k = 1 THEN AckedBy(e, v) ELSE After(e, left[k - 1])
    <3>1. left[k] = q[c + k] /\ Place(e, q[c + k]) = After(e, q[c + (k - 1)])
      BY <1>4, <1>5, <1>7
    <3>2. CASE k = 1
      <4>1. c + (k - 1) = c
        BY <1>2, <3>2
      <4>2. QED
        BY <1>1, <1>4, <1>5, <1>7, <3>1, <3>2, <4>1
    <3>3. CASE k # 1
      <4>1. k - 1 \in 1 .. n - c
        BY <1>2, <3>3
      <4>2. QED
        BY <1>4, <1>5, <1>7, <3>1, <3>3, <4>1
    <3>4. QED
      BY <3>2, <3>3
  <2>2. SentBy(e, v) = IF n - c = 0 THEN AckedBy(e, v) ELSE After(e, left[n - c])
    <3>1. n # 0 /\ SentBy(e, v) = After(e, q[n])
      BY <1>1, <1>2, <1>5
    <3>2. CASE n - c = 0
      <4>1. n = c
        BY <1>2, <3>2
      <4>2. QED
        BY <1>1, <1>4, <3>1, <3>2, <4>1
    <3>3. CASE n - c # 0
      <4>1. n - c \in 1 .. n - c /\ c + (n - c) = n
        BY <1>2, <3>3
      <4>2. QED
        BY <1>4, <3>1, <3>3, <4>1
    <3>4. QED
      BY <3>2, <3>3
  <2>3. QED
    BY <1>4, <2>1, <2>2 DEF Consecutive, left
<1>9. \A j \in 1 .. n : After(e, q[j]) <= x \/ \E k \in 1 .. n - c : q[j] = left[k]
  <2> TAKE j \in 1 .. n
  <2>1. CASE j = c
    BY <1>4, <1>6, <2>1
  <2>2. CASE j < c
    <3>1. j \in 1 .. c - 1
      BY <1>2, <2>2
    <3>2. After(e, q[j]) <= Place(e, q[c]) /\ Place(e, q[c]) < x
      BY <1>4, <1>6, <3>1
    <3>3. After(e, q[j]) \in Nat /\ Place(e, q[c]) \in Nat
      BY <1>6
    <3>4. QED
      BY <1>2, <3>2, <3>3
  <2>3. CASE c < j
    <3>1. j - c \in 1 .. n - c /\ c + (j - c) = j
      BY <1>2, <2>3
    <3>2. QED
      BY <1>4, <3>1
  <2>4. QED
    BY <1>2, <2>1, <2>2, <2>3
<1>10. InFlightQueued(e, v)
  <2> SUFFICES ASSUME NEW s \in v.socket
               PROVE  \/ s.payload = << >> \/ After(e, s) <= AckedBy(e, v)
                      \/ \E k \in 1 .. Len(left) : s = left[k]
    BY DEF InFlightQueued, left
  <2>1. \/ s.payload = << >> \/ After(e, s) <= AckedBy(e, t)
        \/ \E j \in 1 .. n : s = q[j]
    BY <1>1 DEF InFlightQueued, q, n
  <2>2. CASE s.payload # << >> /\ After(e, s) <= AckedBy(e, t)
    <3>1. Sound(e, t, s)
      BY <1>1 DEF Holds, InStep, SoundOutput
    <3>2. After(e, s) \in Nat
      BY <2>2, <3>1, PieceProperties
    <3>3. QED
      BY <1>1, <1>2, <2>2, <3>2
  <2>3. QED
    BY <1>1, <1>4, <1>9, <2>1, <2>2
<1>11. Advances(e, t, v)
  <2>1. ASSUME NEW y \in Cuts(e, t), AckedBy(e, v) <= y
        PROVE  y \in Cuts(e, v)
    <3>1. CASE y = x
      BY <1>1, <3>1 DEF Cuts
    <3>2. CASE y # x
      <4>1. y # AckedBy(e, t)
        BY <1>1, <1>2, <2>1
      <4>2. PICK j \in 1 .. n : y = After(e, q[j])
        BY <4>1 DEF Cuts, q, n
      <4>3. ~ y <= x
        BY <1>1, <1>2, <1>6, <2>1, <3>2, <4>2
      <4>4. \E k \in 1 .. n - c : q[j] = left[k]
        BY <1>9, <4>2, <4>3
      <4>5. QED
        BY <1>4, <4>2, <4>4 DEF Cuts, left
    <3>3. QED
      BY <3>1, <3>2
  <2>2. \A k \in 1 .. Len(left) : \E j \in 1 .. n : left[k] = q[j]
    BY <1>4, <1>7
  <2>3. AckedBy(e, t) <= AckedBy(e, v) /\ SentBy(e, t) <= SentBy(e, v)
    BY <1>1, <1>2
  <2>4. QED
    BY <2>1, <2>2, <2>3 DEF Advances, q, n, left
<1>12. QED
  BY <1>8, <1>10, <1>11 DEF v

\* what the steps of the sender must preserve while the receiver, whose TCB is w, waits
Sender(e, t, w) ==
    /\ WellTyped(w)
    /\ \A i \in Slot : w.recv_window[i] # None => Len(w.byte_output) + i + 1 <= SentBy(e, t)
    /\ QueueInStep(e, t)
    /\ PeerInStep(e, t, w)

(* A receiver that was in step stays so when the window moves on: the      *)
(* place it waits for is still a cut, and of the new segments it holds     *)
(* nothing.                                                                *)
LEMMA AdvanceSender ==
    ASSUME NEW e \in Endpoint, NEW t, NEW u, NEW w, NEW given, NEW sent, NEW given2, NEW sent2,
           Holds(e, t, given, Len(w.byte_output), sent),
           Holds(e, u, given2, Len(w.byte_output), sent2),
           t.state = "Estab", Sender(e, t, w),
           u.state = "Estab", Consecutive(e, u), InFlightQueued(e, u), Advances(e, t, u)
    PROVE  Sender(e, u, w)
<1> DEFINE got == Len(w.byte_output)
<1>1. /\ AckedBy(e, t) \in Nat /\ AckedBy(e, u) \in Nat /\ SentBy(e, t) \in Nat
      /\ SentBy(e, u) \in Nat /\ got \in Nat /\ AckedBy(e, u) <= got
  BY Positions
<1>2. /\ AckedBy(e, t) <= AckedBy(e, u) /\ SentBy(e, t) <= SentBy(e, u)
      /\ \A x \in Cuts(e, t) : AckedBy(e, u) <= x => x \in Cuts(e, u)
  BY DEF Advances
<1>3. Consecutive(e, t) /\ InFlightQueued(e, t)
  BY DEF Sender, QueueInStep
<1> HIDE DEF got
<1>4. \A i \in Slot : w.recv_window[i] # None => got + i + 1 <= SentBy(e, u)
  <2> TAKE i \in Slot
  <2>1. w.recv_window[i] # None => got + i + 1 <= SentBy(e, t)
    BY DEF Sender, got
  <2>2. i \in Nat
    BY Numbers DEF Slot
  <2>3. QED
    BY <1>1, <1>2, <2>1, <2>2
<1>5. got \in Cuts(e, u)
  <2>1. got \in Cuts(e, t)
    BY DEF Sender, PeerInStep, got
  <2>2. QED
    BY <1>1, <1>2, <2>1
<1>6. WholeSegments(e, u, w)
  <2> SUFFICES ASSUME NEW k \in 1 .. Len(u.unacked_segs), NEW i \in Slot, NEW j \in Slot,
                      {got + i, got + j} \subseteq
                        Place(e, u.unacked_segs[k]) .. After(e, u.unacked_segs[k]) - 1
               PROVE  w.recv_window[i] = None <=> w.recv_window[j] = None
    BY DEF WholeSegments, got
  <2>1. CASE \E m \in 1 .. Len(t.unacked_segs) : u.unacked_segs[k] = t.unacked_segs[m]
    <3>1. PICK m \in 1 .. Len(t.unacked_segs) : u.unacked_segs[k] = t.unacked_segs[m]
      BY <2>1
    <3>2. {Len(w.byte_output) + i, Len(w.byte_output) + j} \subseteq
             Place(e, t.unacked_segs[m]) .. After(e, t.unacked_segs[m]) - 1
      BY <3>1 DEF got
    <3>3. QED
      BY <3>2 DEF Sender, PeerInStep, WholeSegments
  <2>2. CASE SentBy(e, t) <= Place(e, u.unacked_segs[k])
    <3>1. Place(e, u.unacked_segs[k]) \in Nat /\ After(e, u.unacked_segs[k]) \in Nat
      BY QueueOrder
    <3>2. \A h \in Slot : got + h \in Place(e, u.unacked_segs[k]) .. After(e, u.unacked_segs[k]) - 1
                         => w.recv_window[h] = None
      <4> TAKE h \in Slot
      <4>1. w.recv_window[h] # None => got + h + 1 <= SentBy(e, t)
        BY DEF Sender, got
      <4>2. h \in Nat
        BY Numbers DEF Slot
      <4>3. got + h \in Place(e, u.unacked_segs[k]) .. After(e, u.unacked_segs[k]) - 1
            => SentBy(e, t) <= got + h
        BY <1>1, <2>2, <3>1, <4>2
      <4>4. SentBy(e, t) <= got + h => ~ got + h + 1 <= SentBy(e, t)
        BY <1>1, <4>2
      <4>5. QED
        BY <4>1, <4>3, <4>4
    <3>3. QED
      BY <3>2
  <2>3. QED
    BY <2>1, <2>2 DEF Advances
<1>7. AcksAtCuts(e, u, w)
  <2> SUFFICES ASSUME NEW x \in 0 .. got,
                      \/ PureAck(peer(e), x) \in w.socket
                      \/ \E k \in 1 .. Len(w.unacked_segs) : w.unacked_segs[k] = PureAck(peer(e), x)
               PROVE  AtCut(e, u, x)
    BY DEF AcksAtCuts, got
  <2>1. AtCut(e, t, x)
    BY DEF Sender, PeerInStep, AcksAtCuts, got
  <2>2. CASE x <= AckedBy(e, u)
    BY <2>2 DEF AtCut
  <2>3. CASE ~ x <= AckedBy(e, u)
    <3>1. ~ x <= AckedBy(e, t) /\ AckedBy(e, u) <= x
      BY <1>1, <1>2, <2>3
    <3>2. QED
      BY <1>2, <2>1, <3>1 DEF AtCut
  <2>4. QED
    BY <2>2, <2>3
<1>8. QueueInStep(e, u)
  BY DEF QueueInStep, Greeting
<1>9. QED
  BY <1>4, <1>5, <1>6, <1>7, <1>8 DEF Sender, PeerInStep, got

(* What changes neither window nor queue, and sends nothing new but        *)
(* acknowledgements, changes nothing for the sender.                       *)
LEMMA SameQueueSender ==
    ASSUME NEW e, NEW t, NEW u, NEW w, Sender(e, t, w),
           u.state = t.state, u.seq_base = t.seq_base, u.send_window = t.send_window,
           u.unacked_segs = t.unacked_segs,
           \A seg \in u.socket : \/ seg \in t.socket
                                 \/ seg.payload = << >>
                                 \/ \E k \in 1 .. Len(t.unacked_segs) : seg = t.unacked_segs[k]
    PROVE  Sender(e, u, w)
<1>1. AckedBy(e, u) = AckedBy(e, t) /\ SentBy(e, u) = SentBy(e, t) /\ Cuts(e, u) = Cuts(e, t)
  BY DEF AckedBy, SentBy, Cuts
<1>2. Greeting(u) <=> Greeting(t)
  BY DEF Greeting
<1>3. OnlySyn(e, t) => OnlySyn(e, u)
  BY DEF OnlySyn
<1>4. Consecutive(e, t) => Consecutive(e, u)
  BY <1>1 DEF Consecutive
<1>5. InFlightQueued(e, t) => InFlightQueued(e, u)
  BY <1>1 DEF InFlightQueued
<1>6. QueueInStep(e, u)
  BY <1>2, <1>3, <1>4, <1>5 DEF Sender, QueueInStep
<1>7. WholeSegments(e, t, w) => WholeSegments(e, u, w)
  BY DEF WholeSegments
<1>8. AcksAtCuts(e, t, w) => AcksAtCuts(e, u, w)
  BY <1>1 DEF AcksAtCuts, AtCut
<1>9. PeerInStep(e, u, w)
  BY <1>1, <1>7, <1>8 DEF Sender, PeerInStep
<1>10. QED
  BY <1>1, <1>6, <1>9 DEF Sender

(* fill_send_window, wherever it is called.                                *)
LEMMA FillSender ==
    ASSUME NEW e \in Endpoint, NEW t, NEW w, NEW given, NEW sent,
           Holds(e, t, given, Len(w.byte_output), sent), Sender(e, t, w)
    PROVE  Sender(e, fill_send_window(t), w)
<1>1. CASE t.state # "Estab"
  BY <1>1 DEF fill_send_window
<1>2. CASE t.state = "Estab"
  <2> DEFINE u == fill_send_window(t)
  <2>1. Consecutive(e, t) /\ InFlightQueued(e, t)
    BY <1>2 DEF Sender, QueueInStep
  <2>2. Consecutive(e, u) /\ InFlightQueued(e, u) /\ Advances(e, t, u)
    BY <1>2, <2>1, FillSendWindowCut
  <2>3. Holds(e, u, given, Len(w.byte_output), sent) /\ Kept(t, u)
    BY FillSendWindowStep
  <2> HIDE DEF u
  <2>4. u.state = "Estab"
    BY <1>2, <2>3 DEF Kept
  <2>5. Sender(e, u, w)
    BY <1>2, <2>2, <2>3, <2>4, AdvanceSender
  <2>6. QED
    BY <2>5 DEF u
<1>3. QED
  BY <1>1, <1>2

(* A resend puts a datagram of the queue on the network again (tcp.rs 303, *)
(* 315).                                                                   *)
LEMMA ResendSender ==
    ASSUME NEW e, NEW t, NEW w, WellTyped(t), Sender(e, t, w)
    PROVE  Sender(e, handle_resend(t), w)
<1> DEFINE u == handle_resend(t)
           q == t.unacked_segs
<1>1. CASE q = << >>
  BY <1>1 DEF handle_resend
<1>2. CASE q # << >>
  <2>1. u = [t EXCEPT !.socket = @ \cup {Head(q)}]
    BY <1>2 DEF handle_resend, resend_seg
  <2>2. q \in Seq(Segment)
    BY Fields
  <2>3. Head(q) = q[1] /\ 1 \in 1 .. Len(q)
    <3> HIDE DEF q
    <3>1. QED
      BY <1>2, <2>2
  <2>4. /\ u.state = t.state /\ u.seq_base = t.seq_base /\ u.send_window = t.send_window
        /\ u.unacked_segs = t.unacked_segs /\ u.socket = t.socket \cup {Head(q)}
    BY <2>1 DEF WellTyped, TCB
  <2> HIDE DEF u
  <2>5. \A seg \in u.socket : seg \in t.socket \/ \E k \in 1 .. Len(q) : seg = q[k]
    BY <2>3, <2>4
  <2>6. Sender(e, u, w)
    BY <2>4, <2>5, SameQueueSender
  <2>7. QED
    BY <2>6 DEF u
<1>3. QED
  BY <1>1, <1>2

(* An end that has closed has nothing to keep in step.                     *)
LEMMA ClosedSender ==
    ASSUME NEW e, NEW t, NEW u, NEW w, Sender(e, t, w),
           u.state = "Closed", u.seq_base = t.seq_base, u.send_window = t.send_window
    PROVE  Sender(e, u, w)
<1>1. SentBy(e, u) = SentBy(e, t)
  BY DEF SentBy, AckedBy
<1>2. QED
  BY <1>1 DEF Sender, QueueInStep, PeerInStep, Greeting

(* The SYN, and the SYN of a SYN-ACK, is the first and only segment of the *)
(* queue before Estab (tcp.rs 111-121, 252-262).                           *)
LEMMA GreetingSender ==
    ASSUME NEW e \in Endpoint, NEW t, NEW u, NEW w, WellTyped(t), Sender(e, t, w),
           Greeting(t), t.seq_base = InitialSeq[e],
           NEW seg \in Segment, seg.seq_num = InitialSeq[e],
           Greeting(u), u.seq_base = t.seq_base, u.send_window = t.send_window,
           u.unacked_segs = Append(t.unacked_segs, seg)
    PROVE  Sender(e, u, w)
<1> DEFINE q == t.unacked_segs
<1>1. q \in Seq(Segment) /\ Len(q) \in Nat
  BY Fields
<1>2. SentBy(e, u) = SentBy(e, t)
  BY DEF SentBy, AckedBy
<1>3. \A k \in 1 .. Len(q) : q[k].seq_num = InitialSeq[e]
  BY DEF Sender, QueueInStep, OnlySyn
<1> HIDE DEF q
<1>4. /\ Len(Append(q, seg)) = Len(q) + 1
      /\ \A k \in 1 .. Len(q) + 1 : Append(q, seg)[k] = IF k <= Len(q) THEN q[k] ELSE seg
  BY <1>1, AppendProperties
<1>5. \A k \in 1 .. Len(q) + 1 : Append(q, seg)[k].seq_num = InitialSeq[e]
  <2> TAKE k \in 1 .. Len(q) + 1
  <2>1. CASE k <= Len(q)
    <3>1. k \in 1 .. Len(q)
      BY <1>1, <2>1
    <3>2. QED
      BY <1>3, <1>4, <2>1, <3>1
  <2>2. CASE ~ k <= Len(q)
    BY <1>4, <2>2
  <2>3. QED
    BY <2>1, <2>2
<1>6. OnlySyn(e, u)
  BY <1>4, <1>5 DEF OnlySyn, q
<1>7. u.state # "Estab"
  BY DEF Greeting
<1>8. QED
  BY <1>2, <1>6, <1>7 DEF Sender, QueueInStep, PeerInStep

(* TCBInput::Send, at the sender.                                          *)
LEMMA SendSender ==
    ASSUME NEW e \in Endpoint, NEW t, NEW w, NEW given, NEW sent,
           Holds(e, t, given, Len(w.byte_output), sent), Sender(e, t, w),
           NEW n \in Nat, given + n <= Len(Stream[e])
    PROVE  Sender(e, send(t, SubSeq(Stream[e], given + 1, given + n)), w)
<1> DEFINE data == SubSeq(Stream[e], given + 1, given + n)
           v == [t EXCEPT !.send_buffer = @ \o data]
           got == Len(w.byte_output)
<1>1. send(t, data) = fill_send_window(v)
  BY DEF send
<1>2. Holds(e, t, given, got, sent)
  OBVIOUS
<1> HIDE DEF got
<1>3. Holds(e, v, given + n, got, sent) /\ Grows(e, t, v) /\ Kept(t, v)
  BY <1>2, BufferStep
<1>4. /\ v.send_window = t.send_window /\ v.socket = t.socket
      /\ v.unacked_segs = t.unacked_segs
  BY <1>2, BufferStep
<1> HIDE DEF v
<1>5. Sender(e, v, w)
  BY <1>3, <1>4, SameQueueSender DEF Kept
<1>6. Sender(e, fill_send_window(v), w)
  BY <1>3, <1>5, FillSender DEF got
<1>7. QED
  BY <1>1, <1>6

(* Different bytes of a stream have different sequence numbers.            *)
LEMMA AtInjective ==
    ASSUME NEW e \in Endpoint, NEW x \in Nat, x < SEQ_SPACE, NEW y \in Nat, y < SEQ_SPACE,
           At(e, x) = At(e, y)
    PROVE  x = y
<1>1. x \in SeqNum /\ y \in SeqNum
  BY Numbers DEF SeqNum
<1>2. wrapping_sub(At(e, x), FirstSeq(e)) = x /\ wrapping_sub(At(e, y), FirstSeq(e)) = y
  BY <1>1, Numbers, WrappingType DEF At
<1>3. QED
  BY <1>2

(* What a datagram of the receiver acknowledges is old, or a cut.          *)
LEMMA AckIsAtCut ==
    ASSUME NEW e \in Endpoint, NEW t, NEW w, NEW given, NEW sent, NEW given2, NEW got2, NEW sent2,
           Holds(e, t, given, Len(w.byte_output), sent), Sender(e, t, w), t.state = "Estab",
           Holds(peer(e), w, given2, got2, sent2),
           NEW seg \in w.socket, "ACK" \in seg.flags,
           NEW x \in 0 .. Len(w.byte_output), seg.ack_num = At(e, x)
    PROVE  AtCut(e, t, x)
<1> DEFINE p == peer(e)
           got == Len(w.byte_output)
<1>1. p \in Endpoint /\ peer(p) = e /\ Sound(p, w, seg) /\ w.seq_base \in SeqNum
  BY PeerProperties, Fields DEF Holds, InStep, SoundOutput
<1>2. got \in Nat /\ got < SEQ_SPACE /\ AckedBy(e, t) \in Nat /\ SEQ_SPACE \in Nat
  <2>1. /\ got \in Nat /\ sent2 \in Nat /\ got <= sent2
        /\ sent2 + 2 * WINDOW_SIZE + 2 <= SEQ_SPACE
        /\ WINDOW_SIZE \in Nat /\ SEQ_SPACE \in Nat
    BY <1>1, Fields, Positions, Numbers DEF Holds
  <2>2. got < SEQ_SPACE
    BY <2>1
  <2>3. QED
    BY <2>1, <2>2, Positions
<1>3. ASSUME NEW n \in 0 .. got, seg.ack_num = At(e, n)
      PROVE  n = x
  <2>1. n \in Nat /\ n < SEQ_SPACE /\ x \in Nat /\ x < SEQ_SPACE
    BY <1>2
  <2>2. At(e, n) = At(e, x)
    BY <1>3
  <2>3. QED
    BY <2>1, <2>2, AtInjective
<1> HIDE DEF p
<1>4. CASE \E n \in 0 .. got : seg = PureAck(p, n)
  <2>1. PICK n \in 0 .. got : seg = PureAck(p, n)
    BY <1>4
  <2>2. n \in Nat /\ n < SEQ_SPACE
    BY <1>2
  <2>3. seg.ack_num = At(e, n)
    BY <1>1, <2>1, <2>2, ControlProperties
  <2>4. n = x
    BY <1>3, <2>3
  <2>5. PureAck(peer(e), x) \in w.socket
    BY <2>1, <2>4 DEF p
  <2>6. QED
    BY <2>5 DEF Sender, PeerInStep, AcksAtCuts
<1>5. CASE seg = SynAck(p)
  <2>1. 0 \in Nat /\ 0 < SEQ_SPACE /\ 0 \in 0 .. got
    BY <1>2, Numbers
  <2>2. seg.ack_num = At(e, 0)
    BY <1>1, <1>5, <2>1, ControlProperties
  <2>3. x = 0
    BY <1>3, <2>1, <2>2
  <2>4. QED
    BY <1>2, <2>3 DEF AtCut
<1>6. CASE seg = Syn(p) \/ seg = Fin(w.seq_base)
  <2>1. 0 \in Nat /\ 0 < SEQ_SPACE
    BY Numbers
  <2>2. Syn(p).flags = {"SYN"} /\ Fin(w.seq_base).flags = {"FIN"}
    BY <1>1, <2>1, ControlProperties
  <2>3. QED
    BY <1>6, <2>2
<1>7. CASE \E i \in 0 .. SentBy(p, w) - 1 :
             \E n \in 1 .. min(MAX_PAYLOAD_SIZE, SentBy(p, w) - i) : seg = Data(p, i, n)
  <2>1. \A i, n : Data(p, i, n).flags = {}
    BY DEF Data, make_seg
  <2>2. QED
    BY <1>7, <2>1
<1>8. QED
  BY <1>1, <1>4, <1>5, <1>6, <1>7 DEF Sound

(* The first half of handle_acks, at the sender.                           *)
LEMMA AcceptAckSender ==
    ASSUME NEW e \in Endpoint, NEW t, NEW w, NEW given, NEW sent,
           Holds(e, t, given, Len(w.byte_output), sent), Sender(e, t, w),
           NEW seg, Incoming(e, seg, Len(w.byte_output), sent),
           t.state # "Closed", t.state = "Listen" => "ACK" \notin seg.flags,
           t.state = "Estab" /\ "ACK" \in seg.flags =>
             \A x \in 0 .. Len(w.byte_output) : seg.ack_num = At(e, x) => AtCut(e, t, x)
    PROVE  Sender(e, accept_ack(t, seg), w)
<1> DEFINE got == Len(w.byte_output)
<1>1. /\ WellTyped(t) /\ seg \in Segment /\ seg.ack_num \in SeqNum /\ t.seq_base \in SeqNum
      /\ t.unacked_segs \in Seq(Segment) /\ Holds(e, t, given, got, sent)
  BY Fields DEF Holds, Incoming, Segment
<1>2. t.state = "Estab" \/ Greeting(t)
  BY <1>1 DEF Holds, InStep, Phase, Greeting, WellTyped, TCB, TCBState
<1>3. CASE ~ new_ack(t, seg)
  BY <1>3 DEF accept_ack
<1>4. CASE new_ack(t, seg) /\ t.state = "Estab"
  <2>1. "ACK" \in seg.flags
    BY <1>4 DEF new_ack
  <2>2. PICK x \in 0 .. got : seg.ack_num = At(e, x)
    BY <2>1 DEF Incoming
  <2> HIDE DEF got
  <2>3. AtCut(e, t, x)
    BY <1>4, <2>1, <2>2 DEF got
  <2>4. Consecutive(e, t) /\ InFlightQueued(e, t)
    BY <1>4 DEF Sender, QueueInStep
  <2> DEFINE v == drop_acked(t, seg)
  <2>5. /\ accept_ack(t, seg) = fill_send_window(v)
        /\ Holds(e, v, given, got, sent) /\ v.state = t.state
    BY <1>1, <1>4, <2>2, DropAckedStep
  <2>6. Consecutive(e, v) /\ InFlightQueued(e, v) /\ Advances(e, t, v)
    BY <1>1, <1>4, <2>2, <2>3, <2>4, DropAckedCut
  <2> HIDE DEF v
  <2>7. v.state = "Estab" /\ Holds(e, v, given, Len(w.byte_output), sent)
    BY <1>4, <2>5 DEF got
  <2>8. Sender(e, v, w)
    BY <1>4, <2>6, <2>7, AdvanceSender
  <2>9. Sender(e, fill_send_window(v), w)
    BY <2>7, <2>8, FillSender
  <2>10. QED
    BY <2>5, <2>9
<1>5. CASE new_ack(t, seg) /\ Greeting(t)
  <2> DEFINE q == t.unacked_segs
             left == retain_unacked(q, seg.ack_num)
             u == [t EXCEPT !.unacked_segs = left, !.seq_base = seg.ack_num]
  <2>1. accept_ack(t, seg) = u
    BY <1>5 DEF accept_ack, Greeting
  <2>2. left \in Seq(Segment) /\ \A k \in 1 .. Len(left) : \E i \in 1 .. Len(q) :
          StillUnacked(seg.ack_num, q[i])
    <3> HIDE DEF q
    <3>1. q \in Seq(Segment)
      BY <1>1 DEF q
    <3>2. QED
      BY <3>1, RetainProperties
  <2>3. got = 0 /\ seg.ack_num = FirstSeq(e)
    BY <1>1, <1>5, GreetingAck DEF new_ack
  <2>4. \A i \in 1 .. Len(q) : ~ StillUnacked(seg.ack_num, q[i])
    <3> TAKE i \in 1 .. Len(q)
    <3>1. q[i].seq_num = InitialSeq[e]
      BY <1>5 DEF Sender, QueueInStep, OnlySyn
    <3>2. /\ InitialSeq[e] \in SeqNum /\ FirstSeq(e) \in SeqNum /\ WINDOW_SIZE \in SeqNum
          /\ WINDOW_SIZE \in Nat /\ SEQ_SPACE \in Nat /\ 2 * WINDOW_SIZE + 2 <= SEQ_SPACE
      <4>1. /\ Len(Stream[e]) \in Nat /\ Len(Stream[e]) + 2 * WINDOW_SIZE + 2 <= SEQ_SPACE
            /\ WINDOW_SIZE \in Nat /\ SEQ_SPACE \in Nat
        BY Numbers
      <4>2. 2 * WINDOW_SIZE + 2 <= SEQ_SPACE
        <5>1. \A a, b, c \in Nat : a + 2 * b + 2 <= c => 2 * b + 2 <= c
          BY ONLY SMT
        <5>2. QED
          BY <4>1, <5>1
      <4>3. QED
        BY <4>1, <4>2, Numbers
    <3>3. wrapping_sub(InitialSeq[e], FirstSeq(e)) = SEQ_SPACE - 1
      BY <3>2 DEF FirstSeq, wrapping_sub, wrapping_add, SeqNum
    <3>4. ~ SEQ_SPACE - 1 < WINDOW_SIZE
      BY <3>2
    <3>5. ~ in_wrapped_range(FirstSeq(e), wrapping_add(FirstSeq(e), WINDOW_SIZE), InitialSeq[e])
      BY <3>2, <3>3, <3>4, RangeIsDistance
    <3>6. QED
      BY <2>3, <3>1, <3>5 DEF StillUnacked
  <2>5. left = << >>
    <3> HIDE DEF left
    <3>1. Len(left) \in Nat /\ ~ 1 \in 1 .. Len(left)
      BY <2>2, <2>4
    <3>2. Len(left) = 0
      BY <3>1
    <3>3. QED
      BY <2>2, <3>2, EmptySeq
  <2> HIDE DEF left
  <2>6. /\ u.state = t.state /\ u.unacked_segs = << >> /\ u.seq_base = seg.ack_num
        /\ u.send_window = t.send_window
    BY <1>1, <2>5 DEF WellTyped, TCB
  <2> HIDE DEF u
  <2>7. AckedBy(e, t) = 0 /\ t.send_window = << >> /\ SentBy(e, t) = 0
    BY <1>5 DEF Holds, InStep, Phase, SentBy
  <2>8. SentBy(e, u) = 0
    <3>1. wrapping_sub(FirstSeq(e), FirstSeq(e)) = 0 /\ FirstSeq(e) # InitialSeq[e]
      BY Numbers DEF wrapping_sub, SeqNum
    <3>2. QED
      BY <2>3, <2>6, <2>7, <3>1 DEF SentBy, AckedBy
  <2>9. Greeting(u) /\ u.state # "Estab" /\ OnlySyn(e, u)
    BY <1>5, <2>6 DEF Greeting, OnlySyn
  <2>10. Sender(e, u, w)
    BY <2>7, <2>8, <2>9 DEF Sender, QueueInStep, PeerInStep
  <2>11. QED
    BY <2>1, <2>10
<1>6. QED
  BY <1>2, <1>3, <1>4, <1>5

(* The second half of handle_acks: at most a resend.                       *)
LEMMA CountDupeAckSender ==
    ASSUME NEW e, NEW t, NEW w, WellTyped(t), Sender(e, t, w), NEW seg
    PROVE  Sender(e, count_dupe_ack(t, seg), w)
<1>1. ASSUME NEW v, WellTyped(v), Sender(e, v, w), NEW n
      PROVE  Sender(e, [v EXCEPT !.dupe_acks = n], w)
  <2> DEFINE u == [v EXCEPT !.dupe_acks = n]
  <2>1. /\ u.state = v.state /\ u.seq_base = v.seq_base /\ u.send_window = v.send_window
        /\ u.unacked_segs = v.unacked_segs /\ u.socket = v.socket
    BY <1>1 DEF WellTyped, TCB
  <2> HIDE DEF u
  <2>2. Sender(e, u, w)
    BY <1>1, <2>1, SameQueueSender
  <2>3. QED
    BY <2>2 DEF u
<1>2. WellTyped(handle_resend(t)) /\ Sender(e, handle_resend(t), w)
  BY HandleResendType, ResendSender
<1>3. \/ count_dupe_ack(t, seg) = t
      \/ count_dupe_ack(t, seg) = [handle_resend(t) EXCEPT !.dupe_acks = 0]
      \/ count_dupe_ack(t, seg) = [t EXCEPT !.dupe_acks = t.dupe_acks + 1]
  BY DEF count_dupe_ack
<1>4. QED
  BY <1>1, <1>2, <1>3

(* An end that gets to Estab begins with an empty queue and an empty       *)
(* window, and the other has been given nothing yet (tcp.rs 265-284).      *)
LEMMA EstabSender ==
    ASSUME NEW e \in Endpoint, NEW t, NEW u, NEW w, NEW given, NEW sent,
           Holds(e, t, given, Len(w.byte_output), sent), Sender(e, t, w),
           Greeting(t), t.seq_base # InitialSeq[e],
           u.state = "Estab", u.seq_base = t.seq_base, u.send_window = t.send_window,
           u.unacked_segs = t.unacked_segs,
           \A seg \in u.socket : seg \in t.socket \/ seg.payload = << >>
    PROVE  Sender(e, u, w)
<1>1. AckedBy(e, t) = 0 /\ SentBy(e, t) = 0 /\ t.unacked_segs = << >>
  BY DEF Holds, InStep, Phase, SentBy, Sender, QueueInStep, OnlySyn
<1>2. AckedBy(e, u) = 0 /\ SentBy(e, u) = 0 /\ u.unacked_segs = << >>
  BY <1>1 DEF AckedBy, SentBy
<1>3. Len(w.byte_output) = 0
  BY <1>1, Positions
<1>4. \A i \in Slot : w.recv_window[i] = None
  <2> TAKE i \in Slot
  <2>1. i \in Nat
    BY Numbers DEF Slot
  <2>2. w.recv_window[i] # None => 0 + i + 1 <= 0
    BY <1>1, <1>3 DEF Sender
  <2>3. QED
    BY <2>1, <2>2
<1>5. Consecutive(e, u)
  BY <1>2 DEF Consecutive
<1>6. InFlightQueued(e, u)
  <2> SUFFICES ASSUME NEW seg \in t.socket PROVE seg.payload = << >>
    BY DEF InFlightQueued
  <2>1. Sound(e, t, seg)
    BY DEF Holds, InStep, SoundOutput
  <2>2. seg.payload # << >> =>
          Place(e, seg) \in Nat /\ After(e, seg) \in Nat /\ Place(e, seg) < After(e, seg)
          /\ After(e, seg) <= 0
    BY <1>1, <2>1, PieceProperties
  <2>3. QED
    BY <2>2
<1>7. PeerInStep(e, u, w)
  <2>1. Len(w.byte_output) \in Cuts(e, u)
    BY <1>2, <1>3 DEF Cuts
  <2>2. WholeSegments(e, u, w)
    BY <1>4 DEF WholeSegments
  <2>3. AcksAtCuts(e, u, w)
    BY <1>2, <1>3 DEF AcksAtCuts, AtCut
  <2>4. QED
    BY <2>1, <2>2, <2>3 DEF PeerInStep
<1>8. QED
  BY <1>1, <1>2, <1>5, <1>6, <1>7 DEF Sender, QueueInStep, Greeting

(* TCBInput::SendSyn, at the sender.                                       *)
LEMMA SendSynSender ==
    ASSUME NEW e \in Endpoint, NEW t, NEW w, NEW given, NEW sent,
           Holds(e, t, given, Len(w.byte_output), sent), Sender(e, t, w), t.state = "Listen"
    PROVE  Sender(e, send_syn(t), w)
<1> DEFINE u == send_syn(t)
<1>1. WellTyped(t) /\ t.seq_base = InitialSeq[e] /\ t.seq_base \in SeqNum
  BY Fields DEF Holds, InStep, Phase
<1>2. Syn(e) \in Segment /\ Syn(e).seq_num = InitialSeq[e]
  <2>1. 0 \in Nat /\ 0 < SEQ_SPACE
    BY Numbers
  <2>2. QED
    BY <1>1, <2>1, ControlProperties
<1>3. u = [send_seg(t, Syn(e)) EXCEPT !.state = "SynSent"]
  BY <1>1 DEF send_syn, Syn
<1>4. /\ u.state = "SynSent" /\ u.seq_base = t.seq_base /\ u.send_window = t.send_window
      /\ u.unacked_segs = Append(t.unacked_segs, Syn(e))
  BY <1>1, <1>3 DEF WellTyped, TCB, send_seg, resend_seg
<1> HIDE DEF u
<1>5. Greeting(t) /\ Greeting(u)
  BY <1>4 DEF Greeting
<1>6. Sender(e, u, w)
  BY <1>1, <1>2, <1>4, <1>5, GreetingSender
<1>7. QED
  BY <1>6 DEF u

(* TCBInput::SendClose, at the sender.                                     *)
LEMMA SendCloseSender ==
    ASSUME NEW e, NEW t, NEW w, WellTyped(t), Sender(e, t, w)
    PROVE  Sender(e, send_close(t), w)
<1> DEFINE u == send_close(t)
<1>1. u.state = "Closed" /\ u.seq_base = t.seq_base /\ u.send_window = t.send_window
  BY DEF WellTyped, TCB, send_close, send_seg, resend_seg
<1> HIDE DEF u
<1>2. Sender(e, u, w)
  BY <1>1, ClosedSender
<1>3. QED
  BY <1>2 DEF u

(* The handshake, at the sender: the queue is empty when Estab is entered. *)
LEMMA HandleShakeSender ==
    ASSUME NEW e \in Endpoint, NEW t, NEW w, NEW given, NEW sent,
           Holds(e, t, given, Len(w.byte_output), sent), Sender(e, t, w),
           NEW seg, Incoming(e, seg, Len(w.byte_output), sent),
           t.state # "Closed", "ACK" \in seg.flags => t.seq_base # InitialSeq[e]
    PROVE  Sender(e, handle_shake(t, seg), w)
<1> DEFINE u == handle_shake(t, seg)
           next == peer_next(seg)
           synack == [make_seg EXCEPT !.flags = {"SYN", "ACK"},
                                      !.seq_num = t.seq_base, !.ack_num = next]
           ack == [make_seg EXCEPT !.flags = {"ACK"}, !.ack_num = next]
           listened == [t EXCEPT !.state = "SynRecd", !.ack_base = next]
           answered == [t EXCEPT !.state = "Estab", !.ack_base = next]
           acked == [t EXCEPT !.state = "Estab"]
<1>1. WellTyped(t) /\ seg.seq_num \in SeqNum /\ 1 \in SeqNum /\ peer(e) \in Endpoint
  BY PeerProperties, Numbers DEF Holds, Incoming, Segment, SeqNum
<1>2. next \in SeqNum
  BY <1>1, WrappingType DEF peer_next
<1>3. "SYN" \in seg.flags => next = FirstSeq(peer(e)) /\ next = At(peer(e), 0)
  BY <1>1, AtProperties, Numbers DEF Incoming, peer_next, FirstSeq
<1>4. u = CASE t.state = "Listen" /\ "SYN" \in seg.flags -> send_seg(listened, synack)
            [] t.state = "SynSent" /\ {"SYN", "ACK"} \subseteq seg.flags ->
                 fill_send_window(send_ack(answered, ack))
            [] t.state = "SynRecd" /\ "ACK" \in seg.flags -> fill_send_window(acked)
            [] OTHER -> t
  BY DEF handle_shake
<1> HIDE DEF u, next
<1>5. CASE t.state = "Listen" /\ "SYN" \in seg.flags
  <2>1. t.seq_base = InitialSeq[e]
    BY <1>5 DEF Holds, InStep, Phase
  <2>2. synack = SynAck(e)
    BY <1>3, <1>5, <2>1 DEF SynAck
  <2>3. SynAck(e) \in Segment /\ SynAck(e).seq_num = InitialSeq[e]
    <3>1. 0 \in Nat /\ 0 < SEQ_SPACE /\ 0 \in SeqNum
      BY Numbers
    <3>2. QED
      BY <3>1, ControlProperties
  <2>4. u = send_seg(listened, synack)
    BY <1>4, <1>5
  <2> HIDE DEF synack
  <2>5. /\ u.state = "SynRecd" /\ u.seq_base = t.seq_base /\ u.send_window = t.send_window
        /\ u.unacked_segs = Append(t.unacked_segs, SynAck(e))
    BY <1>1, <2>2, <2>4 DEF WellTyped, TCB, send_seg, resend_seg
  <2>6. Greeting(t) /\ Greeting(u)
    BY <1>5, <2>5 DEF Greeting
  <2>7. Sender(e, u, w)
    BY <1>1, <2>1, <2>3, <2>5, <2>6, GreetingSender
  <2>8. QED
    BY <2>7 DEF u
<1>6. CASE t.state = "SynSent" /\ {"SYN", "ACK"} \subseteq seg.flags
  <2> DEFINE v == send_ack(answered, ack)
  <2>1. t.seq_base # InitialSeq[e] /\ Greeting(t) /\ t.byte_output = << >>
    BY <1>6 DEF Holds, InStep, Phase, Greeting
  <2>2. u = fill_send_window(v)
    BY <1>4, <1>6
  <2>3. /\ WellTyped(answered) /\ SameButState(t, answered)
        /\ answered.state = "Estab" /\ answered.ack_base = next
    BY <1>1, <1>2 DEF WellTyped, TCB, TCBState, SameButState
  <2>4. ack = PureAck(e, 0)
    BY <1>3, <1>6 DEF PureAck
  <2>5. ack.payload = << >>
    BY DEF make_seg
  <2> HIDE DEF answered, ack
  <2>6. Len(answered.byte_output) = 0
    BY <2>1, <2>3 DEF SameButState
  <2>7. Phase(e, answered)
    <3>1. answered.seq_base # InitialSeq[e]
      BY <2>1, <2>3 DEF SameButState
    <3>2. answered.ack_base = At(peer(e), Len(answered.byte_output))
      BY <1>3, <1>6, <2>3, <2>6
    <3>3. QED
      BY <2>3, <3>1, <3>2 DEF Phase, Greeting
  <2>8. Holds(e, answered, given, Len(w.byte_output), sent)
    BY <1>6, <2>3, <2>7, StateStep
  <2>9. Sound(e, answered, ack)
    <3>1. 0 \in 0 .. Len(answered.byte_output)
      BY <2>6
    <3>2. QED
      BY <2>4, <3>1 DEF Sound
  <2>10. Holds(e, v, given, Len(w.byte_output), sent)
    BY <2>8, <2>9, SendSegStep DEF send_ack
  <2>11. /\ v.state = "Estab" /\ v.seq_base = t.seq_base /\ v.send_window = t.send_window
         /\ v.unacked_segs = t.unacked_segs /\ v.socket = t.socket \cup {ack}
    BY <2>3 DEF WellTyped, TCB, send_ack, resend_seg, SameButState
  <2> HIDE DEF v
  <2>12. Sender(e, v, w)
    BY <2>1, <2>5, <2>11, EstabSender
  <2>13. Sender(e, u, w)
    BY <2>2, <2>10, <2>12, FillSender
  <2>14. QED
    BY <2>13 DEF u
<1>7. CASE t.state = "SynRecd" /\ "ACK" \in seg.flags
  <2>1. t.seq_base # InitialSeq[e] /\ Greeting(t)
    BY <1>7 DEF Greeting
  <2>2. u = fill_send_window(acked)
    BY <1>4, <1>7
  <2>3. /\ WellTyped(acked) /\ SameButState(t, acked)
        /\ acked.state = "Estab" /\ acked.ack_base = t.ack_base
    BY <1>1 DEF WellTyped, TCB, TCBState, SameButState
  <2> HIDE DEF acked
  <2>4. Phase(e, acked)
    BY <1>7, <2>1, <2>3 DEF Holds, InStep, Phase, Greeting, SameButState
  <2>5. Holds(e, acked, given, Len(w.byte_output), sent)
    BY <1>7, <2>3, <2>4, StateStep
  <2>6. Sender(e, acked, w)
    BY <2>1, <2>3, EstabSender DEF SameButState
  <2>7. Sender(e, u, w)
    BY <2>2, <2>5, <2>6, FillSender
  <2>8. QED
    BY <2>7 DEF u
<1>8. CASE /\ ~ (t.state = "Listen" /\ "SYN" \in seg.flags)
           /\ ~ (t.state = "SynSent" /\ {"SYN", "ACK"} \subseteq seg.flags)
           /\ ~ (t.state = "SynRecd" /\ "ACK" \in seg.flags)
  BY <1>4, <1>8 DEF u
<1>9. QED
  BY <1>5, <1>6, <1>7, <1>8

(* A payload changes nothing at the end that receives it but what it has   *)
(* received, and sends nothing but an acknowledgement of that.             *)
LEMMA HandlePayloadSender ==
    ASSUME NEW e \in Endpoint, NEW t, NEW w, NEW given, NEW sent,
           Holds(e, t, given, Len(w.byte_output), sent), Sender(e, t, w),
           sent <= Len(t.byte_output) + WINDOW_SIZE,
           NEW seg, Incoming(e, seg, Len(w.byte_output), sent)
    PROVE  Sender(e, handle_payload(t, seg), w)
<1> DEFINE u == handle_payload(t, seg)
           in_window == in_wrapped_range(t.ack_base, wrapping_add(t.ack_base, WINDOW_SIZE),
                                         seg.seq_num)
           index == window_index_base(t, seg)
           covered == index .. index + Len(seg.payload) - 1
           window == [i \in Slot |-> IF i \in covered THEN seg.payload[i - index + 1]
                                     ELSE t.recv_window[i]]
           stored == IF in_window THEN [t EXCEPT !.recv_window = window] ELSE t
           delivered == deliver_prefix(stored)
           ack == [make_seg EXCEPT !.flags = {"ACK"}, !.ack_num = delivered.ack_base]
<1>1. u = CASE t.state # "Estab" -> t
            [] t.state = "Estab" /\ in_window /\ ~ covered \subseteq Slot ->
                 [t EXCEPT !.state = "Panicked"]
            [] t.state = "Estab" /\ covered \subseteq Slot /\ acknowledged(t, seg) ->
                 send_ack(delivered, ack)
            [] OTHER -> stored
  BY Zenon DEF handle_payload
<1>2. WellTyped(t) /\ u.state = t.state
  BY HandlePayloadStep DEF Holds
<1>3. /\ stored.seq_base = t.seq_base /\ stored.send_window = t.send_window
      /\ stored.unacked_segs = t.unacked_segs /\ stored.socket = t.socket
      /\ \/ stored = t
         \/ stored = [t EXCEPT !.recv_window = window]
  <2> HIDE DEF window, in_window
  <2>1. QED
    BY <1>2 DEF WellTyped, TCB
<1>4. ack.payload = << >>
  BY DEF make_seg
<1>5. DOMAIN stored = DOMAIN t
  <2> HIDE DEF window, in_window
  <2>1. QED
    BY <1>2
<1> HIDE DEF u, stored, in_window, covered, window
<1>6. /\ delivered.seq_base = t.seq_base /\ delivered.send_window = t.send_window
      /\ delivered.unacked_segs = t.unacked_segs /\ delivered.socket = t.socket
  BY <1>2, <1>3, <1>5 DEF WellTyped, TCB, deliver_prefix
<1>7. DOMAIN delivered = DOMAIN t
  BY <1>5 DEF deliver_prefix
<1> HIDE DEF delivered
<1>8. /\ u.seq_base = t.seq_base /\ u.send_window = t.send_window
      /\ u.unacked_segs = t.unacked_segs
      /\ u.socket = t.socket \/ u.socket = t.socket \cup {ack}
  <2> HIDE DEF ack
  <2>1. CASE u = t
    BY <2>1
  <2>2. CASE u = [t EXCEPT !.state = "Panicked"]
    BY <1>2, <2>2 DEF WellTyped, TCB
  <2>3. CASE u = stored
    BY <1>3, <2>3
  <2>4. CASE u = send_ack(delivered, ack)
    BY <1>2, <1>6, <1>7, <2>4 DEF WellTyped, TCB, send_ack, resend_seg
  <2>5. QED
    BY <1>1, <2>1, <2>2, <2>3, <2>4
<1> HIDE DEF ack
<1>9. \A x \in u.socket : x \in t.socket \/ x.payload = << >>
  BY <1>4, <1>8
<1>10. Sender(e, u, w)
  BY <1>2, <1>8, <1>9, SameQueueSender
<1>11. QED
  BY <1>10 DEF u

(* The whole of handle_seg, at the sender.                                 *)
LEMMA HandleSegSender ==
    ASSUME NEW e \in Endpoint, NEW t, NEW w, NEW given, NEW sent,
           Holds(e, t, given, Len(w.byte_output), sent), Sender(e, t, w),
           sent <= Len(t.byte_output) + WINDOW_SIZE,
           NEW seg, Incoming(e, seg, Len(w.byte_output), sent),
           t.state # "Closed", t.state = "Listen" => seg.flags = {"SYN"},
           t.state = "Estab" /\ "ACK" \in seg.flags =>
             \A x \in 0 .. Len(w.byte_output) : seg.ack_num = At(e, x) => AtCut(e, t, x)
    PROVE  Sender(e, handle_seg(t, seg), w)
<1> DEFINE got == Len(w.byte_output)
           c == accept_ack(t, seg)
           a == handle_acks(t, seg)
           s == handle_shake(a, seg)
           h == handle_payload(s, seg)
           u == handle_seg(t, seg)
<1>1. t.state = "Listen" => "ACK" \notin seg.flags
  OBVIOUS
<1>2. Holds(e, c, given, got, sent) /\ Sender(e, c, w)
  BY <1>1, AcceptAckStep, AcceptAckSender
<1>3. a = count_dupe_ack(c, seg)
  BY DEF handle_acks
<1>4. /\ Holds(e, a, given, got, sent)
      /\ a.state = t.state /\ a.byte_output = t.byte_output
      /\ "ACK" \in seg.flags => a.seq_base # InitialSeq[e]
  BY <1>1, HandleAcksStep
<1> HIDE DEF c, a
<1>5. Sender(e, a, w)
  <2>1. WellTyped(c)
    BY <1>2 DEF Holds
  <2>2. QED
    BY <1>2, <1>3, <2>1, CountDupeAckSender
<1>6. /\ Holds(e, s, given, got, sent) /\ s.byte_output = a.byte_output
      /\ s.state # "Closed"
  BY <1>4, HandleShakeStep
<1>7. Sender(e, s, w)
  BY <1>4, <1>5, HandleShakeSender
<1> HIDE DEF s
<1>8. sent <= Len(s.byte_output) + WINDOW_SIZE
  BY <1>4, <1>6
<1>9. Holds(e, h, given, got, sent) /\ Sender(e, h, w)
  BY <1>6, <1>7, <1>8, HandlePayloadStep, HandlePayloadSender
<1>10. u = IF "FIN" \in seg.flags /\ h.state # "Panicked" THEN handle_close(h) ELSE h
  BY DEF handle_seg, s, a
<1> HIDE DEF h, u
<1>11. CASE u = h
  BY <1>9, <1>11 DEF u
<1>12. CASE u = handle_close(h)
  <2>1. u.state = "Closed" /\ u.seq_base = h.seq_base /\ u.send_window = h.send_window
    BY <1>9, <1>12 DEF Holds, WellTyped, TCB, handle_close
  <2>2. Sender(e, u, w)
    BY <1>9, <2>1, ClosedSender
  <2>3. QED
    BY <2>2 DEF u
<1>13. QED
  BY <1>10, <1>11, <1>12

-----------------------------------------------------------------------------
(* The steps of the receiver.                                              *)

\* the datagrams that an endpoint has in flight or queued
Outgoing(w) == w.socket \cup {w.unacked_segs[k] : k \in 1 .. Len(w.unacked_segs)}

\* from w to v, f receives nothing, and acknowledges nothing but what it has already got
Quiet(f, w, v) ==
    /\ v.byte_output = w.byte_output
    /\ v.recv_window = w.recv_window
    /\ \A seg \in Outgoing(v) : \/ seg \in Outgoing(w)
                                \/ seg.flags # {"ACK"}
                                \/ seg = PureAck(f, Len(w.byte_output))

LEMMA QuietTwice ==
    ASSUME NEW f, NEW w, NEW v, NEW u, Quiet(f, w, v), Quiet(f, v, u)
    PROVE  Quiet(f, w, u)
BY DEF Quiet

LEMMA QuietFields ==
    ASSUME NEW f, NEW w, NEW v,
           v.byte_output = w.byte_output, v.recv_window = w.recv_window,
           v.socket \subseteq w.socket, v.unacked_segs = w.unacked_segs
    PROVE  Quiet(f, w, v)
BY DEF Quiet, Outgoing

(* An ACK in flight is one of what the receiver has been given.            *)
LEMMA OutgoingAck ==
    ASSUME NEW f \in Endpoint, NEW w, NEW given, NEW got, NEW sent,
           Holds(f, w, given, got, sent),
           NEW n \in Nat, n < SEQ_SPACE, PureAck(f, n) \in Outgoing(w)
    PROVE  n \in 0 .. Len(w.byte_output)
<1> DEFINE d == Len(w.byte_output)
<1>1. /\ Sound(f, w, PureAck(f, n)) /\ w.seq_base \in SeqNum /\ d \in Nat
      /\ peer(f) \in Endpoint
  BY Fields, PeerProperties DEF Holds, InStep, SoundOutput, Outgoing
<1>2. d < SEQ_SPACE
  <2>1. /\ sent \in Nat /\ d <= sent /\ sent + 2 * WINDOW_SIZE + 2 <= SEQ_SPACE
        /\ WINDOW_SIZE \in Nat /\ SEQ_SPACE \in Nat
    BY Positions, Numbers
  <2> HIDE DEF d
  <2>2. QED
    BY <1>1, <2>1
<1>3. PureAck(f, n).flags = {"ACK"} /\ PureAck(f, n).ack_num = At(peer(f), n)
  BY <1>1, ControlProperties
<1>4. Syn(f).flags = {"SYN"} /\ SynAck(f).flags = {"SYN", "ACK"} /\ Fin(w.seq_base).flags = {"FIN"}
  BY <1>1, ControlProperties
<1>5. \A i, m : Data(f, i, m).flags = {}
  BY DEF Data, make_seg
<1>6. PICK m \in 0 .. d : PureAck(f, n) = PureAck(f, m)
  BY <1>1, <1>3, <1>4, <1>5 DEF Sound
<1> HIDE DEF d
<1>7. m \in Nat /\ m < SEQ_SPACE
  <2>1. m \in Nat /\ m <= d /\ SEQ_SPACE \in Nat
    BY <1>1, Numbers
  <2>2. QED
    BY <1>1, <1>2, <2>1
<1>8. PureAck(f, m).ack_num = At(peer(f), m)
  BY <1>1, <1>7, ControlProperties
<1>9. n = m
  BY <1>1, <1>3, <1>6, <1>7, <1>8, AtInjective
<1>10. QED
  BY <1>6, <1>9 DEF d

(* A receiver that receives nothing stays in step.                         *)
LEMMA QuietReceiver ==
    ASSUME NEW e \in Endpoint, NEW t, NEW w, NEW v, NEW given, NEW got, NEW sent,
           Holds(peer(e), w, given, got, sent), PeerInStep(e, t, w), Quiet(peer(e), w, v)
    PROVE  PeerInStep(e, t, v)
<1> DEFINE d == Len(w.byte_output)
           f == peer(e)
<1>1. d \in Nat /\ d < SEQ_SPACE /\ f \in Endpoint /\ peer(f) = e
  <2>1. /\ d \in Nat /\ sent \in Nat /\ d <= sent /\ sent + 2 * WINDOW_SIZE + 2 <= SEQ_SPACE
        /\ WINDOW_SIZE \in Nat /\ SEQ_SPACE \in Nat /\ f \in Endpoint /\ peer(f) = e
    BY Positions, Numbers, Fields, PeerProperties DEF Holds
  <2> HIDE DEF d
  <2>2. QED
    BY <2>1
<1>2. WholeSegments(e, t, w) => WholeSegments(e, t, v)
  BY DEF WholeSegments, Quiet
<1>3. ASSUME t.state = "Estab" PROVE AcksAtCuts(e, t, v)
  <2> HIDE DEF d
  <2>1. v.byte_output = w.byte_output
    BY DEF Quiet
  <2> SUFFICES ASSUME NEW n \in 0 .. d, PureAck(f, n) \in Outgoing(v)
               PROVE  AtCut(e, t, n)
    BY <2>1 DEF AcksAtCuts, Outgoing, d
  <2>2. n \in Nat /\ n < SEQ_SPACE
    BY <1>1, Numbers
  <2>3. CASE PureAck(f, n) \in Outgoing(w)
    BY <1>3, <2>3 DEF PeerInStep, AcksAtCuts, Outgoing, d
  <2>4. CASE PureAck(f, n) = PureAck(f, d)
    <3>1. PureAck(f, n).ack_num = At(e, n) /\ PureAck(f, d).ack_num = At(e, d)
      <4>1. 0 \in SeqNum
        BY Numbers
      <4>2. QED
        BY <1>1, <2>2, <4>1, ControlProperties
    <3>2. n = d
      BY <1>1, <2>2, <2>4, <3>1, AtInjective
    <3>3. QED
      BY <1>3, <3>2 DEF PeerInStep, AtCut, d
  <2>5. PureAck(f, n).flags = {"ACK"}
    BY DEF PureAck, make_seg
  <2>6. QED
    BY <2>3, <2>4, <2>5 DEF Quiet, d
<1>4. QED
  BY <1>2, <1>3 DEF PeerInStep, Quiet

(* Sending, queued or not.                                                 *)
LEMMA SendSegQuiet ==
    ASSUME NEW f, NEW w, WellTyped(w), NEW seg \in Segment,
           seg \in Outgoing(w) \/ seg.flags # {"ACK"} \/ seg = PureAck(f, Len(w.byte_output))
    PROVE  /\ Quiet(f, w, resend_seg(w, seg))
           /\ Quiet(f, w, send_seg(w, seg))
<1> DEFINE v == resend_seg(w, seg)
           u == send_seg(w, seg)
           q == w.unacked_segs
<1>1. /\ v.byte_output = w.byte_output /\ v.recv_window = w.recv_window
      /\ v.socket = w.socket \cup {seg} /\ v.unacked_segs = q
      /\ u.byte_output = w.byte_output /\ u.recv_window = w.recv_window
      /\ u.socket = w.socket \cup {seg} /\ u.unacked_segs = Append(q, seg)
  BY DEF WellTyped, TCB, send_seg, resend_seg
<1>2. q \in Seq(Segment) /\ Len(q) \in Nat
  BY Fields
<1> HIDE DEF v, u, q
<1>3. /\ Len(Append(q, seg)) = Len(q) + 1
      /\ \A k \in 1 .. Len(q) + 1 : Append(q, seg)[k] = IF k <= Len(q) THEN q[k] ELSE seg
  BY <1>2, AppendProperties
<1>4. \A k \in 1 .. Len(q) + 1 : Append(q, seg)[k] = seg \/ \E j \in 1 .. Len(q) : Append(q, seg)[k] = q[j]
  <2> TAKE k \in 1 .. Len(q) + 1
  <2>1. k <= Len(q) => k \in 1 .. Len(q)
    BY <1>2
  <2>2. QED
    BY <1>3, <2>1
<1>5. \A x \in Outgoing(u) : x \in Outgoing(w) \/ x = seg
  BY <1>1, <1>3, <1>4 DEF Outgoing, q
<1>6. \A x \in Outgoing(v) : x \in Outgoing(w) \/ x = seg
  BY <1>1 DEF Outgoing, q
<1>7. Quiet(f, w, v) /\ Quiet(f, w, u)
  BY <1>1, <1>5, <1>6 DEF Quiet
<1>8. QED
  BY <1>7 DEF v, u

LEMMA ResendQuiet ==
    ASSUME NEW f, NEW w, WellTyped(w)
    PROVE  Quiet(f, w, handle_resend(w))
<1> DEFINE q == w.unacked_segs
<1>1. q \in Seq(Segment)
  BY Fields
<1>2. CASE q = << >>
  BY <1>2, QuietFields DEF handle_resend
<1>3. CASE q # << >>
  <2>1. Head(q) = q[1] /\ 1 \in 1 .. Len(q) /\ Head(q) \in Segment
    <3> HIDE DEF q
    <3>1. QED
      BY <1>1, <1>3
  <2>2. Head(q) \in Outgoing(w)
    BY <2>1 DEF Outgoing
  <2>3. Quiet(f, w, resend_seg(w, Head(q)))
    BY <2>1, <2>2, SendSegQuiet
  <2>4. QED
    BY <1>3, <2>3 DEF handle_resend
<1>4. QED
  BY <1>2, <1>3

(* fill_send_window sends data only.                                       *)
LEMMA FillQuiet ==
    ASSUME NEW f \in Endpoint, NEW w, NEW given, NEW got, NEW sent,
           Holds(f, w, given, got, sent)
    PROVE  Quiet(f, w, fill_send_window(w))
<1> DEFINE v == fill_send_window(w)
           q == w.unacked_segs
<1>1. WellTyped(w) /\ q \in Seq(Segment) /\ Len(q) \in Nat
  BY Fields DEF Holds
<1>2. CASE w.state # "Estab"
  BY <1>2, QuietFields DEF fill_send_window
<1>3. CASE w.state = "Estab"
  <2>1. Kept(w, v) /\ Sends(f, w, v)
    BY <1>3, FillSendWindowStep
  <2>2. v.recv_window = w.recv_window
    <3> DEFINE data == Taken(w.send_buffer, send_amt(w))
               window == w.send_window \o data
               rest == Dropped(w.send_buffer, send_amt(w))
               filled == [w EXCEPT !.send_window = window, !.send_buffer = rest]
               next == wrapping_add(w.seq_base, Len(w.send_window))
    <3>1. v = send_data(filled, data, next)
      BY <1>3 DEF fill_send_window
    <3> HIDE DEF data, window, rest, next
    <3>2. filled.recv_window = w.recv_window /\ DOMAIN filled = DOMAIN w
      BY <1>1 DEF WellTyped, TCB
    <3> HIDE DEF filled
    <3>3. send_data(filled, data, next).recv_window = filled.recv_window
      BY <1>1, <3>2 DEF send_data, WellTyped, TCB
    <3>4. QED
      BY <3>1, <3>2, <3>3
  <2> HIDE DEF v, q
  <2>3. PICK segs \in Seq(Segment) :
          /\ v.unacked_segs = q \o segs
          /\ v.socket = w.socket \cup {segs[k] : k \in 1 .. Len(segs)}
          /\ \A k \in 1 .. Len(segs) : \E i, n : segs[k] = Data(f, i, n)
    BY <2>1 DEF Sends, q
  <2>4. /\ Len(segs) \in Nat /\ Len(q \o segs) = Len(q) + Len(segs)
        /\ \A k \in 1 .. Len(q) + Len(segs) :
             (q \o segs)[k] = IF k <= Len(q) THEN q[k] ELSE segs[k - Len(q)]
    BY <1>1, <2>3, ConcatProperties, LenProperties
  <2>5. \A k \in 1 .. Len(segs) : segs[k].flags = {}
    BY <2>3 DEF Data, make_seg
  <2>6. ASSUME NEW k \in 1 .. Len(v.unacked_segs)
        PROVE  v.unacked_segs[k] \in Outgoing(w) \/ v.unacked_segs[k].flags = {}
    <3>1. k \in 1 .. Len(q) + Len(segs)
      BY <2>3, <2>4
    <3>2. CASE k <= Len(q)
      <4>1. k \in 1 .. Len(q)
        BY <1>1, <3>1, <3>2
      <4>2. v.unacked_segs[k] = q[k]
        BY <2>3, <2>4, <3>1, <3>2
      <4>3. QED
        BY <4>1, <4>2 DEF Outgoing, q
    <3>3. CASE ~ k <= Len(q)
      <4>1. k - Len(q) \in 1 .. Len(segs)
        BY <1>1, <2>4, <3>1, <3>3
      <4>2. v.unacked_segs[k] = segs[k - Len(q)]
        BY <2>3, <2>4, <3>1, <3>3
      <4>3. QED
        BY <2>5, <4>1, <4>2
    <3>4. QED
      BY <3>2, <3>3
  <2>7. \A seg \in Outgoing(v) : seg \in Outgoing(w) \/ seg.flags = {}
    BY <2>3, <2>5, <2>6 DEF Outgoing
  <2>8. Quiet(f, w, v)
    BY <2>1, <2>2, <2>7 DEF Quiet, Kept
  <2>9. QED
    BY <2>8 DEF v
<1>4. QED
  BY <1>2, <1>3

(* handle_acks sends data, and sends again what is queued.                 *)
LEMMA AcceptAckQuiet ==
    ASSUME NEW f \in Endpoint, NEW w, NEW given, NEW got, NEW sent,
           Holds(f, w, given, got, sent), NEW seg, Incoming(f, seg, got, sent)
    PROVE  Quiet(f, w, accept_ack(w, seg))
<1> DEFINE q == w.unacked_segs
           left == retain_unacked(q, seg.ack_num)
<1>1. WellTyped(w) /\ q \in Seq(Segment) /\ seg.ack_num \in SeqNum
  BY Fields DEF Holds, Incoming, Segment
<1>2. \A k \in 1 .. Len(left) : \E i \in 1 .. Len(q) : left[k] = q[i]
  <2> HIDE DEF q
  <2>1. QED
    BY <1>1, RetainProperties
<1>3. CASE ~ new_ack(w, seg)
  BY <1>3, QuietFields DEF accept_ack
<1>4. ASSUME NEW v, v.byte_output = w.byte_output, v.recv_window = w.recv_window,
             v.socket = w.socket, v.unacked_segs = left
      PROVE  Quiet(f, w, v)
  <2> HIDE DEF left, q
  <2>1. \A x \in Outgoing(v) : x \in Outgoing(w)
    BY <1>2, <1>4 DEF Outgoing, q
  <2>2. QED
    BY <1>4, <2>1 DEF Quiet
<1>5. CASE new_ack(w, seg) /\ w.state = "Estab"
  <2> DEFINE v == drop_acked(w, seg)
  <2>1. PICK n \in 0 .. got : seg.ack_num = At(f, n)
    BY <1>5 DEF Incoming, new_ack
  <2>2. /\ accept_ack(w, seg) = fill_send_window(v)
        /\ Holds(f, v, given, got, sent) /\ v.socket = w.socket
        /\ v.unacked_segs = left /\ v.byte_output = w.byte_output
        /\ v.recv_window = w.recv_window
    BY <1>1, <1>5, <2>1, DropAckedStep
  <2> HIDE DEF v, left
  <2>3. Quiet(f, w, v)
    BY <1>4, <2>2
  <2>4. Quiet(f, v, fill_send_window(v))
    BY <2>2, FillQuiet
  <2>5. QED
    BY <2>2, <2>3, <2>4, QuietTwice
<1>6. CASE new_ack(w, seg) /\ w.state # "Estab"
  <2> DEFINE v == [w EXCEPT !.unacked_segs = left, !.seq_base = seg.ack_num]
  <2>1. accept_ack(w, seg) = v
    BY <1>6 DEF accept_ack
  <2> HIDE DEF left
  <2>2. /\ v.byte_output = w.byte_output /\ v.recv_window = w.recv_window
        /\ v.socket = w.socket /\ v.unacked_segs = left
    BY <1>1 DEF WellTyped, TCB
  <2> HIDE DEF v
  <2>3. QED
    BY <1>4, <2>1, <2>2
<1>7. QED
  BY <1>3, <1>5, <1>6

LEMMA CountDupeAckQuiet ==
    ASSUME NEW f, NEW w, WellTyped(w), NEW seg
    PROVE  Quiet(f, w, count_dupe_ack(w, seg))
<1>1. ASSUME NEW v, WellTyped(v), NEW n
      PROVE  Quiet(f, v, [v EXCEPT !.dupe_acks = n])
  <2> DEFINE u == [v EXCEPT !.dupe_acks = n]
  <2>1. /\ u.byte_output = v.byte_output /\ u.recv_window = v.recv_window
        /\ u.socket = v.socket /\ u.unacked_segs = v.unacked_segs
    BY <1>1 DEF WellTyped, TCB
  <2> HIDE DEF u
  <2>2. Quiet(f, v, u)
    BY <2>1, QuietFields
  <2>3. QED
    BY <2>2 DEF u
<1>2. WellTyped(handle_resend(w)) /\ Quiet(f, w, handle_resend(w))
  BY HandleResendType, ResendQuiet
<1>3. \/ count_dupe_ack(w, seg) = w
      \/ count_dupe_ack(w, seg) = [handle_resend(w) EXCEPT !.dupe_acks = 0]
      \/ count_dupe_ack(w, seg) = [w EXCEPT !.dupe_acks = w.dupe_acks + 1]
  BY DEF count_dupe_ack
<1>4. CASE count_dupe_ack(w, seg) = w
  BY <1>4, QuietFields
<1>5. CASE count_dupe_ack(w, seg) = [handle_resend(w) EXCEPT !.dupe_acks = 0]
  <2>1. Quiet(f, handle_resend(w), [handle_resend(w) EXCEPT !.dupe_acks = 0])
    BY <1>1, <1>2
  <2>2. QED
    BY <1>2, <1>5, <2>1, QuietTwice
<1>6. CASE count_dupe_ack(w, seg) = [w EXCEPT !.dupe_acks = w.dupe_acks + 1]
  BY <1>1, <1>6
<1>7. QED
  BY <1>3, <1>4, <1>5, <1>6

(* The handshake acknowledges a SYN, before anything has been given.       *)
LEMMA HandleShakeQuiet ==
    ASSUME NEW f \in Endpoint, NEW w, NEW given, NEW got, NEW sent,
           Holds(f, w, given, got, sent), NEW seg, Incoming(f, seg, got, sent),
           w.state # "Closed", "ACK" \in seg.flags => w.seq_base # InitialSeq[f]
    PROVE  Quiet(f, w, handle_shake(w, seg))
<1> DEFINE u == handle_shake(w, seg)
           next == peer_next(seg)
           synack == [make_seg EXCEPT !.flags = {"SYN", "ACK"},
                                      !.seq_num = w.seq_base, !.ack_num = next]
           ack == [make_seg EXCEPT !.flags = {"ACK"}, !.ack_num = next]
           listened == [w EXCEPT !.state = "SynRecd", !.ack_base = next]
           answered == [w EXCEPT !.state = "Estab", !.ack_base = next]
           acked == [w EXCEPT !.state = "Estab"]
<1>1. /\ WellTyped(w) /\ seg.seq_num \in SeqNum /\ 1 \in SeqNum /\ peer(f) \in Endpoint
      /\ w.seq_base \in SeqNum
  BY PeerProperties, Numbers, Fields DEF Holds, Incoming, Segment, SeqNum
<1>2. next \in SeqNum
  BY <1>1, WrappingType DEF peer_next
<1>3. "SYN" \in seg.flags => next = FirstSeq(peer(f)) /\ next = At(peer(f), 0)
  BY <1>1, AtProperties, Numbers DEF Incoming, peer_next, FirstSeq
<1>4. u = CASE w.state = "Listen" /\ "SYN" \in seg.flags -> send_seg(listened, synack)
            [] w.state = "SynSent" /\ {"SYN", "ACK"} \subseteq seg.flags ->
                 fill_send_window(send_ack(answered, ack))
            [] w.state = "SynRecd" /\ "ACK" \in seg.flags -> fill_send_window(acked)
            [] OTHER -> w
  BY DEF handle_shake
<1> HIDE DEF u, next
<1>5. CASE w.state = "Listen" /\ "SYN" \in seg.flags
  <2>1. u = send_seg(listened, synack)
    BY <1>4, <1>5
  <2>2. synack \in Segment /\ synack.flags # {"ACK"}
    <3>1. synack.flags = {"SYN", "ACK"}
      BY DEF make_seg
    <3>2. synack = SynAck(f)
      BY <1>3, <1>5 DEF SynAck, Holds, InStep, Phase
    <3>3. 0 \in Nat /\ 0 < SEQ_SPACE /\ 0 \in SeqNum
      BY Numbers
    <3>4. SynAck(f) \in Segment
      BY <3>3, ControlProperties
    <3>5. QED
      BY <3>1, <3>2, <3>4
  <2>3. WellTyped(listened) /\ SameButState(w, listened)
    BY <1>1, <1>2 DEF WellTyped, TCB, TCBState, SameButState
  <2> HIDE DEF listened, synack
  <2>4. Quiet(f, w, listened)
    BY <2>3, QuietFields DEF SameButState
  <2>5. Quiet(f, listened, u)
    BY <2>1, <2>2, <2>3, SendSegQuiet
  <2>6. Quiet(f, w, u)
    BY <2>4, <2>5, QuietTwice
  <2>7. QED
    BY <2>6 DEF u
<1>6. CASE w.state = "SynSent" /\ {"SYN", "ACK"} \subseteq seg.flags
  <2> DEFINE v == send_ack(answered, ack)
  <2>1. w.seq_base # InitialSeq[f] /\ w.byte_output = << >> /\ AckedBy(f, w) = 0 /\ w.send_window = << >>
    BY <1>6 DEF Holds, InStep, Phase, Greeting
  <2>2. u = fill_send_window(v)
    BY <1>4, <1>6
  <2>3. /\ WellTyped(answered) /\ SameButState(w, answered)
        /\ answered.state = "Estab" /\ answered.ack_base = next
    BY <1>1, <1>2 DEF WellTyped, TCB, TCBState, SameButState
  <2>4. ack = PureAck(f, 0)
    BY <1>3, <1>6 DEF PureAck
  <2> HIDE DEF answered, ack
  <2>5. Len(answered.byte_output) = 0
    BY <2>1, <2>3 DEF SameButState
  <2>6. Phase(f, answered)
    <3>1. answered.seq_base # InitialSeq[f]
      BY <2>1, <2>3 DEF SameButState
    <3>2. answered.ack_base = At(peer(f), Len(answered.byte_output))
      BY <1>3, <1>6, <2>3, <2>5
    <3>3. QED
      BY <2>3, <3>1, <3>2 DEF Phase, Greeting
  <2>7. Holds(f, answered, given, got, sent)
    BY <1>6, <2>3, <2>6, StateStep
  <2>8. Sound(f, answered, ack)
    <3>1. 0 \in 0 .. Len(answered.byte_output)
      BY <2>5
    <3>2. QED
      BY <2>4, <3>1 DEF Sound
  <2>9. Holds(f, v, given, got, sent)
    BY <2>7, <2>8, SendSegStep DEF send_ack
  <2>10. Quiet(f, w, answered)
    BY <2>3, QuietFields DEF SameButState
  <2>11. Quiet(f, answered, v)
    <3>1. ack \in Segment
      BY <2>7, <2>8, SoundIsSegment
    <3>2. ack = PureAck(f, Len(answered.byte_output))
      BY <2>4, <2>5
    <3>3. QED
      BY <2>3, <3>1, <3>2, SendSegQuiet DEF send_ack
  <2> HIDE DEF v
  <2>12. Quiet(f, v, u)
    BY <2>2, <2>9, FillQuiet
  <2>13. Quiet(f, w, u)
    BY <2>10, <2>11, <2>12, QuietTwice
  <2>14. QED
    BY <2>13 DEF u
<1>7. CASE w.state = "SynRecd" /\ "ACK" \in seg.flags
  <2>1. u = fill_send_window(acked)
    BY <1>4, <1>7
  <2>2. /\ WellTyped(acked) /\ SameButState(w, acked)
        /\ acked.state = "Estab" /\ acked.ack_base = w.ack_base
    BY <1>1 DEF WellTyped, TCB, TCBState, SameButState
  <2> HIDE DEF acked
  <2>3. Phase(f, acked)
    BY <1>7, <2>2 DEF Holds, InStep, Phase, Greeting, SameButState
  <2>4. Holds(f, acked, given, got, sent)
    BY <1>7, <2>2, <2>3, StateStep
  <2>5. Quiet(f, w, acked) /\ Quiet(f, acked, u)
    BY <2>1, <2>2, <2>4, QuietFields, FillQuiet DEF SameButState
  <2>6. Quiet(f, w, u)
    BY <2>5, QuietTwice
  <2>7. QED
    BY <2>6 DEF u
<1>8. CASE /\ ~ (w.state = "Listen" /\ "SYN" \in seg.flags)
           /\ ~ (w.state = "SynSent" /\ {"SYN", "ACK"} \subseteq seg.flags)
           /\ ~ (w.state = "SynRecd" /\ "ACK" \in seg.flags)
  <2>1. u = w
    BY <1>4, <1>8
  <2>2. QED
    BY <2>1, QuietFields DEF u
<1>9. QED
  BY <1>5, <1>6, <1>7, <1>8

(* The inputs from the application.                                        *)
LEMMA SendQuiet ==
    ASSUME NEW f \in Endpoint, NEW w, NEW given, NEW got, NEW sent,
           Holds(f, w, given, got, sent), NEW n \in Nat, given + n <= Len(Stream[f])
    PROVE  Quiet(f, w, send(w, SubSeq(Stream[f], given + 1, given + n)))
<1> DEFINE data == SubSeq(Stream[f], given + 1, given + n)
           v == [w EXCEPT !.send_buffer = @ \o data]
<1>1. send(w, data) = fill_send_window(v)
  BY DEF send
<1>2. Holds(f, v, given + n, got, sent) /\ Grows(f, w, v) /\ Kept(w, v)
  BY BufferStep
<1>3. /\ v.recv_window = w.recv_window /\ v.socket = w.socket
      /\ v.unacked_segs = w.unacked_segs
  BY BufferStep
<1> HIDE DEF v
<1>4. Quiet(f, w, v)
  BY <1>2, <1>3, QuietFields DEF Kept
<1>5. Quiet(f, v, fill_send_window(v))
  BY <1>2, FillQuiet
<1>6. QED
  BY <1>1, <1>4, <1>5, QuietTwice

LEMMA SendSynQuiet ==
    ASSUME NEW f \in Endpoint, NEW w, WellTyped(w), w.seq_base = InitialSeq[f]
    PROVE  Quiet(f, w, send_syn(w))
<1> DEFINE v == send_seg(w, Syn(f))
           u == send_syn(w)
<1>1. u = [v EXCEPT !.state = "SynSent"]
  BY DEF send_syn, Syn
<1>2. Syn(f) \in Segment /\ Syn(f).flags # {"ACK"}
  <2>1. 0 \in Nat /\ 0 < SEQ_SPACE /\ 0 \in SeqNum
    BY Numbers
  <2>2. Syn(f) \in Segment /\ Syn(f).flags = {"SYN"}
    BY <2>1, ControlProperties
  <2>3. QED
    BY <2>2
<1>3. Quiet(f, w, v) /\ WellTyped(v)
  BY <1>2, SendSegQuiet, SendSegType
<1> HIDE DEF v
<1>4. /\ u.byte_output = v.byte_output /\ u.recv_window = v.recv_window
      /\ u.socket = v.socket /\ u.unacked_segs = v.unacked_segs
  BY <1>1, <1>3 DEF WellTyped, TCB
<1> HIDE DEF u
<1>5. Quiet(f, w, u)
  BY <1>3, <1>4, QuietFields, QuietTwice
<1>6. QED
  BY <1>5 DEF u

LEMMA SendCloseQuiet ==
    ASSUME NEW f \in Endpoint, NEW w, WellTyped(w)
    PROVE  Quiet(f, w, send_close(w))
<1> DEFINE fin == Fin(w.seq_base)
           v == send_seg(w, fin)
           u == send_close(w)
<1>1. u = [v EXCEPT !.state = "Closed"]
  BY DEF send_close, Fin
<1>2. fin \in Segment /\ fin.flags # {"ACK"}
  <2>1. 0 \in Nat /\ 0 < SEQ_SPACE /\ w.seq_base \in SeqNum
    BY Numbers, Fields
  <2>2. fin \in Segment /\ fin.flags = {"FIN"}
    BY <2>1, ControlProperties
  <2>3. QED
    BY <2>2
<1> HIDE DEF fin
<1>3. Quiet(f, w, v) /\ WellTyped(v)
  BY <1>2, SendSegQuiet, SendSegType
<1> HIDE DEF v
<1>4. /\ u.byte_output = v.byte_output /\ u.recv_window = v.recv_window
      /\ u.socket = v.socket /\ u.unacked_segs = v.unacked_segs
  BY <1>1, <1>3 DEF WellTyped, TCB
<1> HIDE DEF u
<1>5. Quiet(f, w, u)
  BY <1>3, <1>4, QuietFields, QuietTwice
<1>6. QED
  BY <1>5 DEF u

(* A segment of the queue is stored as a whole, and touches no other       *)
(* (handle_payload, tcp.rs 165-176).                                       *)
LEMMA StoreWhole ==
    ASSUME NEW e \in Endpoint, NEW t, NEW given, NEW got, NEW sent,
           Holds(e, t, given, got, sent), Consecutive(e, t),
           NEW w, WholeSegments(e, t, w), NEW s, s.byte_output = w.byte_output,
           Len(w.byte_output) \in Nat,
           NEW k \in 1 .. Len(t.unacked_segs),
           \A i \in Slot :
             IF Len(w.byte_output) + i
                  \in Place(e, t.unacked_segs[k]) .. After(e, t.unacked_segs[k]) - 1
             THEN s.recv_window[i] # None
             ELSE s.recv_window[i] = w.recv_window[i]
    PROVE  WholeSegments(e, t, s)
<1> DEFINE q == t.unacked_segs
           d == Len(w.byte_output)
           n == Len(q)
           place(m) == Place(e, q[m])
           after(m) == After(e, q[m])
<1>1. \A m \in 1 .. n : place(m) \in Nat /\ after(m) \in Nat /\ place(m) < after(m)
  BY QueueOrder
<1>2. \A m \in 1 .. n : \A j \in 1 .. m - 1 : after(j) <= place(m)
  BY QueueOrder
<1>3. n \in Nat
  BY Fields DEF Holds
<1>4. \A m \in 1 .. n : \A i, j \in Slot :
        {d + i, d + j} \subseteq place(m) .. after(m) - 1
        => (w.recv_window[i] = None <=> w.recv_window[j] = None)
  BY DEF WholeSegments
<1>5. \A i \in Slot : IF d + i \in place(k) .. after(k) - 1
                      THEN s.recv_window[i] # None
                      ELSE s.recv_window[i] = w.recv_window[i]
  OBVIOUS
<1>6. Len(s.byte_output) = d /\ k \in 1 .. n
  OBVIOUS
<1>7. \A i \in Slot : i \in Nat
  BY DEF Slot
<1> SUFFICES ASSUME NEW m \in 1 .. n, NEW i \in Slot, NEW j \in Slot,
                    {d + i, d + j} \subseteq place(m) .. after(m) - 1
             PROVE  s.recv_window[i] = None <=> s.recv_window[j] = None
  BY <1>6 DEF WholeSegments
<1> HIDE DEF q, d, n, place, after
<1>8. CASE m = k
  BY <1>5, <1>8
<1>9. CASE m # k
  <2>1. m \in 1 .. k - 1 \/ k \in 1 .. m - 1
    BY <1>3, <1>6, <1>9
  <2>2. after(m) <= place(k) \/ after(k) <= place(m)
    BY <1>2, <1>6, <2>1
  <2>3. \A x : x \in place(m) .. after(m) - 1 => x \notin place(k) .. after(k) - 1
    BY <1>1, <1>6, <2>2
  <2>4. d + i \notin place(k) .. after(k) - 1 /\ d + j \notin place(k) .. after(k) - 1
    BY <2>3
  <2>5. s.recv_window[i] = w.recv_window[i] /\ s.recv_window[j] = w.recv_window[j]
    BY <1>5, <2>4
  <2>6. QED
    BY <1>4, <2>5
<1>10. QED
  BY <1>8, <1>9

(* What is contiguous in the window ends with a segment.                   *)
LEMMA PrefixAtCut ==
    ASSUME NEW e \in Endpoint, NEW t, NEW given, NEW got, NEW sent,
           Holds(e, t, given, got, sent), Consecutive(e, t),
           NEW s, WholeSegments(e, t, s), got = Len(s.byte_output), got \in Cuts(e, t),
           NEW n \in 0 .. WINDOW_SIZE, got + n <= SentBy(e, t),
           \A i \in 0 .. n - 1 : s.recv_window[i] # None,
           n = WINDOW_SIZE \/ s.recv_window[n] = None
    PROVE  got + n \in Cuts(e, t)
<1> DEFINE q == t.unacked_segs
           place(m) == Place(e, q[m])
           after(m) == After(e, q[m])
           x == got + n
<1>1. /\ AckedBy(e, t) \in Nat /\ SentBy(e, t) \in Nat /\ got \in Nat
      /\ AckedBy(e, t) <= got /\ SentBy(e, t) <= got + WINDOW_SIZE
      /\ WINDOW_SIZE \in Nat /\ n \in Nat
  BY Positions, Numbers, SMTT(30)
<1>2. \A m \in 1 .. Len(q) : /\ place(m) \in Nat /\ after(m) \in Nat
                             /\ after(m) <= SentBy(e, t)
  BY QueueOrder
<1>3. \A m \in 1 .. Len(q) : got <= place(m) \/ after(m) <= got
  BY CutProperties
<1>4. \A m \in 1 .. Len(q) : \A i, j \in Slot :
        {got + i, got + j} \subseteq place(m) .. after(m) - 1
        => (s.recv_window[i] = None <=> s.recv_window[j] = None)
  BY DEF WholeSegments
<1>5. x \in AckedBy(e, t) .. SentBy(e, t)
  BY <1>1
<1> HIDE DEF q, place, after
<1>6. \A m \in 1 .. Len(q) : x <= place(m) \/ after(m) <= x
  <2> SUFFICES ASSUME NEW m \in 1 .. Len(q), ~ x <= place(m), ~ after(m) <= x
               PROVE  FALSE
    OBVIOUS
  <2>1. place(m) \in Nat /\ after(m) \in Nat /\ after(m) <= SentBy(e, t)
    BY <1>2
  <2>2. n # 0
    <3>1. n = 0 => x = got
      BY <1>1
    <3>2. QED
      BY <1>3, <3>1
  <2>3. n < WINDOW_SIZE
    <3>1. got + n < SentBy(e, t)
      BY <1>1, <2>1
    <3>2. \A a, b, c, h \in Nat : a + b < c /\ c <= a + h => b < h
      BY ONLY SMT
    <3>3. QED
      BY <1>1, <3>1, <3>2
  <2>4. n \in Slot /\ n - 1 \in Slot /\ n - 1 \in 0 .. n - 1
    BY <1>1, <2>2, <2>3 DEF Slot
  <2>5. got + n \in place(m) .. after(m) - 1
    BY <1>1, <2>1
  <2>6. got + (n - 1) \in place(m) .. after(m) - 1
    BY <1>1, <2>1, <2>2
  <2> DEFINE last == n - 1
  <2> HIDE DEF last
  <2>7. s.recv_window[n] = None <=> s.recv_window[last] = None
    <3>1. last \in Slot /\ got + last \in place(m) .. after(m) - 1
      BY <2>4, <2>6 DEF last
    <3>2. {got + n, got + last} \subseteq place(m) .. after(m) - 1
      BY <2>5, <3>1
    <3>3. QED
      BY <1>4, <2>4, <3>1, <3>2, SMTT(30)
  <2>8. s.recv_window[n] = None
    BY <1>1, <2>3
  <2>9. QED
    BY <2>4, <2>7, <2>8 DEF last
<1>7. QED
  BY <1>5, <1>6, CutProperties DEF q, place, after

(* Sliding the window keeps segments whole.                                *)
LEMMA SlideWhole ==
    ASSUME NEW e \in Endpoint, NEW t, NEW given, NEW got, NEW sent,
           Holds(e, t, given, got, sent), Consecutive(e, t),
           NEW s, WholeSegments(e, t, s), got = Len(s.byte_output),
           NEW n \in Nat, NEW u, Len(u.byte_output) = got + n,
           \A i \in Slot : i + n \in Slot => u.recv_window[i] = s.recv_window[i + n]
    PROVE  WholeSegments(e, t, u)
<1> DEFINE q == t.unacked_segs
           place(m) == Place(e, q[m])
           after(m) == After(e, q[m])
<1>1. /\ got \in Nat /\ SentBy(e, t) \in Nat /\ SentBy(e, t) <= got + WINDOW_SIZE
      /\ WINDOW_SIZE \in Nat
  BY Positions, Numbers
<1>2. \A m \in 1 .. Len(q) : /\ place(m) \in Nat /\ after(m) \in Nat
                             /\ after(m) <= SentBy(e, t)
  BY QueueOrder
<1>3. \A m \in 1 .. Len(q) : \A i, j \in Slot :
        {got + i, got + j} \subseteq place(m) .. after(m) - 1
        => (s.recv_window[i] = None <=> s.recv_window[j] = None)
  BY DEF WholeSegments
<1> SUFFICES ASSUME NEW m \in 1 .. Len(q), NEW i \in Slot, NEW j \in Slot,
                    {(got + n) + i, (got + n) + j} \subseteq place(m) .. after(m) - 1
             PROVE  u.recv_window[i] = None <=> u.recv_window[j] = None
  BY DEF WholeSegments
<1> HIDE DEF q, place, after
<1>4. ASSUME NEW h \in Slot, (got + n) + h \in place(m) .. after(m) - 1
      PROVE  h + n \in Slot /\ got + (h + n) \in place(m) .. after(m) - 1
  <2>1. place(m) \in Nat /\ after(m) \in Nat /\ after(m) <= SentBy(e, t) /\ h \in Nat
    BY <1>2 DEF Slot
  <2>2. (got + n) + h = got + (h + n) /\ h + n \in Nat
    <3>1. \A a, b, c \in Nat : (a + b) + c = a + (c + b) /\ c + b \in Nat
      BY ONLY SMT
    <3>2. got \in Nat /\ n \in Nat /\ h \in Nat
      BY <1>1, <2>1
    <3>3. QED
      BY <3>1, <3>2, ZenonT(40)
  <2>3. got + (h + n) < SentBy(e, t)
    <3>1. \A x \in place(m) .. after(m) - 1 : x < SentBy(e, t)
      BY <1>1, <2>1
    <3>2. QED
      BY <1>4, <2>2, <3>1
  <2>4. \A a, b, c, k \in Nat : a + b < c /\ c <= a + k => b < k
    BY ONLY SMT
  <2>5. h + n \in Nat /\ h + n < WINDOW_SIZE
    BY <1>1, <2>2, <2>3, <2>4
  <2>6. h + n \in Slot
    BY <1>1, <2>5 DEF Slot
  <2>7. QED
    BY <1>4, <2>2, <2>6
<1>5. /\ i + n \in Slot /\ got + (i + n) \in place(m) .. after(m) - 1
      /\ j + n \in Slot /\ got + (j + n) \in place(m) .. after(m) - 1
  BY <1>4
<1>6. s.recv_window[i + n] = None <=> s.recv_window[j + n] = None
  BY <1>3, <1>5
<1>7. QED
  BY <1>5, <1>6

(* The effect of deliver_prefix, whatever the window holds (tcp.rs         *)
(* 184-198).                                                               *)
LEMMA DeliverPrefixEffect ==
    ASSUME NEW t, WellTyped(t)
    PROVE  LET u == deliver_prefix(t)
               n == FilledPrefix(t.recv_window)
           IN  /\ WellTyped(u)
               /\ Len(u.byte_output) = Len(t.byte_output) + n
               /\ \A i \in Slot : i + n \in Slot => u.recv_window[i] = t.recv_window[i + n]
               /\ u.socket = t.socket /\ u.unacked_segs = t.unacked_segs
<1> DEFINE u == deliver_prefix(t)
           n == FilledPrefix(t.recv_window)
<1>1. /\ Len(u.byte_output) = Len(t.byte_output) + n
      /\ \A i \in Slot : u.recv_window[i] = IF i + n \in Slot THEN t.recv_window[i + n] ELSE None
      /\ u.socket = t.socket /\ u.unacked_segs = t.unacked_segs
  BY DeliverPrefixProperties
<1>2. WellTyped(u)
  BY DeliverPrefixType
<1> HIDE DEF u, n
<1>3. QED
  BY <1>1, <1>2 DEF u, n

(* A datagram of an established end, taken in by handle_payload at the     *)
(* other, is an old one or a whole segment of the queue: whole segments    *)
(* are stored, delivered and acknowledged (tcp.rs 165-211).                *)
LEMMA HandlePayloadReceiver ==
    ASSUME NEW e \in Endpoint, NEW t, NEW w, NEW given, NEW sent, NEW given2,
           Holds(e, t, given, Len(w.byte_output), sent),
           Holds(peer(e), w, given2, Len(t.byte_output), SentBy(e, t)),
           QueueInStep(e, t), PeerInStep(e, t, w), NEW seg \in t.socket
    PROVE  PeerInStep(e, t, handle_payload(w, seg))
<1> DEFINE u == handle_payload(w, seg)
           f == peer(e)
           d == Len(w.byte_output)
           size == Len(seg.payload)
           in_window == in_wrapped_range(w.ack_base, wrapping_add(w.ack_base, WINDOW_SIZE),
                                         seg.seq_num)
           index == window_index_base(w, seg)
           covered == index .. index + size - 1
           window == [i \in Slot |-> IF i \in covered THEN seg.payload[i - index + 1]
                                     ELSE w.recv_window[i]]
           stored == IF in_window THEN [w EXCEPT !.recv_window = window] ELSE w
           delivered == deliver_prefix(stored)
           ack == [make_seg EXCEPT !.flags = {"ACK"}, !.ack_num = delivered.ack_base]
<1>1. f \in Endpoint /\ peer(f) = e
  BY PeerProperties
<1>2. /\ d \in Nat /\ AckedBy(e, t) \in Nat /\ SentBy(e, t) \in Nat
      /\ AckedBy(e, t) <= d /\ d <= SentBy(e, t) /\ SentBy(e, t) <= d + WINDOW_SIZE
      /\ SentBy(e, t) + 2 * WINDOW_SIZE + 2 <= SEQ_SPACE
      /\ WINDOW_SIZE \in Nat /\ SEQ_SPACE \in Nat
  BY Positions, Numbers
<1>3. Sound(e, t, seg) /\ WellTyped(w)
  BY DEF Holds, InStep, SoundOutput
<1>4. Incoming(f, seg, Len(t.byte_output), SentBy(e, t))
  BY <1>1, <1>3, SoundIsIncoming
<1>5. Holds(f, u, given2, Len(t.byte_output), SentBy(e, t)) /\ u.state = w.state
  BY <1>1, <1>2, <1>4, HandlePayloadStep
<1>6. u = CASE w.state # "Estab" -> w
            [] w.state = "Estab" /\ in_window /\ ~ covered \subseteq Slot ->
                 [w EXCEPT !.state = "Panicked"]
            [] w.state = "Estab" /\ covered \subseteq Slot /\ acknowledged(w, seg) ->
                 send_ack(delivered, ack)
            [] OTHER -> stored
  BY Zenon DEF handle_payload
<1>7. CASE t.state # "Estab"
  BY <1>7 DEF PeerInStep
<1>8. CASE w.state # "Estab"
  BY <1>6, <1>8
<1>9. CASE t.state = "Estab" /\ w.state = "Estab"
  <2>1. u = stored \/ u = send_ack(delivered, ack)
    <3> HIDE DEF stored, delivered, ack, covered, in_window
    <3>1. [w EXCEPT !.state = "Panicked"].state = "Panicked"
      BY <1>3 DEF WellTyped, TCB
    <3>2. u # [w EXCEPT !.state = "Panicked"]
      BY <1>5, <1>9, <3>1
    <3> HIDE DEF u
    <3>3. QED
      BY <1>6, <1>9, <3>2
  <2>2. /\ seg \in Segment /\ seg.payload \in Seq(Byte) /\ size \in Nat
        /\ seg.seq_num \in SeqNum /\ w.ack_base \in SeqNum
        /\ w.recv_window \in [Slot -> Byte \cup {None}]
    <3>1. seg \in Segment
      BY <1>4 DEF Incoming
    <3>2. seg.payload \in Seq(Byte) /\ seg.seq_num \in SeqNum
      BY <3>1 DEF Segment
    <3>3. QED
      BY <1>3, <3>1, <3>2, Fields, LenProperties
  <2>3. index \in Nat
    <3>1. index \in SeqNum
      BY <2>2, WrappingType DEF window_index_base
    <3> HIDE DEF index
    <3>2. QED
      BY <3>1 DEF SeqNum
  <2>4. \A i \in covered : seg.payload[i - index + 1] \in Byte
    <3> HIDE DEF index, size
    <3> TAKE i \in covered
    <3>1. i - index + 1 \in 1 .. size
      BY <2>2, <2>3
    <3>2. QED
      BY <2>2, <3>1, ElementOfSeq DEF size
  <2>5. /\ stored.byte_output = w.byte_output /\ stored.socket = w.socket
        /\ stored.unacked_segs = w.unacked_segs
        /\ stored.recv_window = IF in_window THEN window ELSE w.recv_window
    <3> HIDE DEF window, in_window
    <3>1. QED
      BY <1>3 DEF WellTyped, TCB
  <2>6. \A i \in Slot :
          window[i] = IF i \in covered THEN seg.payload[i - index + 1] ELSE w.recv_window[i]
    OBVIOUS
  <2>7. WellTyped(stored)
    <3>1. \A i \in Slot : w.recv_window[i] \in Byte \cup {None}
      BY <2>2
    <3>2. window \in [Slot -> Byte \cup {None}]
      <4> HIDE DEF covered, index
      <4>1. QED
        BY <2>4, <3>1
    <3> HIDE DEF window, in_window
    <3>3. QED
      BY <1>3, <3>2 DEF WellTyped, TCB
  <2>8. Consecutive(e, t) /\ InFlightQueued(e, t) /\ WholeSegments(e, t, w)
    BY <1>9 DEF QueueInStep, PeerInStep
  <2> HIDE DEF window, stored, u, d
  <2>9. ASSUME \A i \in Slot : stored.recv_window[i] = w.recv_window[i]
        PROVE  WholeSegments(e, t, stored)
    BY <2>5, <2>8, <2>9 DEF WholeSegments
  <2>10. WholeSegments(e, t, stored)
    <3>1. CASE ~ in_window
      <4> HIDE DEF in_window
      <4>1. QED
        BY <2>5, <2>9, <3>1
    <3>2. CASE size = 0
      <4> HIDE DEF size, index, in_window
      <4>1. covered = {}
        BY <2>3, <3>2
      <4> HIDE DEF covered
      <4>2. QED
        BY <2>5, <2>6, <2>9, <4>1
    <3>3. CASE in_window /\ size # 0
      <4> DEFINE i == Place(e, seg)
      <4>1. seg.payload # << >>
        BY <3>3, EmptySeq
      <4>2. /\ i \in Nat /\ After(e, seg) \in Nat /\ i < After(e, seg)
            /\ After(e, seg) <= SentBy(e, t) /\ size = After(e, seg) - i
            /\ seg.seq_num = At(e, i)
        BY <1>3, <4>1, PieceProperties
      <4> HIDE DEF i, size
      <4>3. size \in Nat \ {0} /\ i + size = After(e, seg) /\ i + size <= SentBy(e, t)
        <5>1. \A a, b \in Nat : b < a => a - b \in Nat \ {0} /\ b + (a - b) = a
          BY ONLY SMT
        <5>2. size \in Nat \ {0} /\ i + size = After(e, seg)
          BY <4>2, <5>1, Zenon
        <5>3. QED
          BY <4>2, <5>2
      <4>4. /\ d <= i /\ index = i - d
        <5>1. seg.seq_num = At(peer(f), i)
          BY <1>1, <4>2
        <5>2. SentBy(e, t) <= Len(w.byte_output) + WINDOW_SIZE
          BY <1>2 DEF d
        <5> HIDE DEF f
        <5>3. Holds(f, w, given2, Len(t.byte_output), SentBy(e, t))
          BY DEF f
        <5>4. /\ Len(w.byte_output) <= i
              /\ index = i - Len(w.byte_output)
              /\ index .. index + size - 1 \subseteq Slot
          BY <1>1, <1>9, <3>3, <4>2, <4>3, <5>1, <5>2, <5>3, PayloadFits, SMTT(30)
        <5>5. QED
          BY <5>4 DEF d
      <4>5. PICK k \in 1 .. Len(t.unacked_segs) : seg = t.unacked_segs[k]
        <5>1. ~ After(e, seg) <= AckedBy(e, t)
          BY <1>2, <4>2, <4>4
        <5>2. QED
          BY <2>8, <4>1, <5>1 DEF InFlightQueued
      <4> HIDE DEF index, in_window
      <4>6. \A j \in Slot : d + j \in i .. After(e, seg) - 1 <=> j \in covered
        <5> TAKE j \in Slot
        <5>1. j \in Nat
          BY DEF Slot
        <5>2. d + j \in i .. After(e, seg) - 1 <=> i <= d + j /\ d + j < i + size
          <6>1. d + j \in Nat
            BY <1>2, <5>1, SMTT(30)
          <6>2. \A a, b, c \in Nat : c \in a .. b - 1 <=> a <= c /\ c < b
            BY ONLY SMT
          <6>3. d + j \in i .. After(e, seg) - 1 <=> i <= d + j /\ d + j < After(e, seg)
            BY <4>2, <6>1, <6>2, Zenon
          <6>4. QED
            BY <4>3, <6>3, Zenon
        <5>3. j \in covered <=> index <= j /\ j < index + size
          BY <2>3, <4>3, <5>1
        <5>4. \A a, b, c \in Nat : a <= b => (b <= a + c <=> b - a <= c)
          BY ONLY SMT
        <5>5. i <= d + j <=> i - d <= j
          BY <1>2, <4>2, <4>4, <5>1, <5>4
        <5>6. d + j < i + size <=> j < (i - d) + size
          <6>1. d \in Nat /\ i \in Nat /\ size \in Nat /\ d <= i
            BY <1>2, <4>2, <4>3, <4>4
          <6>2. \A a, b, c, h \in Nat : a <= b => (a + c < b + h <=> c < (b - a) + h)
            BY ONLY SMT
          <6>3. QED
            BY <5>1, <6>1, <6>2
        <5>7. QED
          BY <4>4, <5>2, <5>3, <5>5, <5>6
      <4> HIDE DEF covered
      <4>7. \A j \in Slot : IF d + j \in i .. After(e, seg) - 1
                            THEN stored.recv_window[j] # None
                            ELSE stored.recv_window[j] = w.recv_window[j]
        BY <2>4, <2>5, <2>6, <3>3, <4>6, WindowAssumption
      <4>8. QED
        BY <1>2, <2>5, <2>8, <4>5, <4>7, StoreWhole DEF d, i
    <3>4. QED
      BY <3>1, <3>2, <3>3
  <2>11. d \in Cuts(e, t)
    BY <1>9 DEF PeerInStep, d
  <2>12. CASE u = stored
    <3>1. AcksAtCuts(e, t, u)
      BY <1>9, <2>5, <2>12 DEF PeerInStep, AcksAtCuts
    <3>2. PeerInStep(e, t, u)
      BY <2>5, <2>10, <2>11, <2>12, <3>1 DEF PeerInStep, d
    <3>3. QED
      BY <3>2 DEF u
  <2>13. CASE u = send_ack(delivered, ack)
    <3> DEFINE n == FilledPrefix(stored.recv_window)
    <3>1. /\ n \in 0 .. WINDOW_SIZE /\ \A i \in 0 .. n - 1 : stored.recv_window[i] # None
          /\ n = WINDOW_SIZE \/ stored.recv_window[n] = None
      BY FilledPrefixProperties
    <3>2. /\ WellTyped(delivered) /\ Len(delivered.byte_output) = d + n
          /\ \A i \in Slot : i + n \in Slot => delivered.recv_window[i] = stored.recv_window[i + n]
          /\ delivered.socket = w.socket /\ delivered.unacked_segs = w.unacked_segs
      BY <2>5, <2>7, DeliverPrefixEffect DEF d
    <3> HIDE DEF delivered, n
    <3>3. /\ u.byte_output = delivered.byte_output /\ u.recv_window = delivered.recv_window
          /\ u.ack_base = delivered.ack_base /\ u.unacked_segs = w.unacked_segs
          /\ u.socket = w.socket \cup {ack}
      BY <2>13, <3>2 DEF WellTyped, TCB, send_ack, resend_seg
    <3>4. d + n <= SentBy(e, t) /\ d + n \in Nat
      <4>1. Len(u.byte_output) <= SentBy(e, t)
        BY <1>1, <1>5, Positions
      <4>2. QED
        BY <1>2, <3>1, <3>2, <3>3, <4>1
    <3>5. ack = PureAck(f, d + n)
      <4>1. u.ack_base = At(e, Len(u.byte_output))
        BY <1>1, <1>5, <1>9 DEF Holds, InStep, Phase
      <4>2. QED
        BY <1>1, <3>2, <3>3, <4>1 DEF PureAck
    <3>6. d + n \in Cuts(e, t)
      <4>1. Holds(e, t, given, d, sent) /\ d = Len(stored.byte_output)
        BY <2>5 DEF d
      <4>2. QED
        BY <2>8, <2>10, <2>11, <3>1, <3>4, <4>1, PrefixAtCut
    <3>7. WholeSegments(e, t, u)
      <4>1. Holds(e, t, given, d, sent) /\ d = Len(stored.byte_output) /\ n \in Nat
        BY <1>2, <2>5, <3>1 DEF d
      <4>2. Len(u.byte_output) = d + n
        BY <3>2, <3>3
      <4>3. \A i \in Slot : i + n \in Slot => u.recv_window[i] = stored.recv_window[i + n]
        BY <3>2, <3>3
      <4>4. QED
        BY <2>8, <2>10, <4>1, <4>2, <4>3, SlideWhole
    <3>8. AcksAtCuts(e, t, u)
      <4> SUFFICES ASSUME NEW x \in 0 .. d + n, PureAck(f, x) \in Outgoing(u)
                   PROVE  AtCut(e, t, x)
        BY <3>2, <3>3 DEF AcksAtCuts, Outgoing
      <4>1. x \in Nat /\ x < SEQ_SPACE /\ d + n < SEQ_SPACE
        BY <1>2, <3>4
      <4>2. CASE PureAck(f, x) \in Outgoing(w)
        <5>1. x \in 0 .. d
          BY <1>1, <4>1, <4>2, OutgoingAck DEF d
        <5>2. AcksAtCuts(e, t, w)
          BY <1>9 DEF PeerInStep
        <5>3. QED
          BY <4>2, <5>1, <5>2 DEF AcksAtCuts, Outgoing, d
      <4>3. CASE PureAck(f, x) = PureAck(f, d + n)
        <5>1. PureAck(f, x).ack_num = At(e, x) /\ PureAck(f, d + n).ack_num = At(e, d + n)
          <6>1. 0 \in SeqNum
            BY Numbers
          <6>2. QED
            BY <1>1, <3>4, <4>1, <6>1, ControlProperties
        <5>2. x = d + n
          BY <3>4, <4>1, <4>3, <5>1, AtInjective
        <5>3. QED
          BY <3>6, <5>2 DEF AtCut
      <4>4. PureAck(f, x) \in Outgoing(w) \/ PureAck(f, x) = PureAck(f, d + n)
        BY <3>3, <3>5 DEF Outgoing
      <4>5. QED
        BY <4>2, <4>3, <4>4
    <3>9. PeerInStep(e, t, u)
      BY <3>2, <3>3, <3>6, <3>7, <3>8 DEF PeerInStep
    <3>10. QED
      BY <3>9 DEF u
  <2>14. QED
    BY <2>1, <2>12, <2>13
<1>10. QED
  BY <1>7, <1>8, <1>9

(* The whole of handle_seg, at the receiver.                               *)
LEMMA HandleSegReceiver ==
    ASSUME NEW e \in Endpoint, NEW t, NEW w, NEW given, NEW sent, NEW given2,
           Holds(e, t, given, Len(w.byte_output), sent),
           Holds(peer(e), w, given2, Len(t.byte_output), SentBy(e, t)),
           QueueInStep(e, t), PeerInStep(e, t, w), NEW seg \in t.socket,
           w.state # "Closed", w.state = "Listen" => seg.flags = {"SYN"}
    PROVE  PeerInStep(e, t, handle_seg(w, seg))
<1> DEFINE f == peer(e)
           got == Len(t.byte_output)
           c == accept_ack(w, seg)
           a == handle_acks(w, seg)
           s == handle_shake(a, seg)
           h == handle_payload(s, seg)
           u == handle_seg(w, seg)
<1>1. /\ f \in Endpoint /\ peer(f) = e /\ Sound(e, t, seg)
      /\ Holds(f, w, given2, got, SentBy(e, t))
  BY PeerProperties DEF Holds, InStep, SoundOutput
<1>2. Incoming(f, seg, got, SentBy(e, t))
  BY <1>1, SoundIsIncoming
<1>3. w.state = "Listen" => "ACK" \notin seg.flags
  OBVIOUS
<1> HIDE DEF got
<1>4. /\ Holds(f, c, given2, got, SentBy(e, t)) /\ Quiet(f, w, c)
  BY <1>1, <1>2, <1>3, AcceptAckStep, AcceptAckQuiet
<1>5. a = count_dupe_ack(c, seg)
  BY DEF handle_acks
<1>6. /\ Holds(f, a, given2, got, SentBy(e, t))
      /\ a.state = w.state
      /\ "ACK" \in seg.flags => a.seq_base # InitialSeq[f]
  BY <1>1, <1>2, <1>3, HandleAcksStep
<1> HIDE DEF c, a
<1>7. Quiet(f, w, a)
  <2>1. WellTyped(c)
    BY <1>4 DEF Holds
  <2>2. Quiet(f, c, a)
    BY <1>5, <2>1, CountDupeAckQuiet
  <2>3. QED
    BY <1>4, <2>2, QuietTwice
<1>8. Holds(f, s, given2, got, SentBy(e, t))
  BY <1>1, <1>2, <1>6, HandleShakeStep
<1>9. Quiet(f, a, s)
  BY <1>1, <1>2, <1>6, HandleShakeQuiet
<1> HIDE DEF s
<1>10. Quiet(f, w, s)
  BY <1>7, <1>9, QuietTwice
<1>11. PeerInStep(e, t, s) /\ s.byte_output = w.byte_output
  BY <1>1, <1>10, QuietReceiver DEF Quiet
<1>12. PeerInStep(e, t, h)
  <2>1. Holds(e, t, given, Len(s.byte_output), sent)
    BY <1>11
  <2>2. QED
    BY <1>8, <1>11, <2>1, HandlePayloadReceiver DEF got
<1>13. u = IF "FIN" \in seg.flags /\ h.state # "Panicked" THEN handle_close(h) ELSE h
  BY DEF handle_seg, s, a
<1>14. Holds(f, h, given2, got, SentBy(e, t))
  <2>1. SentBy(e, t) <= Len(s.byte_output) + WINDOW_SIZE
    BY <1>11, Positions
  <2>2. QED
    BY <1>1, <1>2, <1>8, <2>1, HandlePayloadStep
<1> HIDE DEF h, u
<1>15. CASE u = h
  BY <1>12, <1>15 DEF u
<1>16. CASE u = handle_close(h)
  <2>1. WellTyped(h)
    BY <1>14 DEF Holds
  <2>2. /\ u.byte_output = h.byte_output /\ u.recv_window = h.recv_window
        /\ u.socket = h.socket /\ u.unacked_segs = h.unacked_segs
    BY <1>16, <2>1 DEF WellTyped, TCB, handle_close
  <2>3. Quiet(f, h, u)
    BY <2>2, QuietFields
  <2>4. PeerInStep(e, t, u)
    BY <1>12, <1>14, <2>3, QuietReceiver
  <2>5. QED
    BY <2>4 DEF u
<1>17. QED
  BY <1>13, <1>15, <1>16

-----------------------------------------------------------------------------
(* The invariant.                                                          *)

(* CutInvariant, said as the lemmas about the sender need it.              *)
LEMMA SenderAt ==
    ASSUME TypeOK, DeliveryInvariant, CutInvariant, NEW e \in Endpoint
    PROVE  Sender(e, tcb[e], tcb[peer(e)])
<1>1. peer(e) \in Endpoint /\ peer(peer(e)) = e
  BY PeerProperties
<1>2. WellTyped(tcb[peer(e)])
  BY <1>1, TypeOKByEndpoint
<1>3. HoldsAt(peer(e))
  BY <1>1, InvariantByEndpoint
<1>4. \A i \in Slot : tcb[peer(e)].recv_window[i] # None =>
         Len(tcb[peer(e)].byte_output) + i + 1 <= SentBy(e, tcb[e])
  BY <1>1, <1>3 DEF HoldsAt, Holds, InStep, ReceiveSide, HoldsStream
<1>5. QED
  BY <1>2, <1>4 DEF Sender, CutInvariant

(* A step that rewrites the TCB of e alone is right if it is right for e   *)
(* as a sender, and quiet as a receiver.                                   *)
LEMMA CutOwnStep ==
    ASSUME TypeOK, DeliveryInvariant, CutInvariant, NEW e \in Endpoint,
           NEW u, tcb' = [tcb EXCEPT ![e] = u],
           Sender(e, u, tcb[peer(e)]), Quiet(e, tcb[e], u)
    PROVE  CutInvariant'
<1> DEFINE p == peer(e)
<1>1. /\ p \in Endpoint /\ p # e /\ peer(p) = e /\ \A f \in Endpoint : f = e \/ f = p
  BY PeerProperties DEF Endpoint, peer
<1>2. tcb'[e] = u /\ tcb'[p] = tcb[p]
  BY <1>1 DEF TypeOK
<1>3. QueueInStep(e, u) /\ PeerInStep(e, u, tcb[p])
  BY DEF Sender
<1>4. QueueInStep(p, tcb[p]) /\ PeerInStep(p, tcb[p], tcb[e])
  BY <1>1 DEF CutInvariant
<1>5. HoldsAt(e)
  BY InvariantByEndpoint
<1> HIDE DEF p
<1>6. PeerInStep(p, tcb[p], u)
  BY <1>1, <1>4, <1>5, QuietReceiver DEF HoldsAt
<1>7. ASSUME NEW f \in Endpoint
      PROVE  QueueInStep(f, tcb'[f]) /\ PeerInStep(f, tcb'[f], tcb'[peer(f)])
  <2>1. CASE f = e
    BY <1>2, <1>3, <2>1 DEF p
  <2>2. CASE f = p
    BY <1>1, <1>2, <1>4, <1>6, <2>2
  <2>3. QED
    BY <1>1, <2>1, <2>2
<1>8. QED
  BY <1>7 DEF CutInvariant

(* Receiving: e handles the datagram as a sender and as a receiver.        *)
LEMMA CutReceiveStep ==
    ASSUME TypeOK, DeliveryInvariant, CutInvariant, NEW e \in Endpoint,
           NEW seg \in tcb[peer(e)].socket, Receive(e, seg)
    PROVE  CutInvariant'
<1> DEFINE p == peer(e)
           t == tcb[e]
           q == tcb[p]
           u == handle_seg(t, seg)
           r == tcb'[p]
           got == Len(q.byte_output)
           sent == SentBy(p, q)
<1>1. /\ p \in Endpoint /\ p # e /\ peer(p) = e /\ \A f \in Endpoint : f = e \/ f = p
  BY PeerProperties DEF Endpoint, peer
<1>2. /\ Incoming(e, seg, got, sent)
      /\ sent <= Len(t.byte_output) + WINDOW_SIZE /\ t.state # "Closed"
      /\ t.state = "Listen" => seg.flags = {"SYN"}
      /\ Holds(e, u, handed[e], got, sent)
      /\ tcb'[e] = u /\ SameButOutput(q, r)
      /\ r.socket \subseteq q.socket /\ r.unacked_segs = q.unacked_segs
  BY ReceivePremises
<1>3. Holds(e, t, handed[e], got, sent) /\ Holds(p, q, handed[p], Len(t.byte_output), SentBy(e, t))
  BY <1>1, InvariantByEndpoint DEF HoldsAt
<1>4. Sender(e, t, q) /\ Sender(p, q, t)
  BY <1>1, SenderAt
<1> HIDE DEF u, r
<1>5. Sender(e, u, q)
  <2>1. t.state = "Estab" /\ "ACK" \in seg.flags =>
          \A x \in 0 .. got : seg.ack_num = At(e, x) => AtCut(e, t, x)
    BY <1>1, <1>3, <1>4, AckIsAtCut
  <2> HIDE DEF t, q, sent, p
  <2>2. QED
    BY <1>2, <1>3, <1>4, <2>1, HandleSegSender DEF u
<1>6. QueueInStep(e, u) /\ PeerInStep(e, u, r)
  <2>1. Quiet(p, q, r)
    BY <1>2, QuietFields DEF SameButOutput
  <2>2. PeerInStep(e, u, q) /\ QueueInStep(e, u)
    BY <1>5 DEF Sender
  <2>3. QED
    BY <1>3, <2>1, <2>2, QuietReceiver
<1>7. PeerInStep(p, q, u)
  <2>1. QueueInStep(p, q) /\ PeerInStep(p, q, t)
    BY <1>4 DEF Sender
  <2>2. Holds(p, q, handed[p], Len(t.byte_output), SentBy(e, t))
    BY <1>3
  <2>3. Holds(peer(p), t, handed[e], Len(q.byte_output), SentBy(p, q)) /\ seg \in q.socket
    BY <1>1, <1>3
  <2> HIDE DEF t, q, p
  <2>4. QED
    BY <1>1, <1>2, <2>1, <2>2, <2>3, HandleSegReceiver DEF u
<1>8. Sender(p, r, u)
  <2>1. Sender(p, q, u)
    <3>1. WellTyped(u) /\ \A i \in Slot : u.recv_window[i] # None =>
                             Len(u.byte_output) + i + 1 <= SentBy(p, q)
      BY <1>2 DEF Holds, InStep, ReceiveSide, HoldsStream
    <3>2. QED
      BY <1>4, <1>7, <3>1 DEF Sender
  <2>2. \A x \in r.socket : x \in q.socket
    BY <1>2
  <2> HIDE DEF q, p
  <2>3. QED
    BY <1>2, <2>1, <2>2, SameQueueSender DEF SameButOutput
<1>9. ASSUME NEW f \in Endpoint
      PROVE  QueueInStep(f, tcb'[f]) /\ PeerInStep(f, tcb'[f], tcb'[peer(f)])
  <2>1. CASE f = e
    BY <1>2, <1>6, <2>1 DEF r
  <2>2. CASE f = p
    BY <1>1, <1>2, <1>8, <2>2 DEF r, Sender
  <2>3. QED
    BY <1>1, <2>1, <2>2
<1>10. QED
  BY <1>9 DEF CutInvariant

LEMMA CutInit == Init => CutInvariant
<1> SUFFICES ASSUME Init, NEW e \in Endpoint
             PROVE  QueueInStep(e, tcb[e]) /\ PeerInStep(e, tcb[e], tcb[peer(e)])
  BY DEF CutInvariant
<1>1. tcb[e] = new(InitialSeq[e])
  BY DEF Init
<1>2. /\ tcb[e].state = "Listen" /\ tcb[e].seq_base = InitialSeq[e]
      /\ tcb[e].unacked_segs = << >>
  BY <1>1 DEF new
<1>3. OnlySyn(e, tcb[e])
  BY <1>2, EmptySeq DEF OnlySyn
<1>4. QED
  BY <1>2, <1>3 DEF QueueInStep, PeerInStep

LEMMA CutStep ==
    TypeOK /\ DeliveryInvariant /\ CutInvariant /\ [Next]_vars => CutInvariant'
<1> SUFFICES ASSUME TypeOK, DeliveryInvariant, CutInvariant, [Next]_vars PROVE CutInvariant'
  OBVIOUS
<1>1. /\ \A e \in Endpoint : WellTyped(tcb[e])
      /\ handed \in [Endpoint -> Nat]
  BY TypeOKByEndpoint
<1>2. \A e \in Endpoint :
         Holds(e, tcb[e], handed[e], Len(tcb[peer(e)].byte_output), SentBy(peer(e), tcb[peer(e)]))
  BY InvariantByEndpoint DEF HoldsAt
<1>3. \A e \in Endpoint : Sender(e, tcb[e], tcb[peer(e)])
  BY SenderAt
<1>4. CASE SendSyn
  <2> DEFINE e == Client
             t == tcb[e]
             w == tcb[peer(e)]
             u == send_syn(t)
  <2>1. e \in Endpoint /\ t.state = "Listen" /\ tcb' = [tcb EXCEPT ![e] = u]
    BY <1>4 DEF SendSyn, Endpoint
  <2>2. /\ Holds(e, t, handed[e], Len(w.byte_output), SentBy(peer(e), w))
        /\ Sender(e, t, w) /\ WellTyped(t)
    BY <1>1, <1>2, <1>3, <2>1
  <2>3. t.seq_base = InitialSeq[e]
    BY <2>1, <2>2 DEF Holds, InStep, Phase
  <2> HIDE DEF e
  <2>4. Sender(e, u, w)
    BY <2>1, <2>2, SendSynSender
  <2>5. Quiet(e, t, u)
    BY <2>1, <2>2, <2>3, SendSynQuiet
  <2>6. QED
    BY <2>1, <2>4, <2>5, CutOwnStep
<1>5. ASSUME NEW e \in Endpoint, Send(e) PROVE CutInvariant'
  <2> DEFINE t == tcb[e]
             w == tcb[peer(e)]
  <2>1. PICK n \in 1 .. min(MaxSend, Len(Stream[e]) - handed[e]) :
          tcb' = [tcb EXCEPT ![e] = send(@, SubSeq(Stream[e], handed[e] + 1, handed[e] + n))]
    BY <1>5 DEF Send
  <2>2. n \in Nat /\ handed[e] \in Nat /\ handed[e] + n <= Len(Stream[e])
    BY <1>1, <2>1, ConnectionAssumption, Numbers DEF min
  <2> DEFINE u == send(t, SubSeq(Stream[e], handed[e] + 1, handed[e] + n))
  <2>3. tcb' = [tcb EXCEPT ![e] = u]
    BY <2>1
  <2>4. /\ Holds(e, t, handed[e], Len(w.byte_output), SentBy(peer(e), w))
        /\ Sender(e, t, w)
    BY <1>2, <1>3
  <2>5. Sender(e, u, w)
    BY <2>2, <2>4, SendSender
  <2>6. Quiet(e, t, u)
    BY <2>2, <2>4, SendQuiet
  <2>7. QED
    BY <2>3, <2>5, <2>6, CutOwnStep
<1>6. ASSUME NEW e \in Endpoint, Close(e) PROVE CutInvariant'
  <2>1. tcb' = [tcb EXCEPT ![e] = send_close(tcb[e])]
    BY <1>6 DEF Close
  <2>2. Sender(e, send_close(tcb[e]), tcb[peer(e)]) /\ Quiet(e, tcb[e], send_close(tcb[e]))
    BY <1>1, <1>3, SendCloseSender, SendCloseQuiet
  <2>3. QED
    BY <2>1, <2>2, CutOwnStep
<1>7. ASSUME NEW e \in Endpoint, Timeout(e) PROVE CutInvariant'
  <2>1. tcb' = [tcb EXCEPT ![e] = handle_resend(tcb[e])]
    BY <1>7 DEF Timeout
  <2>2. /\ Sender(e, handle_resend(tcb[e]), tcb[peer(e)])
        /\ Quiet(e, tcb[e], handle_resend(tcb[e]))
    BY <1>1, <1>3, ResendSender, ResendQuiet
  <2>3. QED
    BY <2>1, <2>2, CutOwnStep
<1>8. ASSUME NEW e \in Endpoint, NEW seg \in tcb[e].socket, Lose(e, seg)
      PROVE  CutInvariant'
  <2> DEFINE t == tcb[e]
             w == tcb[peer(e)]
             u == [t EXCEPT !.socket = @ \ {seg}]
  <2>1. tcb' = [tcb EXCEPT ![e] = u]
    BY <1>8 DEF Lose
  <2>2. /\ u.state = t.state /\ u.seq_base = t.seq_base /\ u.send_window = t.send_window
        /\ u.unacked_segs = t.unacked_segs /\ u.byte_output = t.byte_output
        /\ u.recv_window = t.recv_window /\ u.socket = t.socket \ {seg}
    BY <1>1 DEF WellTyped, TCB
  <2>3. Sender(e, t, w)
    BY <1>3
  <2> HIDE DEF u
  <2>4. Sender(e, u, w)
    BY <2>2, <2>3, SameQueueSender
  <2>5. Quiet(e, t, u)
    BY <2>2, QuietFields
  <2>6. QED
    BY <2>1, <2>4, <2>5, CutOwnStep
<1>9. ASSUME NEW e \in Endpoint, NEW seg \in tcb[peer(e)].socket, Receive(e, seg)
      PROVE  CutInvariant'
  BY <1>9, CutReceiveStep
<1>10. CASE UNCHANGED vars
  BY <1>10 DEF vars, CutInvariant
<1>11. QED
  BY <1>4, <1>5, <1>6, <1>7, <1>8, <1>9, <1>10 DEF Next

(* Every stream is cut into segments once: in every reachable state the    *)
(* queue of an established end is its send window in consecutive pieces,   *)
(* and the other end holds and acknowledges whole pieces only (tcp.rs      *)
(* 141-154, 213-234).                                                      *)
THEOREM SegmentsAlwaysCutOnce == Spec => []CutInvariant
<1>1. Init => TypeOK /\ DeliveryInvariant /\ CutInvariant
  BY InitType, InitHolds, CutInit
<1>2. TypeOK /\ DeliveryInvariant /\ CutInvariant /\ [Next]_vars
        => (TypeOK /\ DeliveryInvariant /\ CutInvariant)'
  BY StepType, StepHolds, CutStep
<1>3. QED
  BY <1>1, <1>2, PTL DEF Spec

-----------------------------------------------------------------------------
(* What the invariant says of the window.                                  *)

(* A queue in consecutive pieces is the window in consecutive pieces: the  *)
(* distance of a segment from seq_base is its place in send_window.        *)
LEMMA WindowInPieces ==
    ASSUME NEW e \in Endpoint, NEW t, NEW given, NEW got, NEW sent,
           Holds(e, t, given, got, sent), Consecutive(e, t), t.seq_base # InitialSeq[e]
    PROVE  LET segs == t.unacked_segs
               From(k) == wrapping_sub(segs[k].seq_num, t.seq_base)
               To(k) == From(k) + Len(segs[k].payload)
           IN  /\ \A k \in DOMAIN segs :
                    /\ From(k) = IF k = 1 THEN 0 ELSE To(k - 1)
                    /\ segs[k].payload = SubSeq(t.send_window, From(k) + 1, To(k))
               /\ Len(t.send_window) = IF segs = << >> THEN 0 ELSE To(Len(segs))
<1> DEFINE q == t.unacked_segs
           n == Len(q)
           w == t.send_window
           lo == AckedBy(e, t)
           hi == SentBy(e, t)
           place(k) == Place(e, q[k])
           after(k) == After(e, q[k])
           From(k) == wrapping_sub(q[k].seq_num, t.seq_base)
           To(k) == From(k) + Len(q[k].payload)
<1>1. /\ lo \in Nat /\ hi \in Nat /\ hi = lo + Len(w) /\ Len(w) \in Nat /\ w \in Seq(Byte)
      /\ hi < SEQ_SPACE /\ hi <= Len(Stream[e]) /\ t.seq_base = At(e, lo)
      /\ q \in Seq(Segment) /\ n \in Nat
  <2>1. /\ lo \in Nat /\ hi \in Nat /\ hi = lo + Len(w) /\ hi <= given
        /\ given \in Nat /\ given <= Len(Stream[e])
    BY Positions
  <2>2. /\ w \in Seq(Byte) /\ Len(w) \in Nat /\ t.seq_base \in SeqNum
        /\ q \in Seq(Segment) /\ n \in Nat
    BY Fields DEF Holds
  <2>3. Len(Stream[e]) \in Nat /\ Len(Stream[e]) < SEQ_SPACE /\ SEQ_SPACE \in Nat
    BY Numbers
  <2>4. t.seq_base = At(e, lo)
    BY <2>2, AckedProperties
  <2> HIDE DEF q, n, w, lo, hi
  <2>5. hi <= Len(Stream[e]) /\ hi < SEQ_SPACE
    BY <2>1, <2>3
  <2>6. QED
    BY <2>1, <2>2, <2>4, <2>5
<1>2. \A k \in 1 .. n :
        /\ Sound(e, t, q[k]) /\ q[k].payload # << >>
        /\ place(k) \in Nat /\ after(k) \in Nat /\ lo <= place(k)
        /\ place(k) < after(k) /\ after(k) <= hi /\ q[k].seq_num = At(e, place(k))
  BY QueueOrder
<1>3. \A k \in 1 .. n : /\ Len(q[k].payload) = after(k) - place(k)
                        /\ q[k] = Data(e, place(k), after(k) - place(k))
  BY <1>2, PieceProperties
<1>4. /\ \A k \in 1 .. n : place(k) = IF k = 1 THEN lo ELSE after(k - 1)
      /\ hi = IF n = 0 THEN lo ELSE after(n)
  BY DEF Consecutive
<1>5. \A j \in 1 .. Len(w) : w[j] = Stream[e][lo + j]
  BY DEF Holds, InStep, SendSide
<1> HIDE DEF q, n, w, lo, hi, place, after
<1>6. ASSUME NEW k \in 1 .. n
      PROVE  From(k) = place(k) - lo /\ To(k) = after(k) - lo
  <2>1. /\ place(k) \in Nat /\ after(k) \in Nat /\ lo <= place(k)
        /\ place(k) < SEQ_SPACE /\ lo < SEQ_SPACE
    <3>1. /\ place(k) \in Nat /\ after(k) \in Nat /\ lo <= place(k)
          /\ place(k) < after(k) /\ after(k) <= hi
      BY <1>2
    <3>2. SEQ_SPACE \in Nat
      BY Numbers
    <3>3. QED
      BY <1>1, <3>1, <3>2
  <2>2. From(k) = wrapping_sub(At(e, place(k)), At(e, lo))
    BY <1>1, <1>2
  <2>3. wrapping_sub(At(e, place(k)), At(e, lo)) = wrapping_sub(place(k), lo)
    BY <1>1, <2>1, AtProperties
  <2>4. wrapping_sub(place(k), lo) = place(k) - lo
    BY <2>1 DEF wrapping_sub
  <2>5. From(k) = place(k) - lo
    BY <2>2, <2>3, <2>4
  <2>6. Len(q[k].payload) = after(k) - place(k)
    BY <1>3
  <2> HIDE DEF From
  <2>7. To(k) = after(k) - lo
    BY <1>1, <2>1, <2>5, <2>6
  <2>8. QED
    BY <2>5, <2>7
<1> HIDE DEF From, To
<1>7. ASSUME NEW k \in 1 .. n
      PROVE  From(k) = IF k = 1 THEN 0 ELSE To(k - 1)
  <2>1. From(k) = place(k) - lo
    BY <1>6
  <2>2. CASE k = 1
    BY <1>1, <1>4, <2>1, <2>2
  <2>3. CASE k # 1
    <3>1. k - 1 \in 1 .. n
      BY <1>1, <2>3
    <3>2. To(k - 1) = after(k - 1) - lo
      BY <1>6, <3>1
    <3>3. QED
      BY <1>4, <2>1, <2>3, <3>2
  <2>4. QED
    BY <2>2, <2>3
<1>8. ASSUME NEW k \in 1 .. n
      PROVE  q[k].payload = SubSeq(w, From(k) + 1, To(k))
  <2> DEFINE i == place(k)
             m == after(k) - place(k)
             s == SubSeq(w, From(k) + 1, To(k))
  <2>1. i \in Nat /\ m \in Nat /\ lo <= i /\ i + m <= hi /\ i + m <= Len(Stream[e])
    <3>1. /\ place(k) \in Nat /\ after(k) \in Nat /\ lo <= place(k)
          /\ place(k) < after(k) /\ after(k) <= hi
      BY <1>2
    <3>2. Len(Stream[e]) \in Nat
      BY Numbers
    <3>3. QED
      BY <1>1, <3>1, <3>2
  <2>2. From(k) = i - lo /\ To(k) = (i - lo) + m
    <3>1. From(k) = place(k) - lo /\ To(k) = after(k) - lo
      BY <1>6
    <3>2. place(k) \in Nat /\ after(k) \in Nat
      BY <1>2
    <3>3. QED
      BY <1>1, <3>1, <3>2
  <2>3. q[k] = Data(e, i, m)
    BY <1>3
  <2> HIDE DEF i, m
  <2>4. /\ q[k].payload \in Seq(Byte) /\ Len(q[k].payload) = m
        /\ \A j \in 1 .. m : q[k].payload[j] = Stream[e][i + j]
    BY <2>1, <2>3, DataProperties
  <2> DEFINE a == i - lo
  <2>5. a \in Nat /\ a + m <= Len(w) /\ lo + a = i
    BY <1>1, <2>1
  <2>6. \A j \in a + 1 .. a + m : w[j] \in Byte
    <3>1. \A j \in a + 1 .. a + m : j \in 1 .. Len(w)
      BY <1>1, <2>1, <2>5
    <3>2. QED
      BY <1>1, <3>1, ElementOfSeq
  <2>7. s = SubSeq(w, a + 1, a + m)
    BY <2>2
  <2> HIDE DEF a, s
  <2>8. a + 1 \in Int /\ a + m \in Int
    BY <2>1, <2>5
  <2>9. /\ s \in Seq(Byte)
        /\ Len(s) = IF a + 1 <= a + m THEN (a + m) - (a + 1) + 1 ELSE 0
        /\ \A j \in 1 .. (a + m) - (a + 1) + 1 : s[j] = w[(a + 1) + j - 1]
    BY <2>6, <2>7, <2>8, SubSeqProperties
  <2>10. Len(s) = m /\ \A j \in 1 .. m : s[j] = w[a + j]
    BY <2>1, <2>5, <2>9
  <2>11. \A j \in 1 .. m : s[j] = q[k].payload[j]
    <3> TAKE j \in 1 .. m
    <3>1. a + j \in 1 .. Len(w) /\ lo + (a + j) = i + j
      BY <1>1, <2>1, <2>5
    <3>2. QED
      BY <1>5, <2>4, <2>10, <3>1
  <2>12. s = q[k].payload
    BY <2>4, <2>9, <2>10, <2>11, SeqEqual
  <2>13. QED
    BY <2>12 DEF s
<1>9. Len(w) = IF q = << >> THEN 0 ELSE To(n)
  <2>1. CASE n = 0
    <3>1. q = << >>
      BY <1>1, <2>1, EmptySeq DEF n
    <3>2. QED
      BY <1>1, <1>4, <2>1, <3>1
  <2>2. CASE n # 0
    <3>1. q # << >> /\ n \in 1 .. n
      BY <1>1, <2>2, EmptySeq DEF n
    <3>2. To(n) = after(n) - lo
      BY <1>6, <3>1
    <3>3. QED
      BY <1>1, <1>4, <2>2, <3>1, <3>2
  <2>3. QED
    BY <2>1, <2>2
<1>10. DOMAIN q = 1 .. n
  BY <1>1 DEF n
<1>11. QED
  BY <1>7, <1>8, <1>9, <1>10 DEF q, n, w, From, To

(* In every reachable state the queue of an established end is its send    *)
(* window, cut into consecutive pieces from seq_base on: whatever is in    *)
(* flight can be sent again, the oldest first (tcp.rs 217-225, 303, 315).  *)
THEOREM UnackedAlwaysCoversWindow == Spec => []UnackedCoversWindow
<1>1. TypeOK /\ DeliveryInvariant /\ CutInvariant => UnackedCoversWindow
  <2> SUFFICES ASSUME TypeOK, DeliveryInvariant, CutInvariant,
                      NEW e \in Endpoint, tcb[e].state = "Estab"
               PROVE  LET t == tcb[e]
                          segs == t.unacked_segs
                          From(k) == wrapping_sub(segs[k].seq_num, t.seq_base)
                          To(k) == From(k) + Len(segs[k].payload)
                      IN  /\ \A k \in DOMAIN segs :
                               /\ From(k) = IF k = 1 THEN 0 ELSE To(k - 1)
                               /\ segs[k].payload = SubSeq(t.send_window, From(k) + 1, To(k))
                          /\ Len(t.send_window) = IF segs = << >> THEN 0 ELSE To(Len(segs))
    BY DEF UnackedCoversWindow
  <2>1. Holds(e, tcb[e], handed[e], Len(tcb[peer(e)].byte_output),
              SentBy(peer(e), tcb[peer(e)]))
    BY InvariantByEndpoint DEF HoldsAt
  <2>2. Consecutive(e, tcb[e])
    BY DEF CutInvariant, QueueInStep
  <2>3. tcb[e].seq_base # InitialSeq[e]
    BY <2>1 DEF Holds, InStep, Phase
  <2>4. QED
    BY <2>1, <2>2, <2>3, WindowInPieces
<1>2. QED
  BY <1>1, DeliveryInvariantHolds, SegmentsAlwaysCutOnce, PTL

=============================================================================
