----------------------------- MODULE TcbProofs ------------------------------
(***************************************************************************)
(* Facts about the operators of Tcb, for every window, payload size and    *)
(* sequence space: what the helpers return, and that each handler maps a   *)
(* well-typed TCB to a well-typed TCB.                                     *)
(***************************************************************************)
EXTENDS Tcb, SequenceTheorems, FiniteSetTheorems, TLAPS

-----------------------------------------------------------------------------
(* Natural numbers.                                                        *)

(* A set of natural numbers that is not empty has a least element: the     *)
(* operator Least, behind SegmentsFor and FilledPrefix, is well defined.   *)
LEMMA LeastProperties ==
    ASSUME NEW S \in SUBSET Nat, S # {}
    PROVE  Least(S) \in S /\ \A m \in S : Least(S) <= m
<1> DEFINE Below(n) == 0 .. (n - 1)
           T == {Below(n) : n \in S}
           R == StrictSubsetOrdering(Nat)
<1>1. T \subseteq FiniteSubsetsOf(Nat)
  <2>1. \A n \in S : Below(n) \in SUBSET Nat /\ IsFiniteSet(Below(n))
    BY FS_Interval
  <2>2. QED
    BY <2>1 DEF FiniteSubsetsOf
<1>2. PICK x \in T : \A y \in T : <<y, x>> \notin R
  <2>1. IsWellFoundedOn(R, FiniteSubsetsOf(Nat))
    BY FS_StrictSubsetOrderingWellFounded
  <2>2. T # {}
    OBVIOUS
  <2> HIDE DEF T, R
  <2>3. QED
    BY <1>1, <2>1, <2>2, WFMin
<1>3. PICK n \in S : x = Below(n)
  OBVIOUS
<1>4. ASSUME NEW m \in S PROVE n <= m
  <2>1. SUFFICES ASSUME m < n PROVE FALSE
    OBVIOUS
  <2>2. Below(m) \subseteq Below(n) /\ m \in Below(n) /\ m \notin Below(m)
    BY <2>1
  <2>3. <<Below(m), x>> \in R
    BY <1>3, <2>2 DEF StrictSubsetOrdering
  <2>4. QED
    BY <1>2, <2>3
<1>5. QED
  BY <1>4 DEF Least

-----------------------------------------------------------------------------
(* Wrapping arithmetic.                                                    *)

(* wrapping_add and wrapping_sub stay in the sequence space and undo each  *)
(* other: a distance is lost to the wrap-around never.                     *)
LEMMA WrappingType ==
    ASSUME NEW a \in SeqNum, NEW b \in SeqNum
    PROVE  /\ wrapping_add(a, b) \in SeqNum
           /\ wrapping_sub(a, b) \in SeqNum
           /\ wrapping_sub(wrapping_add(a, b), a) = b
           /\ wrapping_add(a, wrapping_sub(b, a)) = b
BY SeqSpaceAssumption DEF SeqNum, wrapping_add, wrapping_sub

(* in_wrapped_range tests a distance: with a range that starts at l and is *)
(* w long, a number is in it exactly if it is less than w past l, and the  *)
(* wrap-around makes no difference (utils.rs 35-37).                       *)
THEOREM RangeIsDistance ==
    ASSUME NEW l \in SeqNum, NEW w \in SeqNum, NEW num \in SeqNum
    PROVE  in_wrapped_range(l, wrapping_add(l, w), num) <=> wrapping_sub(num, l) < w
BY SeqSpaceAssumption DEF SeqNum, wrapping_add, wrapping_sub, in_wrapped_range

(* Steps along a stream add up, as long as they do not lap the space.      *)
LEMMA WrapAdd ==
    ASSUME NEW x \in SeqNum, NEW m \in Nat, NEW n \in Nat, m + n < SEQ_SPACE
    PROVE  /\ wrapping_add(x, m) \in SeqNum
           /\ wrapping_add(wrapping_add(x, m), n) = wrapping_add(x, m + n)
BY SeqSpaceAssumption DEF SeqNum, wrapping_add

(* The distance between two positions does not depend on where the stream  *)
(* starts.                                                                 *)
LEMMA WrapDistance ==
    ASSUME NEW x \in SeqNum, NEW m \in SeqNum, NEW n \in SeqNum
    PROVE  wrapping_sub(wrapping_add(x, m), wrapping_add(x, n)) = wrapping_sub(m, n)
BY SeqSpaceAssumption DEF SeqNum, wrapping_add, wrapping_sub

-----------------------------------------------------------------------------
(* Queues: drain and retain.                                               *)

(* drain(..n) takes the first n elements out and leaves the others.        *)
LEMMA DrainProperties ==
    ASSUME NEW T, NEW s \in Seq(T), NEW n \in 0 .. Len(s)
    PROVE  /\ Taken(s, n) \in Seq(T)
           /\ Len(Taken(s, n)) = n
           /\ \A i \in 1 .. n : Taken(s, n)[i] = s[i]
           /\ Dropped(s, n) \in Seq(T)
           /\ Len(Dropped(s, n)) = Len(s) - n
           /\ \A i \in 1 .. Len(s) - n : Dropped(s, n)[i] = s[n + i]
<1>1. Len(s) \in Nat /\ \A i \in 1 .. Len(s) : s[i] \in T
  BY LenProperties, ElementOfSeq
<1>2. /\ SubSeq(s, 1, n) \in Seq(T)
      /\ Len(SubSeq(s, 1, n)) = n
      /\ \A i \in 1 .. n : SubSeq(s, 1, n)[i] = s[i]
  BY <1>1, SubSeqProperties
<1>3. /\ SubSeq(s, n + 1, Len(s)) \in Seq(T)
      /\ Len(SubSeq(s, n + 1, Len(s))) = Len(s) - n
      /\ \A i \in 1 .. Len(s) - n : SubSeq(s, n + 1, Len(s))[i] = s[n + i]
  BY <1>1, SubSeqProperties
<1>4. QED
  BY <1>2, <1>3 DEF Taken, Dropped

(* In a finite set of naturals every rank is taken: the k-th element that  *)
(* retain_unacked chooses exists.                                          *)
LEMMA RankExists ==
    ASSUME NEW N \in Nat, NEW K, \A j \in K : j \in 1 .. N, NEW k \in 1 .. Cardinality(K)
    PROVE  \E i \in K : Cardinality({j \in K : j <= i}) = k
<1> DEFINE Upto(i) == {j \in K : j <= i}
           Reached == {i \in 0 .. N : k <= Cardinality(Upto(i))}
<1>1. /\ IsFiniteSet(K) /\ Cardinality(K) \in Nat
      /\ \A i \in Int : IsFiniteSet(Upto(i)) /\ Cardinality(Upto(i)) \in Nat
  <2>1. IsFiniteSet(K)
    <3>1. IsFiniteSet(1 .. N)
      BY FS_Interval
    <3>2. K \in SUBSET (1 .. N)
      OBVIOUS
    <3>3. QED
      BY <3>1, <3>2, FS_Subset
  <2>2. \A i \in Int : Upto(i) \in SUBSET K
    OBVIOUS
  <2>3. QED
    BY <2>1, <2>2, FS_Subset, FS_CardinalityType
<1>2. Upto(N) = K
  OBVIOUS
<1>3. PICK i \in 0 .. N : /\ k <= Cardinality(Upto(i))
                          /\ \A m \in 0 .. N : k <= Cardinality(Upto(m)) => i <= m
  <2> HIDE DEF Upto
  <2>1. N \in Reached
    BY <1>1, <1>2
  <2>2. \A m \in Reached : m \in 0 .. N /\ k <= Cardinality(Upto(m))
    OBVIOUS
  <2>3. \A m \in 0 .. N : k <= Cardinality(Upto(m)) => m \in Reached
    OBVIOUS
  <2>4. Reached \in SUBSET Nat
    OBVIOUS
  <2> HIDE DEF Reached
  <2>5. Least(Reached) \in Reached /\ \A m \in Reached : Least(Reached) <= m
    BY <2>1, <2>4, LeastProperties
  <2>6. QED
    BY <2>2, <2>3, <2>5
<1>4. i # 0
  <2>1. Upto(0) = {}
    OBVIOUS
  <2>2. Cardinality(Upto(0)) = 0
    BY <2>1, FS_EmptySet
  <2>3. QED
    BY <1>3, <2>2
<1>5. Cardinality(Upto(i - 1)) < k
  <2> HIDE DEF Upto
  <2>1. i - 1 \in 0 .. N /\ ~ i <= i - 1
    BY <1>4
  <2>2. ~ k <= Cardinality(Upto(i - 1))
    BY <1>3, <2>1
  <2>3. QED
    BY <1>1, <2>1, <2>2
<1>6. CASE i \in K
  <2>1. Upto(i) = Upto(i - 1) \cup {i} /\ i \notin Upto(i - 1)
    <3>1. \A j \in K : j <= i <=> j <= i - 1 \/ j = i
      OBVIOUS
    <3>2. ~ i <= i - 1
      OBVIOUS
    <3>3. QED
      BY <1>6, <3>1, <3>2, Zenon
  <2>2. IsFiniteSet(Upto(i - 1)) /\ Cardinality(Upto(i - 1)) \in Nat
    BY <1>1
  <2> HIDE DEF Upto
  <2>3. Cardinality(Upto(i)) = Cardinality(Upto(i - 1)) + 1
    BY <2>1, <2>2, FS_AddElement
  <2>4. Cardinality(Upto(i)) = k
    BY <1>3, <1>5, <2>2, <2>3
  <2>5. QED
    BY <1>6, <2>4 DEF Upto
<1>7. CASE i \notin K
  <2>1. Upto(i) = Upto(i - 1)
    BY <1>7
  <2> HIDE DEF Upto
  <2>2. QED
    BY <1>1, <1>3, <1>5, <2>1
<1>8. QED
  BY <1>6, <1>7

(* retain keeps segments of the queue, each of them still unacknowledged.  *)
LEMMA RetainProperties ==
    ASSUME NEW T, NEW segs \in Seq(T), NEW ack
    PROVE  /\ retain_unacked(segs, ack) \in Seq(T)
           /\ \A k \in 1 .. Len(retain_unacked(segs, ack)) :
                \E i \in 1 .. Len(segs) :
                   /\ retain_unacked(segs, ack)[k] = segs[i]
                   /\ StillUnacked(ack, segs[i])
<1> DEFINE kept == {i \in DOMAIN segs : StillUnacked(ack, segs[i])}
           Rank(i) == Cardinality({j \in kept : j <= i})
           n == Cardinality(kept)
           pick(k) == CHOOSE i \in kept : Rank(i) = k
           res == [k \in 1 .. n |-> segs[pick(k)]]
<1>1. Len(segs) \in Nat /\ DOMAIN segs = 1 .. Len(segs)
  BY LenProperties
<1>2. \A i \in kept : i \in 1 .. Len(segs) /\ StillUnacked(ack, segs[i]) /\ segs[i] \in T
  BY <1>1, ElementOfSeq
<1>3. n \in Nat
  <2>1. kept \in SUBSET (1 .. Len(segs))
    BY <1>1
  <2>2. IsFiniteSet(1 .. Len(segs))
    BY <1>1, FS_Interval
  <2> HIDE DEF kept
  <2>3. IsFiniteSet(kept)
    BY <2>1, <2>2, FS_Subset
  <2>4. QED
    BY <2>3, FS_CardinalityType
<1>4. \A k \in 1 .. n : pick(k) \in kept
  <2> HIDE DEF kept
  <2>1. \A k \in 1 .. n : \E i \in kept : Rank(i) = k
    BY <1>1, <1>2, RankExists
  <2>2. QED
    BY <2>1
<1>5. retain_unacked(segs, ack) = res
  BY DEF retain_unacked
<1> HIDE DEF kept, pick, n
<1>6. \A k \in 1 .. n : segs[pick(k)] \in T
  BY <1>2, <1>4
<1>7. res \in Seq(T) /\ Len(res) = n
  BY <1>3, <1>6, IsASeq, LenProperties
<1>8. \A k \in 1 .. n : \E i \in 1 .. Len(segs) : res[k] = segs[i] /\ StillUnacked(ack, segs[i])
  BY <1>2, <1>4
<1>9. QED
  BY <1>5, <1>7, <1>8

(* When the segments still unacknowledged are the ones after the first c,  *)
(* retain leaves just these, in their order.                               *)
LEMMA RetainSuffix ==
    ASSUME NEW T, NEW segs \in Seq(T), NEW ack, NEW c \in 0 .. Len(segs),
           \A i \in 1 .. Len(segs) : StillUnacked(ack, segs[i]) <=> c < i
    PROVE  /\ retain_unacked(segs, ack) \in Seq(T)
           /\ Len(retain_unacked(segs, ack)) = Len(segs) - c
           /\ \A k \in 1 .. Len(segs) - c : retain_unacked(segs, ack)[k] = segs[c + k]
<1> DEFINE len == Len(segs)
           kept == {i \in DOMAIN segs : StillUnacked(ack, segs[i])}
           Rank(i) == Cardinality({j \in kept : j <= i})
           pick(k) == CHOOSE i \in kept : Rank(i) = k
           res == [k \in 1 .. Cardinality(kept) |-> segs[pick(k)]]
<1>1. len \in Nat /\ DOMAIN segs = 1 .. len /\ c \in Nat /\ c <= len
  BY LenProperties
<1>2. retain_unacked(segs, ack) = res
  BY DEF retain_unacked
<1>3. kept = c + 1 .. len
  <2>1. \A i \in 1 .. len : i \in kept <=> c < i
    BY <1>1
  <2>2. \A i : i \in kept => i \in 1 .. len
    BY <1>1
  <2> HIDE DEF kept, len
  <2>3. \A i \in 1 .. len : c < i <=> i \in c + 1 .. len
    BY <1>1
  <2>4. \A i : i \in c + 1 .. len => i \in 1 .. len
    BY <1>1
  <2>5. \A i : i \in kept <=> i \in c + 1 .. len
    BY <2>1, <2>2, <2>3, <2>4
  <2>6. QED
    BY <2>5
<1> HIDE DEF kept, len
<1>4. Cardinality(kept) = len - c
  <2>1. Cardinality(c + 1 .. len) = IF c + 1 > len THEN 0 ELSE len - (c + 1) + 1
    BY <1>1, FS_Interval
  <2>2. QED
    BY <1>1, <1>3, <2>1
<1>5. \A i \in kept : Rank(i) = i - c
  <2> TAKE i \in kept
  <2>1. i \in c + 1 .. len /\ {j \in kept : j <= i} = c + 1 .. i
    BY <1>1, <1>3
  <2>2. Cardinality(c + 1 .. i) = IF c + 1 > i THEN 0 ELSE i - (c + 1) + 1
    BY <1>1, <2>1, FS_Interval
  <2>3. ~ c + 1 > i /\ i - (c + 1) + 1 = i - c
    BY <1>1, <2>1
  <2>4. Cardinality(c + 1 .. i) = i - c
    BY <2>2, <2>3
  <2>5. QED
    BY <2>1, <2>4
<1> HIDE DEF Rank
<1>6. \A k \in 1 .. len - c : pick(k) = c + k
  <2> TAKE k \in 1 .. len - c
  <2>1. c + k \in kept /\ (c + k) - c = k
    BY <1>1, <1>3
  <2>2. Rank(c + k) = k
    BY <1>5, <2>1
  <2>3. pick(k) \in kept /\ Rank(pick(k)) = k
    BY <2>1, <2>2
  <2> HIDE DEF pick
  <2>4. pick(k) - c = k /\ pick(k) \in c + 1 .. len
    BY <1>3, <1>5, <2>3
  <2>5. QED
    BY <1>1, <2>4
<1> HIDE DEF pick
<1>7. \A k \in 1 .. len - c : segs[pick(k)] \in T /\ segs[pick(k)] = segs[c + k]
  <2> TAKE k \in 1 .. len - c
  <2>1. c + k \in 1 .. len /\ pick(k) = c + k
    BY <1>1, <1>6
  <2>2. c + k \in 1 .. Len(segs)
    BY <2>1 DEF len
  <2>3. segs[c + k] \in T
    BY <2>2, ElementOfSeq
  <2>4. QED
    BY <2>1, <2>3
<1>8. res \in Seq(T) /\ Len(res) = len - c
  <2>1. len - c \in Nat
    BY <1>1
  <2>2. res = [k \in 1 .. len - c |-> segs[pick(k)]]
    BY <1>4
  <2> HIDE DEF res
  <2>3. res \in Seq(T)
    BY <1>7, <2>1, <2>2, IsASeq
  <2>4. QED
    BY <2>1, <2>2, <2>3, LenProperties
<1>9. \A k \in 1 .. len - c : res[k] = segs[c + k]
  BY <1>4, <1>7
<1>10. QED
  BY <1>2, <1>8, <1>9 DEF len

-----------------------------------------------------------------------------
(* Counting.                                                               *)

(* send_data cuts a buffer into as many segments as it needs and no more:  *)
(* together they hold it all, and none starts beyond its end.              *)
LEMMA SegmentsForProperties ==
    ASSUME NEW size \in Nat
    PROVE  /\ SegmentsFor(size) \in 0 .. size
           /\ SegmentsFor(size) * MAX_PAYLOAD_SIZE >= size
           /\ \A k \in 1 .. SegmentsFor(size) : (k - 1) * MAX_PAYLOAD_SIZE < size
<1> DEFINE enough == {k \in 0 .. size : k * MAX_PAYLOAD_SIZE >= size}
<1>1. size * MAX_PAYLOAD_SIZE >= size
  <2>1. size * MAX_PAYLOAD_SIZE = size + size * (MAX_PAYLOAD_SIZE - 1)
    BY WindowAssumption
  <2>2. size * (MAX_PAYLOAD_SIZE - 1) \in Nat
    BY WindowAssumption
  <2>3. QED
    BY <2>1, <2>2
<1>2. \A k \in enough : k \in 0 .. size /\ k * MAX_PAYLOAD_SIZE >= size
  OBVIOUS
<1>3. \A k \in 0 .. size : k * MAX_PAYLOAD_SIZE >= size => k \in enough
  OBVIOUS
<1>4. SegmentsFor(size) = Least(enough)
  BY DEF SegmentsFor
<1>5. enough \in SUBSET Nat /\ enough # {}
  BY <1>1
<1> HIDE DEF enough
<1>6. SegmentsFor(size) \in enough /\ \A k \in enough : SegmentsFor(size) <= k
  BY <1>4, <1>5, LeastProperties
<1>7. ASSUME NEW k \in 1 .. SegmentsFor(size)
      PROVE  (k - 1) * MAX_PAYLOAD_SIZE < size
  <2>1. k - 1 \in 0 .. size /\ ~ SegmentsFor(size) <= k - 1
    BY <1>2, <1>6
  <2>2. ~ (k - 1) * MAX_PAYLOAD_SIZE >= size
    BY <1>3, <1>6, <2>1
  <2>3. (k - 1) * MAX_PAYLOAD_SIZE \in Int
    BY WindowAssumption
  <2>4. QED
    BY <2>2, <2>3
<1>8. QED
  BY <1>2, <1>6, <1>7

(* The loop of handle_payload stops at the first empty slot, if there is   *)
(* one, and every slot before it is filled.                                *)
LEMMA FilledPrefixProperties ==
    ASSUME NEW window
    PROVE  /\ FilledPrefix(window) \in 0 .. WINDOW_SIZE
           /\ \A i \in 0 .. FilledPrefix(window) - 1 : window[i] # None
           /\ FilledPrefix(window) = WINDOW_SIZE \/ window[FilledPrefix(window)] = None
<1> DEFINE stops == {n \in 0 .. WINDOW_SIZE : n = WINDOW_SIZE \/ window[n] = None}
<1>1. \A n \in stops : n \in 0 .. WINDOW_SIZE /\ (n = WINDOW_SIZE \/ window[n] = None)
  OBVIOUS
<1>2. \A n \in 0 .. WINDOW_SIZE : n = WINDOW_SIZE \/ window[n] = None => n \in stops
  OBVIOUS
<1>3. FilledPrefix(window) = Least(stops)
  BY DEF FilledPrefix
<1>4. stops \in SUBSET Nat /\ stops # {}
  BY WindowAssumption
<1> HIDE DEF stops
<1>5. FilledPrefix(window) \in stops /\ \A n \in stops : FilledPrefix(window) <= n
  BY <1>3, <1>4, LeastProperties
<1>6. ASSUME NEW i \in 0 .. FilledPrefix(window) - 1 PROVE window[i] # None
  <2>1. i \in 0 .. WINDOW_SIZE /\ ~ FilledPrefix(window) <= i
    BY <1>1, <1>5, WindowAssumption
  <2>2. QED
    BY <1>2, <1>5, <2>1
<1>7. QED
  BY <1>1, <1>5, <1>6

-----------------------------------------------------------------------------
(* Types.                                                                  *)

(* What every handler preserves, and what handle_acks needs to subtract:   *)
(* the send window is never longer than WINDOW_SIZE.                       *)
WellTyped(t) ==
    /\ t \in TCB
    /\ Len(t.send_window) <= WINDOW_SIZE
    /\ t.dupe_acks < 3

LEMMA NewType ==
    ASSUME NEW isn \in SeqNum
    PROVE  WellTyped(new(isn))
<1>1. 1 \in SeqNum
  BY WindowAssumption, SeqSpaceAssumption DEF SeqNum
<1>2. << >> \in Seq(Byte) /\ << >> \in Seq(Segment) /\ Len(<< >>) = 0
  BY EmptySeq
<1>3. QED
  BY <1>1, <1>2, WindowAssumption DEF WellTyped, TCB, new, TCBState

LEMMA MakeSegType ==
    /\ make_seg \in Segment
    /\ \A seq, ack \in SeqNum, flags \in SUBSET Flag, payload \in Seq(Byte) :
         [seq_num |-> seq, ack_num |-> ack, flags |-> flags, payload |-> payload] \in Segment
<1>1. 0 \in SeqNum
  BY SeqSpaceAssumption DEF SeqNum
<1>2. << >> \in Seq(Byte)
  BY EmptySeq
<1>3. QED
  BY <1>1, <1>2 DEF make_seg, Segment

LEMMA ResendSegType ==
    ASSUME NEW t, WellTyped(t), NEW seg \in Segment
    PROVE  WellTyped(resend_seg(t, seg)) /\ WellTyped(send_ack(t, seg))
BY DEF WellTyped, TCB, resend_seg, send_ack

LEMMA SendSegType ==
    ASSUME NEW t, WellTyped(t), NEW seg \in Segment
    PROVE  WellTyped(send_seg(t, seg))
<1> DEFINE queue == Append(t.unacked_segs, seg)
<1>1. queue \in Seq(Segment)
  BY AppendProperties DEF WellTyped, TCB
<1>2. send_seg(t, seg) = [t EXCEPT !.socket = @ \cup {seg}, !.unacked_segs = queue]
  BY DEF WellTyped, TCB, send_seg, resend_seg
<1> HIDE DEF queue
<1>3. t.socket \cup {seg} \in SUBSET Segment
  BY DEF WellTyped, TCB
<1>4. QED
  BY <1>1, <1>2, <1>3 DEF WellTyped, TCB

LEMMA HandleResendType ==
    ASSUME NEW t, WellTyped(t)
    PROVE  WellTyped(handle_resend(t))
<1>1. t.unacked_segs # << >> => Head(t.unacked_segs) \in Segment
  BY HeadTailProperties DEF WellTyped, TCB
<1>2. QED
  BY <1>1, ResendSegType DEF handle_resend

LEMMA SendSynType ==
    ASSUME NEW t, WellTyped(t)
    PROVE  WellTyped(send_syn(t))
<1> DEFINE syn == [make_seg EXCEPT !.flags = {"SYN"}, !.seq_num = t.seq_base]
<1>1. syn \in Segment
  BY MakeSegType DEF WellTyped, TCB, Segment, Flag
<1> HIDE DEF syn
<1>2. WellTyped(send_seg(t, syn))
  BY <1>1, SendSegType
<1>3. send_syn(t) = [send_seg(t, syn) EXCEPT !.state = "SynSent"]
  BY DEF send_syn, syn
<1>4. QED
  BY <1>2, <1>3 DEF WellTyped, TCB, TCBState

LEMMA SendCloseType ==
    ASSUME NEW t, WellTyped(t)
    PROVE  WellTyped(send_close(t))
<1> DEFINE fin == [make_seg EXCEPT !.flags = {"FIN"}, !.seq_num = t.seq_base]
<1>1. fin \in Segment
  BY MakeSegType DEF WellTyped, TCB, Segment, Flag
<1> HIDE DEF fin
<1>2. WellTyped(send_seg(t, fin))
  BY <1>1, SendSegType
<1>3. send_close(t) = [send_seg(t, fin) EXCEPT !.state = "Closed"]
  BY DEF send_close, fin
<1>4. QED
  BY <1>2, <1>3 DEF WellTyped, TCB, TCBState

(* The segments of send_data start inside the data, so that their numbers  *)
(* stay in the sequence space as long as the data is within the window.    *)
LEMMA SendDataType ==
    ASSUME NEW t, WellTyped(t), NEW data \in Seq(Byte), Len(data) <= WINDOW_SIZE,
           NEW next_seq \in SeqNum
    PROVE  WellTyped(send_data(t, data, next_seq))
<1> DEFINE n == SegmentsFor(Len(data))
           sent(k) == (k - 1) * MAX_PAYLOAD_SIZE
           upto(k) == min(sent(k) + MAX_PAYLOAD_SIZE, Len(data))
           payload(k) == SubSeq(data, sent(k) + 1, upto(k))
           seg(k) == [make_seg EXCEPT !.seq_num = wrapping_add(next_seq, sent(k)),
                                      !.payload = payload(k)]
           segs == [k \in 1 .. n |-> seg(k)]
           queue == t.unacked_segs \o segs
<1>1. Len(data) \in Nat /\ n \in Nat
  BY LenProperties, SegmentsForProperties
<1>2. \A k \in 1 .. n : sent(k) \in 0 .. Len(data) - 1 /\ upto(k) \in 0 .. Len(data)
  <2> TAKE k \in 1 .. n
  <2>1. sent(k) \in Nat
    BY <1>1, WindowAssumption
  <2>2. sent(k) < Len(data)
    BY <1>1, SegmentsForProperties
  <2> HIDE DEF sent
  <2>3. QED
    BY <1>1, <2>1, <2>2, WindowAssumption DEF min
<1>3. \A k \in 1 .. n : seg(k) \in Segment
  <2> TAKE k \in 1 .. n
  <2> HIDE DEF n, sent, upto
  <2>1. payload(k) \in Seq(Byte)
    <3>1. sent(k) + 1 \in 1 .. Len(data) + 1 /\ upto(k) \in sent(k) .. Len(data)
      BY <1>1, <1>2, WindowAssumption DEF upto, min
    <3>2. \A i \in sent(k) + 1 .. upto(k) : data[i] \in Byte
      BY <1>1, <1>2, ElementOfSeq
    <3>3. QED
      BY <1>1, <1>2, <3>1, <3>2, SubSeqProperties
  <2>2. wrapping_add(next_seq, sent(k)) \in SeqNum
    <3>1. sent(k) \in SeqNum
      BY <1>1, <1>2, WindowAssumption, SeqSpaceAssumption DEF SeqNum
    <3>2. QED
      BY <3>1, WrappingType
  <2> HIDE DEF payload
  <2>3. QED
    BY <2>1, <2>2, MakeSegType DEF Segment
<1> HIDE DEF n, seg
<1>4. segs \in Seq(Segment) /\ DOMAIN segs = 1 .. n
  BY <1>1, <1>3, IsASeq
<1>5. queue \in Seq(Segment)
  BY <1>4, ConcatProperties DEF WellTyped, TCB
<1>6. {segs[k] : k \in DOMAIN segs} \subseteq Segment
  BY <1>3, <1>4
<1>7. send_data(t, data, next_seq) =
        [t EXCEPT !.socket = @ \cup {segs[k] : k \in DOMAIN segs}, !.unacked_segs = queue]
  BY DEF send_data, n, seg
<1> HIDE DEF segs, queue
<1>8. QED
  BY <1>5, <1>6, <1>7, ZenonT(40) DEF WellTyped, TCB

(* What is taken from the buffer fits in the window, so the window is      *)
(* never longer than WINDOW_SIZE.                                          *)
LEMMA FillProperties ==
    ASSUME NEW t, WellTyped(t)
    PROVE  LET amt == send_amt(t)
               data == Taken(t.send_buffer, amt)
               window == t.send_window \o data
               buffer == Dropped(t.send_buffer, amt)
           IN  /\ amt \in 0 .. Len(t.send_buffer)
               /\ data \in Seq(Byte) /\ Len(data) = amt /\ amt <= WINDOW_SIZE
               /\ window \in Seq(Byte) /\ Len(window) = Len(t.send_window) + amt
               /\ buffer \in Seq(Byte) /\ Len(buffer) = Len(t.send_buffer) - amt
               /\ WellTyped([t EXCEPT !.send_window = window, !.send_buffer = buffer])
<1> DEFINE amt == send_amt(t)
           data == Taken(t.send_buffer, amt)
           window == t.send_window \o data
           buffer == Dropped(t.send_buffer, amt)
<1>1. /\ t.send_buffer \in Seq(Byte) /\ t.send_window \in Seq(Byte)
      /\ Len(t.send_buffer) \in Nat /\ Len(t.send_window) \in 0 .. WINDOW_SIZE
  BY LenProperties, WindowAssumption DEF WellTyped, TCB
<1>2. amt \in 0 .. Len(t.send_buffer) /\ amt <= WINDOW_SIZE - Len(t.send_window)
  <2>1. \A n \in Nat, m \in 0 .. WINDOW_SIZE :
          min(n, WINDOW_SIZE - m) \in 0 .. n /\ min(n, WINDOW_SIZE - m) <= WINDOW_SIZE - m
    BY WindowAssumption DEF min
  <2>2. QED
    BY <1>1, <2>1 DEF send_amt
<1> HIDE DEF amt
<1>3. /\ data \in Seq(Byte) /\ Len(data) = amt
      /\ buffer \in Seq(Byte) /\ Len(buffer) = Len(t.send_buffer) - amt
  BY <1>1, <1>2, DrainProperties
<1> HIDE DEF data, buffer
<1>4. window \in Seq(Byte) /\ Len(window) = Len(t.send_window) + amt
  BY <1>1, <1>3, ConcatProperties
<1>5. Len(window) <= WINDOW_SIZE /\ amt <= WINDOW_SIZE
  BY <1>1, <1>2, <1>4, WindowAssumption
<1> HIDE DEF window
<1>6. WellTyped([t EXCEPT !.send_window = window, !.send_buffer = buffer])
  BY <1>3, <1>4, <1>5 DEF WellTyped, TCB
<1>7. QED
  BY <1>2, <1>3, <1>4, <1>5, <1>6 DEF amt, data, window, buffer

LEMMA FillSendWindowType ==
    ASSUME NEW t, WellTyped(t)
    PROVE  WellTyped(fill_send_window(t))
<1> DEFINE amt == send_amt(t)
           data == Taken(t.send_buffer, amt)
           filled == [t EXCEPT !.send_window = t.send_window \o data,
                               !.send_buffer = Dropped(t.send_buffer, amt)]
           next_seq == wrapping_add(t.seq_base, Len(t.send_window))
<1>1. WellTyped(filled) /\ data \in Seq(Byte) /\ Len(data) <= WINDOW_SIZE
  BY FillProperties
<1>2. next_seq \in SeqNum
  <2>1. Len(t.send_window) \in SeqNum
    BY LenProperties, WindowAssumption, SeqSpaceAssumption DEF SeqNum, WellTyped, TCB
  <2>2. QED
    BY <2>1, WrappingType DEF WellTyped, TCB
<1>3. fill_send_window(t) = IF t.state # "Estab" THEN t
                            ELSE send_data(filled, data, next_seq)
  BY DEF fill_send_window
<1> HIDE DEF filled, data, next_seq
<1>4. WellTyped(send_data(filled, data, next_seq))
  BY <1>1, <1>2, SendDataType
<1>5. QED
  BY <1>3, <1>4

LEMMA SendType ==
    ASSUME NEW t, WellTyped(t), NEW data \in Seq(Byte)
    PROVE  WellTyped(send(t, data))
<1> DEFINE buffer == t.send_buffer \o data
<1>1. buffer \in Seq(Byte)
  BY ConcatProperties DEF WellTyped, TCB
<1> HIDE DEF buffer
<1>2. WellTyped([t EXCEPT !.send_buffer = buffer])
  BY <1>1 DEF WellTyped, TCB
<1>3. QED
  BY <1>2, FillSendWindowType DEF send, buffer

LEMMA AcceptAckType ==
    ASSUME NEW t, WellTyped(t), NEW seg \in Segment
    PROVE  WellTyped(accept_ack(t, seg))
<1> DEFINE num == wrapping_sub(seg.ack_num, t.seq_base)
           queue == retain_unacked(t.unacked_segs, seg.ack_num)
           acked == [t EXCEPT !.unacked_segs = queue, !.seq_base = seg.ack_num]
           drained == [acked EXCEPT !.send_window = Dropped(@, num)]
<1>1. queue \in Seq(Segment)
  BY RetainProperties DEF WellTyped, TCB
<1> HIDE DEF queue
<1>2. WellTyped(acked) /\ acked.send_window = t.send_window
  BY <1>1 DEF WellTyped, TCB, Segment
<1>3. WellTyped([acked EXCEPT !.state = "Panicked"])
  BY <1>2 DEF WellTyped, TCB
<1>4. num \in Nat /\ t.send_window \in Seq(Byte) /\ Len(t.send_window) \in Nat
  <2>1. seg.ack_num \in SeqNum /\ t.seq_base \in SeqNum /\ t.send_window \in Seq(Byte)
    BY DEF WellTyped, TCB, Segment
  <2>2. num \in SeqNum
    BY <2>1, WrappingType
  <2> HIDE DEF num
  <2>3. QED
    BY <2>1, <2>2, LenProperties, SeqSpaceAssumption DEF SeqNum
<1> HIDE DEF acked, num
<1>5. ASSUME ~ num > Len(t.send_window)
      PROVE  WellTyped(fill_send_window(drained))
  <2>1. /\ Dropped(t.send_window, num) \in Seq(Byte)
        /\ Len(Dropped(t.send_window, num)) <= Len(t.send_window)
    <3>1. num \in 0 .. Len(t.send_window)
      BY <1>4, <1>5
    <3>2. /\ Dropped(t.send_window, num) \in Seq(Byte)
          /\ Len(Dropped(t.send_window, num)) = Len(t.send_window) - num
      BY <1>4, <3>1, DrainProperties
    <3>3. QED
      BY <1>4, <3>1, <3>2
  <2>2. drained = [acked EXCEPT !.send_window = Dropped(t.send_window, num)]
    BY <1>2 DEF WellTyped, TCB
  <2>3. drained \in TCB
    BY <1>2, <2>1, <2>2 DEF WellTyped, TCB
  <2>4. /\ drained.send_window = Dropped(t.send_window, num)
        /\ drained.dupe_acks = acked.dupe_acks
    BY <1>2, <2>2 DEF WellTyped, TCB
  <2>5. Len(Dropped(t.send_window, num)) <= WINDOW_SIZE
    <3>1. Len(Dropped(t.send_window, num)) \in Nat
      BY <2>1, LenProperties
    <3>2. QED
      BY <1>4, <2>1, <3>1, WindowAssumption DEF WellTyped
  <2>6. WellTyped(drained)
    BY <1>2, <2>3, <2>4, <2>5 DEF WellTyped
  <2>7. QED
    BY <2>6, FillSendWindowType
<1>6. accept_ack(t, seg) =
        CASE ~ new_ack(t, seg) -> t
          [] new_ack(t, seg) /\ t.state # "Estab" -> acked
          [] new_ack(t, seg) /\ t.state = "Estab" /\ num > Len(t.send_window) ->
               [acked EXCEPT !.state = "Panicked"]
          [] OTHER -> fill_send_window(drained)
  BY DEF accept_ack, acked, num, queue
<1> HIDE DEF drained
<1>7. QED
  BY <1>2, <1>3, <1>5, <1>6

LEMMA CountDupeAckType ==
    ASSUME NEW t, WellTyped(t), NEW seg \in Segment
    PROVE  WellTyped(count_dupe_ack(t, seg))
<1>1. ASSUME NEW u, WellTyped(u), NEW n \in 0 .. 2
      PROVE  WellTyped([u EXCEPT !.dupe_acks = n])
  <2>1. n \in Nat /\ n < 3
    OBVIOUS
  <2>2. [u EXCEPT !.dupe_acks = n] \in TCB
    BY <1>1, <2>1 DEF WellTyped, TCB
  <2>3. /\ [u EXCEPT !.dupe_acks = n].send_window = u.send_window
        /\ [u EXCEPT !.dupe_acks = n].dupe_acks = n
    BY <1>1 DEF WellTyped, TCB
  <2>4. QED
    BY <1>1, <2>1, <2>2, <2>3 DEF WellTyped
<1>2. WellTyped([handle_resend(t) EXCEPT !.dupe_acks = 0])
  <2>1. WellTyped(handle_resend(t)) /\ 0 \in 0 .. 2
    BY HandleResendType
  <2>2. QED
    BY <1>1, <2>1, Zenon
<1>3. ASSUME ~ t.dupe_acks + 1 >= 3
      PROVE  WellTyped([t EXCEPT !.dupe_acks = @ + 1])
  <2>1. t.dupe_acks \in Nat
    BY DEF WellTyped, TCB
  <2>2. t.dupe_acks + 1 \in 0 .. 2
    BY <1>3, <2>1
  <2>3. QED
    BY <1>1, <2>2
<1>4. QED
  BY <1>2, <1>3 DEF count_dupe_ack

LEMMA HandleAcksType ==
    ASSUME NEW t, WellTyped(t), NEW seg \in Segment
    PROVE  WellTyped(handle_acks(t, seg))
BY AcceptAckType, CountDupeAckType DEF handle_acks

LEMMA HandleShakeType ==
    ASSUME NEW t, WellTyped(t), NEW seg \in Segment
    PROVE  WellTyped(handle_shake(t, seg))
<1> DEFINE synack == [make_seg EXCEPT !.flags = {"SYN", "ACK"},
                                      !.seq_num = t.seq_base, !.ack_num = peer_next(seg)]
           ack == [make_seg EXCEPT !.flags = {"ACK"}, !.ack_num = peer_next(seg)]
           listened == [t EXCEPT !.state = "SynRecd", !.ack_base = peer_next(seg)]
           answered == [t EXCEPT !.state = "Estab", !.ack_base = peer_next(seg)]
           acked == [t EXCEPT !.state = "Estab"]
<1>1. peer_next(seg) \in SeqNum
  <2>1. seg.seq_num \in SeqNum /\ 1 \in SeqNum
    BY WindowAssumption, SeqSpaceAssumption DEF SeqNum, Segment
  <2>2. QED
    BY <2>1, WrappingType DEF peer_next
<1>2. synack \in Segment /\ ack \in Segment
  BY <1>1, MakeSegType DEF WellTyped, TCB, Segment, Flag
<1>3. WellTyped(listened) /\ WellTyped(answered) /\ WellTyped(acked)
  BY <1>1 DEF WellTyped, TCB, TCBState
<1>4. handle_shake(t, seg) =
        CASE t.state = "Listen" /\ "SYN" \in seg.flags -> send_seg(listened, synack)
          [] t.state = "SynSent" /\ {"SYN", "ACK"} \subseteq seg.flags ->
               fill_send_window(send_ack(answered, ack))
          [] t.state = "SynRecd" /\ "ACK" \in seg.flags -> fill_send_window(acked)
          [] OTHER -> t
  BY DEF handle_shake
<1> HIDE DEF synack, ack, listened, answered, acked
<1>5. WellTyped(send_seg(listened, synack))
  BY <1>2, <1>3, SendSegType
<1>6. WellTyped(fill_send_window(send_ack(answered, ack)))
  BY <1>2, <1>3, ResendSegType, FillSendWindowType
<1>7. WellTyped(fill_send_window(acked))
  BY <1>3, FillSendWindowType
<1>8. QED
  BY <1>4, <1>5, <1>6, <1>7

(* The loop of handle_payload sends bytes only, never an empty slot.       *)
LEMMA DeliverPrefixType ==
    ASSUME NEW t, WellTyped(t)
    PROVE  WellTyped(deliver_prefix(t))
<1> DEFINE n == FilledPrefix(t.recv_window)
           bytes == [i \in 1 .. n |-> t.recv_window[i - 1]]
           output == t.byte_output \o bytes
           window == slide(t.recv_window, n)
<1>1. n \in 0 .. WINDOW_SIZE /\ \A i \in 0 .. n - 1 : t.recv_window[i] # None
  BY FilledPrefixProperties
<1> HIDE DEF n
<1>2. bytes \in Seq(Byte)
  <2>1. ASSUME NEW i \in 1 .. n PROVE t.recv_window[i - 1] \in Byte
    <3>1. i - 1 \in 0 .. n - 1 /\ i - 1 \in Slot
      BY <1>1, WindowAssumption DEF Slot
    <3>2. QED
      BY <1>1, <3>1 DEF WellTyped, TCB
  <2>2. n \in Nat
    BY <1>1, WindowAssumption
  <2>3. QED
    BY <2>1, <2>2, IsASeq
<1>3. output \in Seq(Byte)
  BY <1>2, ConcatProperties DEF WellTyped, TCB
<1>4. window \in [Slot -> Byte \cup {None}]
  BY DEF WellTyped, TCB, slide
<1>5. wrapping_add(t.ack_base, n) \in SeqNum
  <2>1. n \in SeqNum
    BY <1>1, WindowAssumption, SeqSpaceAssumption DEF SeqNum
  <2>2. QED
    BY <2>1, WrappingType DEF WellTyped, TCB
<1>6. deliver_prefix(t) = [t EXCEPT !.byte_output = output,
                                    !.ack_base = wrapping_add(@, n),
                                    !.recv_window = window]
  BY DEF WellTyped, TCB, deliver_prefix, n
<1> HIDE DEF output, window
<1>7. QED
  BY <1>3, <1>4, <1>5, <1>6 DEF WellTyped, TCB

(* What the loop of handle_payload does (tcp.rs 184-198): the filled slots *)
(* at the front of the window go to the output, in their order, and the    *)
(* window slides by as many.                                               *)
LEMMA DeliverPrefixProperties ==
    ASSUME NEW t, WellTyped(t)
    PROVE  LET u == deliver_prefix(t)
               n == FilledPrefix(t.recv_window)
               d == Len(t.byte_output)
           IN  /\ n \in Nat /\ n <= WINDOW_SIZE
               /\ \A i \in Nat : i < n => i \in Slot /\ t.recv_window[i] # None
               /\ n \in Slot => t.recv_window[n] = None
               /\ Len(u.byte_output) = d + n
               /\ \A i \in 1 .. d + n : u.byte_output[i] =
                    IF i <= d THEN t.byte_output[i] ELSE t.recv_window[i - d - 1]
               /\ n = 0 => u.byte_output = t.byte_output
               /\ \A i \in Slot : u.recv_window[i] =
                    IF i + n \in Slot THEN t.recv_window[i + n] ELSE None
               /\ u.ack_base = wrapping_add(t.ack_base, n)
               /\ u.state = t.state /\ u.socket = t.socket
               /\ u.unacked_segs = t.unacked_segs
<1> DEFINE u == deliver_prefix(t)
           n == FilledPrefix(t.recv_window)
           d == Len(t.byte_output)
           bytes == [i \in 1 .. n |-> t.recv_window[i - 1]]
           output == t.byte_output \o bytes
           window == slide(t.recv_window, n)
<1>1. /\ t.byte_output \in Seq(Byte) /\ d \in Nat
      /\ t.recv_window \in [Slot -> Byte \cup {None}]
      /\ WINDOW_SIZE \in Nat
  BY LenProperties, WindowAssumption DEF WellTyped, TCB
<1>2. /\ n \in 0 .. WINDOW_SIZE /\ \A i \in 0 .. n - 1 : t.recv_window[i] # None
      /\ n = WINDOW_SIZE \/ t.recv_window[n] = None
  BY FilledPrefixProperties
<1>3. u = [t EXCEPT !.byte_output = output,
                    !.ack_base = wrapping_add(@, n),
                    !.recv_window = window]
  BY DEF deliver_prefix
<1> HIDE DEF u, n
<1>4. n \in Nat /\ n <= WINDOW_SIZE
  BY <1>1, <1>2
<1>5. ASSUME NEW i \in Nat, i < n PROVE i \in Slot /\ t.recv_window[i] # None
  <2>1. i \in 0 .. n - 1 /\ i \in 0 .. WINDOW_SIZE - 1
    BY <1>1, <1>4, <1>5
  <2>2. QED
    BY <1>2, <2>1 DEF Slot
<1>6. n \in Slot => t.recv_window[n] = None
  <2>1. n \in Slot => n # WINDOW_SIZE
    BY <1>1, <1>4 DEF Slot
  <2>2. QED
    BY <1>2, <2>1
<1>7. bytes \in Seq(Byte) /\ Len(bytes) = n /\ \A i \in 1 .. n : bytes[i] = t.recv_window[i - 1]
  <2>1. \A i \in 1 .. n : t.recv_window[i - 1] \in Byte
    <3> TAKE i \in 1 .. n
    <3>1. i - 1 \in Nat /\ i - 1 < n
      BY <1>4
    <3>2. QED
      BY <1>1, <1>5, <3>1
  <2>2. bytes \in Seq(Byte)
    BY <1>4, <2>1, IsASeq
  <2>3. Len(bytes) = n
    BY <1>4, <2>2, LenProperties
  <2>4. QED
    BY <2>2, <2>3
<1> HIDE DEF bytes
<1>8. n = 0 => output = t.byte_output
  <2>1. n = 0 => bytes = << >>
    BY <1>7, EmptySeq
  <2>2. QED
    BY <1>1, <2>1
<1>9. /\ Len(output) = d + n
      /\ \A i \in 1 .. d + n :
           output[i] = IF i <= d THEN t.byte_output[i] ELSE t.recv_window[i - d - 1]
  <2>1. /\ Len(output) = Len(t.byte_output) + Len(bytes)
        /\ \A i \in 1 .. Len(t.byte_output) + Len(bytes) :
             output[i] = IF i <= Len(t.byte_output) THEN t.byte_output[i]
                         ELSE bytes[i - Len(t.byte_output)]
    BY <1>1, <1>7, ConcatProperties, ZenonT(40)
  <2> HIDE DEF output
  <2>2. ASSUME NEW i \in 1 .. d + n, ~ i <= d PROVE bytes[i - d] = t.recv_window[i - d - 1]
    <3>1. i - d \in 1 .. n
      BY <1>1, <1>4, <2>2
    <3>2. QED
      BY <1>7, <3>1
  <2>3. QED
    BY <1>7, <2>1, <2>2
<1> HIDE DEF output, d
<1>10. \A i \in Slot : window[i] = IF i + n \in Slot THEN t.recv_window[i + n] ELSE None
  BY DEF slide
<1> HIDE DEF window
<1>11. /\ u.byte_output = output /\ u.recv_window = window
       /\ u.ack_base = wrapping_add(t.ack_base, n)
       /\ u.state = t.state /\ u.socket = t.socket /\ u.unacked_segs = t.unacked_segs
  BY <1>3 DEF WellTyped, TCB
<1>12. QED
  BY <1>4, <1>5, <1>6, <1>8, <1>9, <1>10, <1>11 DEF u, n, d

SameSender(t, u) ==
    /\ u.seq_base = t.seq_base /\ u.send_window = t.send_window
    /\ u.send_buffer = t.send_buffer /\ u.unacked_segs = t.unacked_segs

\* s is t with the payload of seg in its place in the window, if it has one
Stored(t, seg, s) ==
    LET index == window_index_base(t, seg)
        covered == index .. index + Len(seg.payload) - 1
    IN  /\ s.state = t.state
        /\ SameSender(t, s) /\ s.socket = t.socket
        /\ s.byte_output = t.byte_output
        /\ s.ack_base = t.ack_base
        /\ \/ s.recv_window = t.recv_window
           \/ /\ in_wrapped_range(t.ack_base, wrapping_add(t.ack_base, WINDOW_SIZE), seg.seq_num)
              /\ covered \subseteq Slot
              /\ \A i \in Slot : s.recv_window[i] = IF i \in covered THEN seg.payload[i - index + 1]
                                                    ELSE t.recv_window[i]

delivery_ack(t) == [make_seg EXCEPT !.flags = {"ACK"}, !.ack_num = t.ack_base]

(* The outcomes of handle_payload (tcp.rs 165-211): a payload is stored    *)
(* only where the window has room for it.                                  *)
LEMMA HandlePayloadCases ==
    ASSUME NEW t, WellTyped(t), NEW seg \in Segment
    PROVE  LET u == handle_payload(t, seg)
           IN  \/ u = t
               \/ u = [t EXCEPT !.state = "Panicked"]
               \/ /\ t.state = "Estab"
                  /\ \E s : /\ WellTyped(s) /\ Stored(t, seg, s)
                            /\ \/ u = s
                               \/ /\ acknowledged(t, seg)
                                  /\ u = send_ack(deliver_prefix(s),
                                                  delivery_ack(deliver_prefix(s)))
<1> DEFINE in_window == in_wrapped_range(t.ack_base, wrapping_add(t.ack_base, WINDOW_SIZE),
                                         seg.seq_num)
           index == window_index_base(t, seg)
           covered == index .. index + Len(seg.payload) - 1
           window == [i \in Slot |-> IF i \in covered THEN seg.payload[i - index + 1]
                                     ELSE t.recv_window[i]]
           stored == IF in_window THEN [t EXCEPT !.recv_window = window] ELSE t
           delivered == deliver_prefix(stored)
<1>1. index \in Nat /\ seg.payload \in Seq(Byte) /\ Len(seg.payload) \in Nat
  <2>1. seg.seq_num \in SeqNum /\ t.ack_base \in SeqNum /\ seg.payload \in Seq(Byte)
    BY DEF WellTyped, TCB, Segment
  <2>2. index \in SeqNum
    BY <2>1, WrappingType DEF window_index_base
  <2> HIDE DEF index
  <2>3. QED
    BY <2>1, <2>2, LenProperties, SeqSpaceAssumption DEF SeqNum
<1>2. window \in [Slot -> Byte \cup {None}]
  <2> HIDE DEF index
  <2>1. ASSUME NEW i \in Slot, i \in covered PROVE seg.payload[i - index + 1] \in Byte
    <3>1. i - index + 1 \in 1 .. Len(seg.payload)
      BY <1>1, <2>1
    <3>2. QED
      BY <1>1, <3>1, ElementOfSeq
  <2> HIDE DEF covered
  <2>2. QED
    BY <2>1 DEF WellTyped, TCB
<1>3. \A i \in Slot : window[i] = IF i \in covered THEN seg.payload[i - index + 1]
                                  ELSE t.recv_window[i]
  OBVIOUS
<1> HIDE DEF window
<1>4. WellTyped(stored)
  BY <1>2 DEF WellTyped, TCB
<1>5. /\ stored.state = t.state /\ stored.byte_output = t.byte_output
      /\ stored.ack_base = t.ack_base
      /\ stored.recv_window = IF in_window THEN window ELSE t.recv_window
      /\ SameSender(t, stored) /\ stored.socket = t.socket
  BY DEF WellTyped, TCB, SameSender
<1>6. stored = IF in_window
               THEN [t EXCEPT !.recv_window =
                        [i \in Slot |-> IF i \in covered THEN seg.payload[i - index + 1]
                                        ELSE @[i]]]
               ELSE t
  BY DEF stored, window
<1> HIDE DEF stored
<1>7. handle_payload(t, seg) =
        CASE t.state # "Estab" -> t
          [] t.state = "Estab" /\ in_window /\ ~ covered \subseteq Slot ->
               [t EXCEPT !.state = "Panicked"]
          [] t.state = "Estab" /\ covered \subseteq Slot /\ acknowledged(t, seg) ->
               send_ack(delivered, delivery_ack(delivered))
          [] OTHER -> stored
  BY <1>6, Zenon DEF handle_payload, delivery_ack, delivered
<1>8. (in_window /\ ~ covered \subseteq Slot) \/ Stored(t, seg, stored)
  BY <1>3, <1>5 DEF Stored
<1> HIDE DEF in_window, covered
<1>9. QED
  BY <1>4, <1>7, <1>8 DEF delivered

LEMMA HandlePayloadType ==
    ASSUME NEW t, WellTyped(t), NEW seg \in Segment
    PROVE  WellTyped(handle_payload(t, seg))
<1>1. WellTyped([t EXCEPT !.state = "Panicked"])
  BY DEF WellTyped, TCB
<1>2. ASSUME NEW s, WellTyped(s)
      PROVE  WellTyped(send_ack(deliver_prefix(s), delivery_ack(deliver_prefix(s))))
  <2> DEFINE u == deliver_prefix(s)
  <2>1. WellTyped(u)
    BY <1>2, DeliverPrefixType
  <2> HIDE DEF u
  <2>2. delivery_ack(u) \in Segment
    BY <2>1, MakeSegType DEF WellTyped, TCB, Segment, Flag, delivery_ack
  <2>3. WellTyped(send_ack(u, delivery_ack(u)))
    BY <2>1, <2>2, ResendSegType
  <2>4. QED
    BY <2>3 DEF u
<1>3. QED
  BY <1>1, <1>2, HandlePayloadCases

(* handle_seg, whatever the segment and the state of the endpoint.         *)
LEMMA HandleSegType ==
    ASSUME NEW t, WellTyped(t), NEW seg \in Segment
    PROVE  WellTyped(handle_seg(t, seg))
<1> DEFINE handled == handle_payload(handle_shake(handle_acks(t, seg), seg), seg)
<1>1. WellTyped(handled)
  BY HandleAcksType, HandleShakeType, HandlePayloadType
<1> HIDE DEF handled
<1>2. WellTyped(handle_close(handled))
  BY <1>1 DEF WellTyped, TCB, TCBState, handle_close
<1>3. QED
  BY <1>1, <1>2 DEF handle_seg, handled

-----------------------------------------------------------------------------
(* What a handler does, and sends, does not depend on what is in flight.   *)

Adding(t, S) == [t EXCEPT !.socket = @ \cup S]

LEMMA AddingType ==
    ASSUME NEW t, WellTyped(t), NEW S \in SUBSET Segment
    PROVE  WellTyped(Adding(t, S))
BY DEF WellTyped, TCB, Adding

LEMMA SendSegAdding ==
    ASSUME NEW t, WellTyped(t), NEW S \in SUBSET Segment, NEW seg \in Segment
    PROVE  /\ resend_seg(Adding(t, S), seg) = Adding(resend_seg(t, seg), S)
           /\ send_ack(Adding(t, S), seg) = Adding(send_ack(t, seg), S)
           /\ send_seg(Adding(t, S), seg) = Adding(send_seg(t, seg), S)
<1>1. (t.socket \cup S) \cup {seg} = (t.socket \cup {seg}) \cup S
  OBVIOUS
<1>2. resend_seg(Adding(t, S), seg) = Adding(resend_seg(t, seg), S)
  BY <1>1 DEF WellTyped, TCB, Adding, resend_seg
<1>3. send_seg(Adding(t, S), seg) = Adding(send_seg(t, seg), S)
  BY <1>1 DEF WellTyped, TCB, Adding, resend_seg, send_seg
<1>4. QED
  BY <1>2, <1>3 DEF send_ack

LEMMA HandleResendAdding ==
    ASSUME NEW t, WellTyped(t), NEW S \in SUBSET Segment
    PROVE  handle_resend(Adding(t, S)) = Adding(handle_resend(t), S)
<1>1. Adding(t, S).unacked_segs = t.unacked_segs
  BY DEF WellTyped, TCB, Adding
<1>2. t.unacked_segs # << >> => Head(t.unacked_segs) \in Segment
  BY HeadTailProperties DEF WellTyped, TCB
<1>3. QED
  BY <1>1, <1>2, SendSegAdding DEF handle_resend

LEMMA AddingFields ==
    ASSUME NEW t, WellTyped(t), NEW S
    PROVE  /\ Adding(t, S).state = t.state
           /\ Adding(t, S).socket = t.socket \cup S
           /\ Adding(t, S).byte_output = t.byte_output
           /\ Adding(t, S).send_buffer = t.send_buffer
           /\ Adding(t, S).send_window = t.send_window
           /\ Adding(t, S).recv_window = t.recv_window
           /\ Adding(t, S).seq_base = t.seq_base
           /\ Adding(t, S).ack_base = t.ack_base
           /\ Adding(t, S).unacked_segs = t.unacked_segs
           /\ Adding(t, S).dupe_acks = t.dupe_acks
BY DEF WellTyped, TCB, Adding

LEMMA SendCloseAdding ==
    ASSUME NEW t, WellTyped(t), NEW S \in SUBSET Segment
    PROVE  send_close(Adding(t, S)) = Adding(send_close(t), S)
<1> DEFINE fin == [make_seg EXCEPT !.flags = {"FIN"}, !.seq_num = t.seq_base]
<1>1. fin \in Segment
  BY MakeSegType DEF WellTyped, TCB, Segment, Flag
<1>2. send_close(t) = [send_seg(t, fin) EXCEPT !.state = "Closed"]
  BY DEF send_close
<1>3. send_close(Adding(t, S)) = [send_seg(Adding(t, S), fin) EXCEPT !.state = "Closed"]
  BY AddingFields DEF send_close
<1> HIDE DEF fin
<1>4. send_seg(Adding(t, S), fin) = Adding(send_seg(t, fin), S) /\ WellTyped(send_seg(t, fin))
  BY <1>1, SendSegAdding, SendSegType
<1> DEFINE u == send_seg(t, fin)
<1> HIDE DEF u
<1>5. WellTyped(u) => [Adding(u, S) EXCEPT !.state = "Closed"]
                        = Adding([u EXCEPT !.state = "Closed"], S)
  BY DEF WellTyped, TCB, Adding
<1>6. QED
  BY <1>2, <1>3, <1>4, <1>5 DEF u

LEMMA SendDataAdding ==
    ASSUME NEW t, WellTyped(t), NEW S, NEW data, NEW next_seq
    PROVE  send_data(Adding(t, S), data, next_seq) = Adding(send_data(t, data, next_seq), S)
<1> DEFINE sent(k) == (k - 1) * MAX_PAYLOAD_SIZE
           segs == [k \in 1 .. SegmentsFor(Len(data)) |->
                      [make_seg EXCEPT
                         !.seq_num = wrapping_add(next_seq, sent(k)),
                         !.payload = SubSeq(data, sent(k) + 1,
                                            min(sent(k) + MAX_PAYLOAD_SIZE, Len(data)))]]
           set == {segs[k] : k \in DOMAIN segs}
<1>1. \A u : send_data(u, data, next_seq) =
               [u EXCEPT !.socket = @ \cup set, !.unacked_segs = @ \o segs]
  BY DEF send_data
<1> HIDE DEF segs, set
<1>2. (t.socket \cup S) \cup set = (t.socket \cup set) \cup S
  OBVIOUS
<1>3. [Adding(t, S) EXCEPT !.socket = @ \cup set, !.unacked_segs = @ \o segs]
        = Adding([t EXCEPT !.socket = @ \cup set, !.unacked_segs = @ \o segs], S)
  BY <1>2 DEF WellTyped, TCB, Adding
<1>4. QED
  BY <1>1, <1>3

LEMMA FillSendWindowAdding ==
    ASSUME NEW t, WellTyped(t), NEW S \in SUBSET Segment
    PROVE  fill_send_window(Adding(t, S)) = Adding(fill_send_window(t), S)
<1> DEFINE amt == send_amt(t)
           data == Taken(t.send_buffer, amt)
           window == t.send_window \o data
           buffer == Dropped(t.send_buffer, amt)
           filled == [t EXCEPT !.send_window = window, !.send_buffer = buffer]
           next_seq == wrapping_add(t.seq_base, Len(t.send_window))
           v == Adding(t, S)
<1>1. fill_send_window(t) = IF t.state # "Estab" THEN t ELSE send_data(filled, data, next_seq)
  BY DEF fill_send_window
<1>2. /\ v.state = t.state /\ send_amt(v) = amt /\ Taken(v.send_buffer, amt) = data
      /\ v.send_window \o data = window /\ Dropped(v.send_buffer, amt) = buffer
      /\ wrapping_add(v.seq_base, Len(v.send_window)) = next_seq
  BY AddingFields DEF send_amt
<1>3. fill_send_window(v) =
        IF v.state # "Estab" THEN v
        ELSE send_data([v EXCEPT !.send_window = window, !.send_buffer = buffer], data, next_seq)
  BY <1>2 DEF fill_send_window
<1>4. WellTyped(filled)
  BY FillProperties
<1> HIDE DEF data, next_seq, window, buffer
<1>5. [v EXCEPT !.send_window = window, !.send_buffer = buffer] = Adding(filled, S)
  BY DEF WellTyped, TCB, Adding
<1> HIDE DEF filled
<1>6. send_data(Adding(filled, S), data, next_seq) = Adding(send_data(filled, data, next_seq), S)
  BY <1>4, SendDataAdding
<1>7. QED
  BY <1>1, <1>2, <1>3, <1>5, <1>6

LEMMA SendAdding ==
    ASSUME NEW t, WellTyped(t), NEW S \in SUBSET Segment, NEW data \in Seq(Byte)
    PROVE  send(Adding(t, S), data) = Adding(send(t, data), S)
<1> DEFINE buffer == t.send_buffer \o data
           u == [t EXCEPT !.send_buffer = buffer]
<1>1. buffer \in Seq(Byte)
  BY ConcatProperties DEF WellTyped, TCB
<1> HIDE DEF buffer
<1>2. WellTyped(u)
  BY <1>1 DEF WellTyped, TCB
<1>3. [Adding(t, S) EXCEPT !.send_buffer = buffer] = Adding(u, S)
  BY DEF WellTyped, TCB, Adding
<1>4. send(t, data) = fill_send_window(u)
  BY DEF send, buffer
<1>5. send(Adding(t, S), data) = fill_send_window([Adding(t, S) EXCEPT !.send_buffer = buffer])
  BY AddingFields DEF send, buffer
<1> HIDE DEF u
<1>6. QED
  BY <1>2, <1>3, <1>4, <1>5, FillSendWindowAdding

LEMMA AcceptAckAdding ==
    ASSUME NEW t, WellTyped(t), NEW S \in SUBSET Segment, NEW seg \in Segment
    PROVE  accept_ack(Adding(t, S), seg) = Adding(accept_ack(t, seg), S)
<1> DEFINE num == wrapping_sub(seg.ack_num, t.seq_base)
           queue == retain_unacked(t.unacked_segs, seg.ack_num)
           window == Dropped(t.send_window, num)
           acked == [t EXCEPT !.unacked_segs = queue, !.seq_base = seg.ack_num]
           panicked == [acked EXCEPT !.state = "Panicked"]
           drained == [acked EXCEPT !.send_window = window]
           v == Adding(t, S)
           ackedV == [v EXCEPT !.unacked_segs = queue, !.seq_base = seg.ack_num]
           panickedV == [ackedV EXCEPT !.state = "Panicked"]
           drainedV == [ackedV EXCEPT !.send_window = window]
<1>1. acked.send_window = t.send_window /\ ackedV.send_window = t.send_window
  BY DEF WellTyped, TCB, Adding
<1>2. accept_ack(t, seg) =
        CASE ~ new_ack(t, seg) -> t
          [] new_ack(t, seg) /\ t.state # "Estab" -> acked
          [] new_ack(t, seg) /\ t.state = "Estab" /\ num > Len(t.send_window) -> panicked
          [] OTHER -> fill_send_window(drained)
  BY <1>1 DEF accept_ack
<1>3. /\ v.state = t.state /\ v.send_window = t.send_window /\ v.seq_base = t.seq_base
      /\ v.unacked_segs = t.unacked_segs /\ (new_ack(v, seg) <=> new_ack(t, seg))
  BY AddingFields DEF new_ack
<1>4. accept_ack(v, seg) =
        CASE ~ new_ack(t, seg) -> v
          [] new_ack(t, seg) /\ t.state # "Estab" -> ackedV
          [] new_ack(t, seg) /\ t.state = "Estab" /\ num > Len(t.send_window) -> panickedV
          [] OTHER -> fill_send_window(drainedV)
  BY <1>1, <1>3 DEF accept_ack
<1>5. /\ ackedV = Adding(acked, S) /\ panickedV = Adding(panicked, S)
      /\ drainedV = Adding(drained, S)
  <2> HIDE DEF queue, window
  <2>1. QED
    BY DEF WellTyped, TCB, Adding
<1>6. ASSUME new_ack(t, seg), t.state = "Estab", ~ num > Len(t.send_window)
      PROVE  WellTyped(drained)
  <2>1. num \in Nat /\ Len(t.send_window) \in Nat /\ t.send_window \in Seq(Byte)
    <3>1. seg.ack_num \in SeqNum /\ t.seq_base \in SeqNum /\ t.send_window \in Seq(Byte)
      BY DEF WellTyped, TCB, Segment
    <3>2. num \in SeqNum
      BY <3>1, WrappingType
    <3> HIDE DEF num
    <3>3. QED
      BY <3>1, <3>2, LenProperties, SeqSpaceAssumption DEF SeqNum
  <2> HIDE DEF num
  <2>2. num \in 0 .. Len(t.send_window)
    BY <1>6, <2>1
  <2>3. window \in Seq(Byte) /\ Len(window) = Len(t.send_window) - num
    BY <2>1, <2>2, DrainProperties
  <2>4. queue \in Seq(Segment)
    BY RetainProperties DEF WellTyped, TCB
  <2> HIDE DEF window, queue
  <2>5. Len(window) <= WINDOW_SIZE
    BY <2>1, <2>2, <2>3, WindowAssumption DEF WellTyped
  <2>6. drained \in TCB
    BY <2>3, <2>4 DEF WellTyped, TCB, Segment
  <2>7. drained.send_window = window /\ drained.dupe_acks = t.dupe_acks
    BY DEF WellTyped, TCB
  <2>8. QED
    BY <2>5, <2>6, <2>7 DEF WellTyped
<1> HIDE DEF acked, panicked, drained, ackedV, panickedV, drainedV, num, window, queue
<1>7. WellTyped(drained) =>
        fill_send_window(Adding(drained, S)) = Adding(fill_send_window(drained), S)
  BY FillSendWindowAdding
<1>8. QED
  BY <1>2, <1>4, <1>5, <1>6, <1>7

LEMMA CountDupeAckAdding ==
    ASSUME NEW t, WellTyped(t), NEW S \in SUBSET Segment, NEW seg \in Segment
    PROVE  count_dupe_ack(Adding(t, S), seg) = Adding(count_dupe_ack(t, seg), S)
<1> DEFINE v == Adding(t, S)
           lb == wrapping_sub(t.seq_base, WINDOW_SIZE - 1)
           dupe == /\ t.state = "Estab"
                   /\ "ACK" \in seg.flags
                   /\ in_wrapped_range(lb, wrapping_add(lb, WINDOW_SIZE), seg.seq_num)
           resent == [handle_resend(t) EXCEPT !.dupe_acks = 0]
           counted == [t EXCEPT !.dupe_acks = t.dupe_acks + 1]
           resentV == [handle_resend(v) EXCEPT !.dupe_acks = 0]
           countedV == [v EXCEPT !.dupe_acks = t.dupe_acks + 1]
<1>1. count_dupe_ack(t, seg) = CASE ~ dupe -> t
                                 [] dupe /\ t.dupe_acks + 1 >= 3 -> resent
                                 [] OTHER -> counted
  BY DEF count_dupe_ack
<1>2. v.state = t.state /\ v.seq_base = t.seq_base /\ v.dupe_acks = t.dupe_acks
  BY AddingFields
<1>3. count_dupe_ack(v, seg) = CASE ~ dupe -> v
                                 [] dupe /\ t.dupe_acks + 1 >= 3 -> resentV
                                 [] OTHER -> countedV
  BY <1>2 DEF count_dupe_ack
<1>4. handle_resend(v) = Adding(handle_resend(t), S) /\ WellTyped(handle_resend(t))
  BY HandleResendAdding, HandleResendType
<1>5. resentV = Adding(resent, S) /\ countedV = Adding(counted, S)
  <2> DEFINE r == handle_resend(t)
  <2>1. WellTyped(r) /\ handle_resend(v) = Adding(r, S)
    BY <1>4
  <2> HIDE DEF r
  <2>2. [Adding(r, S) EXCEPT !.dupe_acks = 0] = Adding([r EXCEPT !.dupe_acks = 0], S)
    BY <2>1 DEF WellTyped, TCB, Adding
  <2>3. countedV = Adding(counted, S)
    BY DEF WellTyped, TCB, Adding
  <2>4. QED
    BY <2>1, <2>2, <2>3 DEF r
<1> HIDE DEF dupe, resent, counted, resentV, countedV
<1>6. QED
  BY <1>1, <1>3, <1>5

LEMMA HandleAcksAdding ==
    ASSUME NEW t, WellTyped(t), NEW S \in SUBSET Segment, NEW seg \in Segment
    PROVE  handle_acks(Adding(t, S), seg) = Adding(handle_acks(t, seg), S)
<1>1. WellTyped(accept_ack(t, seg))
  BY AcceptAckType
<1>2. accept_ack(Adding(t, S), seg) = Adding(accept_ack(t, seg), S)
  BY AcceptAckAdding
<1>3. QED
  BY <1>1, <1>2, CountDupeAckAdding DEF handle_acks

LEMMA HandleShakeAdding ==
    ASSUME NEW t, WellTyped(t), NEW S \in SUBSET Segment, NEW seg \in Segment
    PROVE  handle_shake(Adding(t, S), seg) = Adding(handle_shake(t, seg), S)
<1> DEFINE synack == [make_seg EXCEPT !.flags = {"SYN", "ACK"},
                                      !.seq_num = t.seq_base, !.ack_num = peer_next(seg)]
           ack == [make_seg EXCEPT !.flags = {"ACK"}, !.ack_num = peer_next(seg)]
           listened == [t EXCEPT !.state = "SynRecd", !.ack_base = peer_next(seg)]
           answered == [t EXCEPT !.state = "Estab", !.ack_base = peer_next(seg)]
           acked == [t EXCEPT !.state = "Estab"]
           v == Adding(t, S)
           listenedV == [v EXCEPT !.state = "SynRecd", !.ack_base = peer_next(seg)]
           answeredV == [v EXCEPT !.state = "Estab", !.ack_base = peer_next(seg)]
           ackedV == [v EXCEPT !.state = "Estab"]
<1>1. peer_next(seg) \in SeqNum
  <2>1. seg.seq_num \in SeqNum /\ 1 \in SeqNum
    BY WindowAssumption, SeqSpaceAssumption DEF SeqNum, Segment
  <2>2. QED
    BY <2>1, WrappingType DEF peer_next
<1>2. synack \in Segment /\ ack \in Segment
  BY <1>1, MakeSegType DEF WellTyped, TCB, Segment, Flag
<1>3. WellTyped(listened) /\ WellTyped(answered) /\ WellTyped(acked)
  BY <1>1 DEF WellTyped, TCB, TCBState
<1>4. handle_shake(t, seg) =
        CASE t.state = "Listen" /\ "SYN" \in seg.flags -> send_seg(listened, synack)
          [] t.state = "SynSent" /\ {"SYN", "ACK"} \subseteq seg.flags ->
               fill_send_window(send_ack(answered, ack))
          [] t.state = "SynRecd" /\ "ACK" \in seg.flags -> fill_send_window(acked)
          [] OTHER -> t
  BY DEF handle_shake
<1>5. v.state = t.state /\ v.seq_base = t.seq_base
  BY AddingFields
<1>6. handle_shake(v, seg) =
        CASE t.state = "Listen" /\ "SYN" \in seg.flags -> send_seg(listenedV, synack)
          [] t.state = "SynSent" /\ {"SYN", "ACK"} \subseteq seg.flags ->
               fill_send_window(send_ack(answeredV, ack))
          [] t.state = "SynRecd" /\ "ACK" \in seg.flags -> fill_send_window(ackedV)
          [] OTHER -> v
  BY <1>5 DEF handle_shake
<1>7. /\ listenedV = Adding(listened, S) /\ answeredV = Adding(answered, S)
      /\ ackedV = Adding(acked, S)
  BY DEF WellTyped, TCB, Adding
<1> HIDE DEF synack, ack, listened, answered, acked, listenedV, answeredV, ackedV
<1>8. send_seg(Adding(listened, S), synack) = Adding(send_seg(listened, synack), S)
  BY <1>2, <1>3, SendSegAdding
<1>9. /\ send_ack(Adding(answered, S), ack) = Adding(send_ack(answered, ack), S)
      /\ WellTyped(send_ack(answered, ack))
  BY <1>2, <1>3, SendSegAdding, ResendSegType
<1>10. /\ fill_send_window(Adding(send_ack(answered, ack), S))
            = Adding(fill_send_window(send_ack(answered, ack)), S)
       /\ fill_send_window(Adding(acked, S)) = Adding(fill_send_window(acked), S)
  BY <1>3, <1>9, FillSendWindowAdding
<1>11. QED
  BY <1>4, <1>6, <1>7, <1>8, <1>9, <1>10

LEMMA HandlePayloadAdding ==
    ASSUME NEW t, WellTyped(t), NEW S \in SUBSET Segment, NEW seg \in Segment
    PROVE  handle_payload(Adding(t, S), seg) = Adding(handle_payload(t, seg), S)
<1> DEFINE in_window == in_wrapped_range(t.ack_base, wrapping_add(t.ack_base, WINDOW_SIZE),
                                         seg.seq_num)
           index == window_index_base(t, seg)
           covered == index .. index + Len(seg.payload) - 1
           window == [i \in Slot |-> IF i \in covered THEN seg.payload[i - index + 1]
                                     ELSE t.recv_window[i]]
           stored(u) == IF in_window THEN [u EXCEPT !.recv_window = window] ELSE u
           panicked(u) == [u EXCEPT !.state = "Panicked"]
           answered(u) == send_ack(deliver_prefix(u), delivery_ack(deliver_prefix(u)))
           v == Adding(t, S)
<1>1. \A u : u.state = t.state /\ u.ack_base = t.ack_base /\ u.recv_window = t.recv_window =>
        handle_payload(u, seg) =
          CASE t.state # "Estab" -> u
            [] t.state = "Estab" /\ in_window /\ ~ covered \subseteq Slot -> panicked(u)
            [] t.state = "Estab" /\ covered \subseteq Slot /\ acknowledged(t, seg) ->
                 answered(stored(u))
            [] OTHER -> stored(u)
  <2> TAKE u
  <2> HAVE u.state = t.state /\ u.ack_base = t.ack_base /\ u.recv_window = t.recv_window
  <2>1. stored(u) = IF in_window
                    THEN [u EXCEPT !.recv_window =
                             [i \in Slot |-> IF i \in covered THEN seg.payload[i - index + 1]
                                             ELSE @[i]]]
                    ELSE u
    OBVIOUS
  <2>2. window_index_base(u, seg) = index /\ (acknowledged(u, seg) <=> acknowledged(t, seg))
    BY DEF window_index_base, acknowledged
  <2> HIDE DEF stored
  <2>3. QED
    BY <2>1, <2>2, Zenon DEF handle_payload, delivery_ack
<1>2. v.state = t.state /\ v.ack_base = t.ack_base /\ v.recv_window = t.recv_window
  BY AddingFields
<1>3. WellTyped(stored(t))
  <2>1. index \in Nat /\ seg.payload \in Seq(Byte) /\ Len(seg.payload) \in Nat
    <3>1. seg.seq_num \in SeqNum /\ t.ack_base \in SeqNum /\ seg.payload \in Seq(Byte)
      BY DEF WellTyped, TCB, Segment
    <3>2. index \in SeqNum
      BY <3>1, WrappingType DEF window_index_base
    <3> HIDE DEF index
    <3>3. QED
      BY <3>1, <3>2, LenProperties, SeqSpaceAssumption DEF SeqNum
  <2> HIDE DEF index
  <2>2. ASSUME NEW i \in Slot, i \in covered PROVE seg.payload[i - index + 1] \in Byte
    <3>1. i - index + 1 \in 1 .. Len(seg.payload)
      BY <2>1, <2>2
    <3>2. QED
      BY <2>1, <3>1, ElementOfSeq
  <2> HIDE DEF covered
  <2>3. window \in [Slot -> Byte \cup {None}]
    BY <2>2 DEF WellTyped, TCB
  <2> HIDE DEF window
  <2>4. QED
    BY <2>3 DEF WellTyped, TCB
<1> HIDE DEF window, in_window, covered, index
<1>4. stored(v) = Adding(stored(t), S) /\ panicked(v) = Adding(panicked(t), S)
  BY DEF WellTyped, TCB, Adding
<1> DEFINE s == stored(t)
<1>5. WellTyped(s) /\ stored(v) = Adding(s, S)
  BY <1>3, <1>4
<1> HIDE DEF s, stored, panicked, v
<1>6. answered(Adding(s, S)) = Adding(answered(s), S)
  <2> DEFINE n == FilledPrefix(s.recv_window)
             bytes == [i \in 1 .. n |-> s.recv_window[i - 1]]
             slid == slide(s.recv_window, n)
             base == wrapping_add(s.ack_base, n)
             d == deliver_prefix(s)
  <2>1. deliver_prefix(s) = [s EXCEPT !.byte_output = @ \o bytes, !.ack_base = base,
                                      !.recv_window = slid]
    BY DEF WellTyped, TCB, deliver_prefix
  <2>2. deliver_prefix(Adding(s, S)) = [Adding(s, S) EXCEPT
            !.byte_output = @ \o bytes, !.ack_base = base, !.recv_window = slid]
    BY AddingFields, <1>5 DEF WellTyped, TCB, Adding, deliver_prefix
  <2> HIDE DEF n, bytes, slid, base
  <2>3. deliver_prefix(Adding(s, S)) = Adding(deliver_prefix(s), S)
    BY <1>5, <2>1, <2>2 DEF WellTyped, TCB, Adding
  <2>4. WellTyped(d)
    BY <1>5, DeliverPrefixType
  <2>5. deliver_prefix(Adding(s, S)) = Adding(d, S)
    BY <2>3
  <2> HIDE DEF d
  <2>6. delivery_ack(d) \in Segment /\ delivery_ack(Adding(d, S)) = delivery_ack(d)
    BY <2>4, MakeSegType DEF WellTyped, TCB, Segment, Flag, delivery_ack, Adding
  <2>7. send_ack(Adding(d, S), delivery_ack(d)) = Adding(send_ack(d, delivery_ack(d)), S)
    BY <2>4, <2>6, SendSegAdding
  <2>8. QED
    BY <2>5, <2>6, <2>7 DEF d
<1> HIDE DEF answered
<1>7. QED
  BY <1>1, <1>2, <1>4, <1>5, <1>6 DEF s, v

LEMMA HandleSegAdding ==
    ASSUME NEW t, WellTyped(t), NEW S \in SUBSET Segment, NEW seg \in Segment
    PROVE  handle_seg(Adding(t, S), seg) = Adding(handle_seg(t, seg), S)
<1> DEFINE acked == handle_acks(t, seg)
           shaken == handle_shake(acked, seg)
           received == handle_payload(shaken, seg)
<1>1. WellTyped(acked) /\ handle_acks(Adding(t, S), seg) = Adding(acked, S)
  BY HandleAcksType, HandleAcksAdding
<1> HIDE DEF acked
<1>2. WellTyped(shaken) /\ handle_shake(Adding(acked, S), seg) = Adding(shaken, S)
  BY <1>1, HandleShakeType, HandleShakeAdding
<1> HIDE DEF shaken
<1>3. WellTyped(received) /\ handle_payload(Adding(shaken, S), seg) = Adding(received, S)
  BY <1>2, HandlePayloadType, HandlePayloadAdding
<1>4. handle_seg(t, seg) = IF "FIN" \in seg.flags /\ received.state # "Panicked"
                           THEN handle_close(received) ELSE received
  BY DEF handle_seg, acked, shaken
<1> HIDE DEF received
<1>5. handle_seg(Adding(t, S), seg) =
        IF "FIN" \in seg.flags /\ Adding(received, S).state # "Panicked"
        THEN handle_close(Adding(received, S)) ELSE Adding(received, S)
  BY <1>1, <1>2, <1>3 DEF handle_seg
<1>6. /\ Adding(received, S).state = received.state
      /\ handle_close(Adding(received, S)) = Adding(handle_close(received), S)
  BY <1>3 DEF WellTyped, TCB, Adding, handle_close
<1>7. QED
  BY <1>4, <1>5, <1>6

-----------------------------------------------------------------------------
(* What a handler sends.                                                   *)

\* the segments that t may send again
Queued(t) == {t.unacked_segs[k] : k \in 1 .. Len(t.unacked_segs)}

LEMMA AppendQueued ==
    ASSUME NEW t, WellTyped(t), NEW seg \in Segment
    PROVE  \A x \in Queued(send_seg(t, seg)) : x = seg \/ x \in Queued(t)
<1> DEFINE n == Len(t.unacked_segs)
           queue == Append(t.unacked_segs, seg)
<1>1. t.unacked_segs \in Seq(Segment) /\ n \in Nat
  BY LenProperties DEF WellTyped, TCB
<1>2. Len(queue) = n + 1 /\ \A k \in 1 .. n : queue[k] = t.unacked_segs[k]
  BY <1>1, AppendProperties
<1>3. queue[n + 1] = seg
  BY <1>1, AppendProperties
<1>4. send_seg(t, seg).unacked_segs = queue
  BY DEF WellTyped, TCB, send_seg, resend_seg
<1> HIDE DEF queue
<1>5. ASSUME NEW k \in 1 .. n + 1, k # n + 1 PROVE k \in 1 .. n
  BY <1>1, <1>5
<1>6. QED
  BY <1>2, <1>3, <1>4, <1>5 DEF Queued, n

SameReceiver(t, u) ==
    /\ u.byte_output = t.byte_output /\ u.recv_window = t.recv_window
    /\ u.ack_base = t.ack_base

\* a segment with the bytes of the buffer after the first `off', and the number they go out with
Piece(t, seg) ==
    \E off \in Nat, payload \in Seq(Byte) :
        /\ seg = [make_seg EXCEPT
                    !.seq_num = wrapping_add(wrapping_add(t.seq_base, Len(t.send_window)), off),
                    !.payload = payload]
        /\ Len(payload) \in 1 .. MAX_PAYLOAD_SIZE
        /\ off + Len(payload) <= Len(t.send_buffer)
        /\ \A i \in 1 .. Len(payload) : payload[i] = t.send_buffer[off + i]

(* What fill_send_window sends is pieces of the buffer, each with the      *)
(* number that follows what was sent before it (tcp.rs 127-154).           *)
LEMMA FillSends ==
    ASSUME NEW t, WellTyped(t), t.state = "Estab"
    PROVE  LET u == fill_send_window(t)
               amt == send_amt(t)
           IN  /\ u.state = t.state /\ SameReceiver(t, u)
               /\ u.seq_base = t.seq_base
               /\ u.send_window = t.send_window \o Taken(t.send_buffer, amt)
               /\ u.send_buffer = Dropped(t.send_buffer, amt)
               /\ \A seg \in u.socket : seg \in t.socket \/ Piece(t, seg)
               /\ \A seg \in Queued(u) : seg \in Queued(t) \/ Piece(t, seg)
<1> DEFINE u == fill_send_window(t)
           amt == send_amt(t)
           data == Taken(t.send_buffer, amt)
           window == t.send_window \o data
           buffer == Dropped(t.send_buffer, amt)
           filled == [t EXCEPT !.send_window = window, !.send_buffer = buffer]
           next_seq == wrapping_add(t.seq_base, Len(t.send_window))
           n == SegmentsFor(amt)
           sent(k) == (k - 1) * MAX_PAYLOAD_SIZE
           upto(k) == min(sent(k) + MAX_PAYLOAD_SIZE, amt)
           payload(k) == SubSeq(data, sent(k) + 1, upto(k))
           seg(k) == [make_seg EXCEPT !.seq_num = wrapping_add(next_seq, sent(k)),
                                      !.payload = payload(k)]
           segs == [k \in 1 .. n |-> seg(k)]
<1>1. /\ t.send_buffer \in Seq(Byte) /\ Len(t.send_buffer) \in Nat
      /\ t.unacked_segs \in Seq(Segment) /\ Len(t.unacked_segs) \in Nat
      /\ MAX_PAYLOAD_SIZE \in Nat /\ 1 <= MAX_PAYLOAD_SIZE
  BY LenProperties, WindowAssumption DEF WellTyped, TCB
<1>2. /\ amt \in 0 .. Len(t.send_buffer) /\ data \in Seq(Byte) /\ Len(data) = amt
      /\ WellTyped(filled)
  BY FillProperties
<1>3. \A i \in 1 .. amt : data[i] = t.send_buffer[i]
  BY <1>1, <1>2, DrainProperties
<1>4. u = send_data(filled, data, next_seq)
  BY DEF fill_send_window
<1>5. send_data(filled, data, next_seq) =
        [filled EXCEPT !.socket = @ \cup {segs[k] : k \in DOMAIN segs},
                       !.unacked_segs = @ \o segs]
  BY <1>2 DEF send_data
<1>6. amt \in Nat /\ amt <= Len(t.send_buffer)
  BY <1>1, <1>2
<1> HIDE DEF amt, data, next_seq, window, buffer
<1>7. n \in Nat /\ \A k \in 1 .. n : sent(k) < amt
  BY <1>6, SegmentsForProperties
<1>8. ASSUME NEW k \in 1 .. n
      PROVE  seg(k) \in Segment /\ Piece(t, seg(k))
  <2>1. sent(k) \in Nat /\ sent(k) < amt
    BY <1>1, <1>7
  <2> HIDE DEF sent
  <2>2. /\ upto(k) \in Nat /\ upto(k) <= amt
        /\ upto(k) - sent(k) \in 1 .. MAX_PAYLOAD_SIZE
    BY <1>1, <1>6, <2>1 DEF min
  <2> HIDE DEF upto
  <2>3. /\ payload(k) \in Seq(Byte) /\ Len(payload(k)) = upto(k) - sent(k)
        /\ \A i \in 1 .. upto(k) - sent(k) : payload(k)[i] = data[sent(k) + i]
    <3>1. \A i \in sent(k) + 1 .. upto(k) : data[i] \in Byte
      BY <1>2, <1>6, <2>1, <2>2, ElementOfSeq
    <3>2. sent(k) + 1 \in Int /\ upto(k) \in Int
      BY <2>1, <2>2
    <3>3. /\ payload(k) \in Seq(Byte)
          /\ Len(payload(k)) = IF sent(k) + 1 <= upto(k) THEN upto(k) - (sent(k) + 1) + 1 ELSE 0
          /\ \A i \in 1 .. upto(k) - (sent(k) + 1) + 1 :
               payload(k)[i] = data[(sent(k) + 1) + i - 1]
      BY <3>1, <3>2, SubSeqProperties
    <3> HIDE DEF payload
    <3>4. /\ sent(k) + 1 <= upto(k) /\ upto(k) - (sent(k) + 1) + 1 = upto(k) - sent(k)
      BY <2>1, <2>2
    <3>5. ASSUME NEW i \in 1 .. upto(k) - sent(k) PROVE payload(k)[i] = data[sent(k) + i]
      <4>1. (sent(k) + 1) + i - 1 = sent(k) + i
        BY <2>1, <2>2
      <4>2. payload(k)[i] = data[(sent(k) + 1) + i - 1]
        BY <3>3, <3>4
      <4>3. QED
        BY <4>1, <4>2
    <3>6. QED
      BY <3>3, <3>4, <3>5
  <2> HIDE DEF payload
  <2>4. \A i \in 1 .. Len(payload(k)) : payload(k)[i] = t.send_buffer[sent(k) + i]
    <3> TAKE i \in 1 .. Len(payload(k))
    <3>1. sent(k) + i \in 1 .. amt
      BY <1>6, <2>1, <2>2, <2>3
    <3>2. QED
      BY <1>3, <2>3, <3>1
  <2>5. sent(k) + Len(payload(k)) <= Len(t.send_buffer)
    BY <1>1, <1>6, <2>1, <2>2, <2>3
  <2>6. Piece(t, seg(k))
    BY <2>1, <2>2, <2>3, <2>4, <2>5 DEF Piece, next_seq
  <2>7. wrapping_add(next_seq, sent(k)) \in SeqNum
    <3>1. Len(t.send_window) \in SeqNum /\ sent(k) \in SeqNum
      <4>1. amt <= WINDOW_SIZE /\ Len(t.send_window) <= WINDOW_SIZE
        BY FillProperties DEF amt, WellTyped
      <4>2. Len(t.send_window) \in Nat
        BY LenProperties DEF WellTyped, TCB
      <4>3. QED
        BY <1>6, <2>1, <4>1, <4>2, WindowAssumption, SeqSpaceAssumption DEF SeqNum
    <3>2. next_seq \in SeqNum
      BY <3>1, WrappingType DEF next_seq, WellTyped, TCB
    <3>3. QED
      BY <3>1, <3>2, WrappingType
  <2>8. seg(k) \in Segment
    BY <2>3, <2>7, MakeSegType DEF Segment
  <2>9. QED
    BY <2>6, <2>8
<1> HIDE DEF n, seg
<1>9. /\ segs \in Seq(Segment) /\ Len(segs) = n /\ DOMAIN segs = 1 .. n
      /\ \A k \in 1 .. n : segs[k] = seg(k)
  <2>1. segs \in Seq(Segment)
    BY <1>7, <1>8, IsASeq
  <2>2. QED
    BY <1>7, <2>1, LenProperties
<1> HIDE DEF segs
<1>10. /\ Len(t.unacked_segs \o segs) = Len(t.unacked_segs) + n
       /\ \A k \in 1 .. Len(t.unacked_segs) + n :
            (t.unacked_segs \o segs)[k] = IF k <= Len(t.unacked_segs) THEN t.unacked_segs[k]
                                          ELSE segs[k - Len(t.unacked_segs)]
  BY <1>1, <1>9, ConcatProperties
<1> DEFINE queue == t.unacked_segs \o segs
<1>11. \A x \in {queue[k] : k \in 1 .. Len(queue)} : x \in Queued(t) \/ Piece(t, x)
  <2> HIDE DEF queue
  <2> SUFFICES ASSUME NEW k \in 1 .. Len(queue)
               PROVE  queue[k] \in Queued(t) \/ Piece(t, queue[k])
    OBVIOUS
  <2>1. CASE k <= Len(t.unacked_segs)
    <3>1. k \in 1 .. Len(t.unacked_segs) /\ queue[k] = t.unacked_segs[k]
      BY <1>1, <1>7, <1>10, <2>1 DEF queue
    <3>2. QED
      BY <3>1 DEF Queued
  <2>2. CASE ~ k <= Len(t.unacked_segs)
    <3>1. k - Len(t.unacked_segs) \in 1 .. n /\ queue[k] = segs[k - Len(t.unacked_segs)]
      BY <1>1, <1>7, <1>10, <2>2 DEF queue
    <3>2. QED
      BY <1>8, <1>9, <3>1
  <2>3. QED
    BY <2>1, <2>2
<1> HIDE DEF filled, u
<1>12. /\ u.socket = filled.socket \cup {segs[k] : k \in 1 .. n}
       /\ u.unacked_segs = filled.unacked_segs \o segs
       /\ u.state = filled.state /\ u.byte_output = filled.byte_output
       /\ u.recv_window = filled.recv_window /\ u.seq_base = filled.seq_base
       /\ u.ack_base = filled.ack_base /\ u.send_window = filled.send_window
       /\ u.send_buffer = filled.send_buffer
  BY <1>2, <1>4, <1>5, <1>9 DEF WellTyped, TCB
<1>13. /\ filled.socket = t.socket /\ filled.unacked_segs = t.unacked_segs
       /\ filled.state = t.state /\ filled.byte_output = t.byte_output
       /\ filled.recv_window = t.recv_window /\ filled.seq_base = t.seq_base
       /\ filled.ack_base = t.ack_base /\ filled.send_window = window
       /\ filled.send_buffer = buffer
  BY DEF WellTyped, TCB, filled
<1>14. \A x \in u.socket : x \in t.socket \/ Piece(t, x)
  BY <1>8, <1>9, <1>12, <1>13
<1>15. Queued(u) = {queue[k] : k \in 1 .. Len(queue)}
  BY <1>12, <1>13 DEF Queued, queue
<1>16. QED
  BY <1>11, <1>12, <1>13, <1>14, <1>15 DEF u, amt, data, window, buffer, SameReceiver

(* What an ACK does to the sender (tcp.rs 227-247): nothing, if it is not  *)
(* new; or the window moves up to it, and is filled again.                 *)
LEMMA AcceptAckCases ==
    ASSUME NEW t, WellTyped(t), NEW seg \in Segment
    PROVE  LET u == accept_ack(t, seg)
               num == wrapping_sub(seg.ack_num, t.seq_base)
           IN  \/ ~ new_ack(t, seg) /\ u = t
               \/ /\ new_ack(t, seg)
                  /\ u.state = IF t.state = "Estab" THEN "Panicked" ELSE t.state
                  /\ u.seq_base = seg.ack_num
                  /\ u.send_window = t.send_window /\ u.send_buffer = t.send_buffer
                  /\ SameReceiver(t, u)
                  /\ u.socket = t.socket /\ Queued(u) \subseteq Queued(t)
               \/ /\ new_ack(t, seg) /\ t.state = "Estab"
                  /\ num \in 0 .. Len(t.send_window)
                  /\ \E d : /\ WellTyped(d) /\ u = fill_send_window(d)
                            /\ d.state = t.state /\ d.seq_base = seg.ack_num
                            /\ d.send_window = Dropped(t.send_window, num)
                            /\ d.send_buffer = t.send_buffer
                            /\ SameReceiver(t, d)
                            /\ d.socket = t.socket /\ Queued(d) \subseteq Queued(t)
<1> DEFINE num == wrapping_sub(seg.ack_num, t.seq_base)
           queue == retain_unacked(t.unacked_segs, seg.ack_num)
           window == Dropped(t.send_window, num)
           acked == [t EXCEPT !.unacked_segs = queue, !.seq_base = seg.ack_num]
           panicked == [acked EXCEPT !.state = "Panicked"]
           drained == [acked EXCEPT !.send_window = window]
<1>1. acked.send_window = t.send_window
  BY DEF WellTyped, TCB
<1>2. accept_ack(t, seg) =
        CASE ~ new_ack(t, seg) -> t
          [] new_ack(t, seg) /\ t.state # "Estab" -> acked
          [] new_ack(t, seg) /\ t.state = "Estab" /\ num > Len(t.send_window) -> panicked
          [] OTHER -> fill_send_window(drained)
  BY <1>1 DEF accept_ack
<1>3. queue \in Seq(Segment) /\ \A x \in {queue[k] : k \in 1 .. Len(queue)} : x \in Queued(t)
  <2>1. t.unacked_segs \in Seq(Segment)
    BY DEF WellTyped, TCB
  <2>2. /\ queue \in Seq(Segment)
        /\ \A k \in 1 .. Len(queue) : \E i \in 1 .. Len(t.unacked_segs) :
             queue[k] = t.unacked_segs[i]
    BY <2>1, RetainProperties
  <2> HIDE DEF queue
  <2>3. QED
    BY <2>2 DEF Queued
<1>4. num \in Nat /\ Len(t.send_window) \in Nat /\ t.send_window \in Seq(Byte)
  <2>1. seg.ack_num \in SeqNum /\ t.seq_base \in SeqNum /\ t.send_window \in Seq(Byte)
    BY DEF WellTyped, TCB, Segment
  <2>2. num \in SeqNum
    BY <2>1, WrappingType
  <2> HIDE DEF num
  <2>3. QED
    BY <2>1, <2>2, LenProperties, SeqSpaceAssumption DEF SeqNum
<1> HIDE DEF queue, num, window
<1>5. \A x \in {acked, panicked, drained} :
        /\ x.seq_base = seg.ack_num /\ x.send_buffer = t.send_buffer
        /\ SameReceiver(t, x) /\ x.socket = t.socket /\ x.unacked_segs = queue
  BY DEF WellTyped, TCB, SameReceiver
<1>6. /\ acked.state = t.state /\ panicked.state = "Panicked" /\ drained.state = t.state
      /\ panicked.send_window = t.send_window /\ drained.send_window = window
  BY DEF WellTyped, TCB
<1>7. ASSUME ~ num > Len(t.send_window)
      PROVE  num \in 0 .. Len(t.send_window) /\ WellTyped(drained)
  <2>1. num \in 0 .. Len(t.send_window)
    BY <1>4, <1>7
  <2>2. window \in Seq(Byte) /\ Len(window) = Len(t.send_window) - num
    BY <1>4, <2>1, DrainProperties DEF window
  <2>3. Len(window) <= WINDOW_SIZE
    BY <1>4, <2>1, <2>2, WindowAssumption DEF WellTyped
  <2>4. drained \in TCB
    BY <1>3, <2>2 DEF WellTyped, TCB, Segment
  <2>5. drained.send_window = window /\ drained.dupe_acks = t.dupe_acks
    BY DEF WellTyped, TCB
  <2>6. QED
    BY <2>1, <2>3, <2>4, <2>5 DEF WellTyped
<1>8. \A x \in {acked, panicked, drained} : Queued(x) \subseteq Queued(t)
  BY <1>3, <1>5 DEF Queued
<1> HIDE DEF acked, panicked, drained
<1> DEFINE u == accept_ack(t, seg)
<1>9. CASE ~ new_ack(t, seg)
  BY <1>2, <1>9
<1>10. CASE new_ack(t, seg) /\ t.state # "Estab"
  <2>1. u = acked
    BY <1>2, <1>10
  <2> HIDE DEF u
  <2>2. QED
    BY <1>1, <1>5, <1>6, <1>8, <1>10, <2>1 DEF u
<1>11. CASE new_ack(t, seg) /\ t.state = "Estab" /\ num > Len(t.send_window)
  <2>1. u = panicked
    BY <1>2, <1>11
  <2> HIDE DEF u
  <2>2. QED
    BY <1>5, <1>6, <1>8, <1>11, <2>1 DEF u
<1>12. CASE new_ack(t, seg) /\ t.state = "Estab" /\ ~ num > Len(t.send_window)
  <2>1. u = fill_send_window(drained)
    BY <1>2, <1>12
  <2> HIDE DEF u
  <2>2. QED
    BY <1>5, <1>6, <1>7, <1>8, <1>12, <2>1 DEF u, num, window
<1>13. QED
  BY <1>9, <1>10, <1>11, <1>12

(* A resend adds the head of the queue.                                    *)
LEMMA ResendSends ==
    ASSUME NEW t, WellTyped(t)
    PROVE  LET u == handle_resend(t)
           IN  /\ u.state = t.state /\ SameSender(t, u) /\ SameReceiver(t, u)
               /\ u.socket \subseteq t.socket \cup Queued(t)
<1> DEFINE head == Head(t.unacked_segs)
           u == resend_seg(t, head)
<1>1. t.unacked_segs # << >> => head \in Queued(t)
  <2>1. t.unacked_segs \in Seq(Segment) /\ Len(t.unacked_segs) \in Nat
    BY LenProperties DEF WellTyped, TCB
  <2>2. t.unacked_segs # << >> => Len(t.unacked_segs) # 0
    BY <2>1, EmptySeq
  <2>3. t.unacked_segs # << >> => 1 \in 1 .. Len(t.unacked_segs) /\ head = t.unacked_segs[1]
    BY <2>1, <2>2, HeadTailProperties
  <2>4. QED
    BY <2>3 DEF Queued
<1> HIDE DEF head
<1>2. /\ u.state = t.state /\ SameSender(t, u) /\ SameReceiver(t, u)
      /\ u.socket = t.socket \cup {head}
  BY DEF WellTyped, TCB, resend_seg, SameSender, SameReceiver
<1>3. handle_resend(t) = IF t.unacked_segs = << >> THEN t ELSE u
  BY DEF handle_resend, head
<1>4. SameSender(t, t) /\ SameReceiver(t, t)
  BY DEF SameSender, SameReceiver
<1> HIDE DEF u
<1>5. QED
  BY <1>1, <1>2, <1>3, <1>4

LEMMA CountDupeAckSends ==
    ASSUME NEW t, WellTyped(t), NEW seg \in Segment
    PROVE  LET u == count_dupe_ack(t, seg)
           IN  /\ u.state = t.state /\ SameSender(t, u) /\ SameReceiver(t, u)
               /\ u.socket \subseteq t.socket \cup Queued(t)
               /\ t.state # "Estab" => u = t
<1> DEFINE u == count_dupe_ack(t, seg)
           r == handle_resend(t)
           resent == [r EXCEPT !.dupe_acks = 0]
           counted == [t EXCEPT !.dupe_acks = @ + 1]
<1>1. u \in {t, resent, counted} /\ (t.state # "Estab" => u = t)
  BY DEF count_dupe_ack
<1>2. /\ WellTyped(r) /\ r.state = t.state /\ SameSender(t, r) /\ SameReceiver(t, r)
      /\ r.socket \subseteq t.socket \cup Queued(t)
  BY HandleResendType, ResendSends
<1> HIDE DEF u, r
<1>3. /\ resent.state = r.state /\ SameSender(r, resent) /\ SameReceiver(r, resent)
      /\ resent.socket = r.socket
  BY <1>2 DEF WellTyped, TCB, SameSender, SameReceiver
<1>4. /\ counted.state = t.state /\ SameSender(t, counted) /\ SameReceiver(t, counted)
      /\ counted.socket = t.socket
  BY DEF WellTyped, TCB, SameSender, SameReceiver
<1>5. SameSender(t, resent) /\ SameReceiver(t, resent)
  BY <1>2, <1>3 DEF SameSender, SameReceiver
<1>6. SameSender(t, t) /\ SameReceiver(t, t)
  BY DEF SameSender, SameReceiver
<1> HIDE DEF resent, counted
<1>7. QED
  BY <1>1, <1>2, <1>3, <1>4, <1>5, <1>6 DEF u

(* handle_payload leaves the sender alone, and sends an ACK of what has    *)
(* come when the segment is the one expected next.                         *)
LEMMA HandlePayloadSends ==
    ASSUME NEW t, WellTyped(t), NEW seg \in Segment
    PROVE  LET u == handle_payload(t, seg)
           IN  /\ t.state # "Estab" => u = t
               /\ u.state \in {t.state, "Panicked"}
               /\ SameSender(t, u)
               /\ \/ u.socket = t.socket
                  \/ /\ t.state = "Estab" /\ seg.seq_num = t.ack_base /\ u.state = "Estab"
                     /\ u.socket = t.socket \cup {delivery_ack(u)}
<1> DEFINE u == handle_payload(t, seg)
           panicked == [t EXCEPT !.state = "Panicked"]
<1>1. t.state # "Estab" => u = t
  BY DEF handle_payload
<1>2. SameSender(t, t) /\ SameSender(t, panicked) /\ panicked.socket = t.socket
      /\ panicked.state = "Panicked"
  BY DEF WellTyped, TCB, SameSender
<1> HIDE DEF u, panicked
<1>3. ASSUME NEW s, WellTyped(s), Stored(t, seg, s),
             u = send_ack(deliver_prefix(s), delivery_ack(deliver_prefix(s)))
      PROVE  /\ u.state = t.state /\ SameSender(t, u)
             /\ u.socket = t.socket \cup {delivery_ack(u)}
  <2> DEFINE v == deliver_prefix(s)
  <2>1. WellTyped(v)
    BY <1>3, DeliverPrefixType
  <2>2. v.state = s.state /\ v.socket = s.socket /\ SameSender(s, v)
    BY <1>3 DEF WellTyped, TCB, deliver_prefix, SameSender
  <2>3. u = send_ack(v, delivery_ack(v))
    BY <1>3
  <2> HIDE DEF v
  <2>4. /\ u.state = v.state /\ SameSender(v, u) /\ u.ack_base = v.ack_base
        /\ u.socket = v.socket \cup {delivery_ack(v)}
    BY <2>1, <2>3 DEF WellTyped, TCB, send_ack, resend_seg, SameSender
  <2>5. delivery_ack(u) = delivery_ack(v)
    BY <2>4 DEF delivery_ack
  <2>6. s.state = t.state /\ s.socket = t.socket /\ SameSender(t, s)
    BY <1>3 DEF Stored
  <2>7. QED
    BY <2>2, <2>4, <2>5, <2>6 DEF SameSender
<1>4. ASSUME NEW s, Stored(t, seg, s)
      PROVE  s.state = t.state /\ SameSender(t, s) /\ s.socket = t.socket
  BY <1>4 DEF Stored
<1>5. \/ u = t \/ u = panicked
      \/ /\ t.state = "Estab"
         /\ \E s : /\ WellTyped(s) /\ Stored(t, seg, s)
                   /\ \/ u = s
                      \/ /\ acknowledged(t, seg)
                         /\ u = send_ack(deliver_prefix(s), delivery_ack(deliver_prefix(s)))
  BY HandlePayloadCases DEF u, panicked
<1>6. acknowledged(t, seg) => seg.seq_num = t.ack_base
  BY DEF acknowledged
<1>7. CASE u = t \/ u = panicked
  BY <1>1, <1>2, <1>7 DEF u
<1>8. CASE \E s : Stored(t, seg, s) /\ u = s
  BY <1>1, <1>4, <1>8 DEF u
<1>9. CASE \E s : /\ WellTyped(s) /\ Stored(t, seg, s) /\ acknowledged(t, seg)
                  /\ u = send_ack(deliver_prefix(s), delivery_ack(deliver_prefix(s)))
                  /\ t.state = "Estab"
  BY <1>3, <1>6, <1>9 DEF u
<1>10. QED
  BY <1>5, <1>7, <1>8, <1>9

\* what t has sent is in P, and what it may send again in Q
Within(P, Q, t) == t.socket \subseteq P /\ Queued(t) \subseteq Q

LEMMA FillWithin ==
    ASSUME NEW t, WellTyped(t), NEW P, NEW Q \in SUBSET P, Within(P, Q, t),
           t.state = "Estab" => \A seg \in Segment : Piece(t, seg) => seg \in Q
    PROVE  Within(P, Q, fill_send_window(t))
<1> DEFINE u == fill_send_window(t)
<1>1. CASE t.state # "Estab"
  BY <1>1 DEF fill_send_window
<1>2. CASE t.state = "Estab"
  <2>1. /\ \A seg \in u.socket : seg \in t.socket \/ Piece(t, seg)
        /\ \A seg \in Queued(u) : seg \in Queued(t) \/ Piece(t, seg)
    BY <1>2, FillSends
  <2>2. u.socket \subseteq Segment /\ Queued(u) \subseteq Segment
    <3>1. WellTyped(u)
      BY FillSendWindowType
    <3> HIDE DEF u
    <3>2. u.socket \subseteq Segment /\ u.unacked_segs \in Seq(Segment)
      BY <3>1 DEF WellTyped, TCB
    <3>3. QED
      BY <3>2, ElementOfSeq DEF Queued
  <2> HIDE DEF u
  <2>3. QED
    BY <1>2, <2>1, <2>2 DEF Within, u
<1>3. QED
  BY <1>1, <1>2

LEMMA SendWithin ==
    ASSUME NEW t, WellTyped(t), NEW data \in Seq(Byte), NEW P, NEW Q \in SUBSET P,
           Within(P, Q, t), \A x : \A seg \in Segment : Piece(x, seg) => seg \in Q
    PROVE  Within(P, Q, send(t, data))
<1> DEFINE buffer == t.send_buffer \o data
           u == [t EXCEPT !.send_buffer = buffer]
<1>1. buffer \in Seq(Byte)
  BY ConcatProperties DEF WellTyped, TCB
<1>2. send(t, data) = fill_send_window(u)
  BY DEF send
<1> HIDE DEF buffer
<1>3. WellTyped(u) /\ u.socket = t.socket /\ u.unacked_segs = t.unacked_segs
  BY <1>1 DEF WellTyped, TCB
<1> HIDE DEF u
<1>4. Within(P, Q, u)
  BY <1>3 DEF Within, Queued
<1>5. QED
  BY <1>2, <1>3, <1>4, FillWithin

LEMMA CloseWithin ==
    ASSUME NEW t, WellTyped(t), NEW P, NEW Q \in SUBSET P, Within(P, Q, t),
           [make_seg EXCEPT !.flags = {"FIN"}, !.seq_num = t.seq_base] \in Q
    PROVE  Within(P, Q, send_close(t))
<1> DEFINE fin == [make_seg EXCEPT !.flags = {"FIN"}, !.seq_num = t.seq_base]
           u == send_seg(t, fin)
<1>1. fin \in Segment
  BY MakeSegType DEF WellTyped, TCB, Segment, Flag
<1>2. send_close(t) = [u EXCEPT !.state = "Closed"]
  BY DEF send_close
<1>3. fin \in Q
  OBVIOUS
<1> HIDE DEF fin
<1>4. WellTyped(u) /\ u.socket = t.socket \cup {fin}
  BY <1>1, SendSegType DEF WellTyped, TCB, send_seg, resend_seg
<1>5. \A x \in Queued(u) : x = fin \/ x \in Queued(t)
  BY <1>1, AppendQueued
<1> HIDE DEF u
<1>6. /\ send_close(t).socket = u.socket /\ send_close(t).unacked_segs = u.unacked_segs
  BY <1>2, <1>4 DEF WellTyped, TCB
<1>7. QED
  BY <1>3, <1>4, <1>5, <1>6 DEF Within, Queued

LEMMA ResendWithin ==
    ASSUME NEW t, WellTyped(t), NEW P, NEW Q \in SUBSET P, Within(P, Q, t)
    PROVE  Within(P, Q, handle_resend(t))
<1> DEFINE u == handle_resend(t)
<1>1. SameSender(t, u) /\ u.socket \subseteq t.socket \cup Queued(t)
  BY ResendSends
<1> HIDE DEF u
<1>2. QED
  BY <1>1 DEF Within, SameSender, Queued, u

LEMMA AcksWithin ==
    ASSUME NEW t, WellTyped(t), NEW seg \in Segment, NEW P, NEW Q \in SUBSET P,
           Within(P, Q, t), \A x : \A s \in Segment : Piece(x, s) => s \in Q
    PROVE  Within(P, Q, handle_acks(t, seg))
<1> DEFINE a == accept_ack(t, seg)
           u == count_dupe_ack(a, seg)
<1>1. Within(P, Q, a)
  <2>1. \/ a = t
        \/ a.socket = t.socket /\ Queued(a) \subseteq Queued(t)
        \/ \E d : /\ WellTyped(d) /\ a = fill_send_window(d)
                  /\ d.socket = t.socket /\ Queued(d) \subseteq Queued(t)
    BY AcceptAckCases
  <2> HIDE DEF a
  <2>2. CASE \E d : /\ WellTyped(d) /\ a = fill_send_window(d)
                    /\ d.socket = t.socket /\ Queued(d) \subseteq Queued(t)
    <3>1. PICK d : /\ WellTyped(d) /\ a = fill_send_window(d)
                   /\ d.socket = t.socket /\ Queued(d) \subseteq Queued(t)
      BY <2>2
    <3>2. Within(P, Q, d)
      BY <3>1 DEF Within
    <3>3. QED
      BY <3>1, <3>2, FillWithin
  <2>3. QED
    BY <2>1, <2>2 DEF Within
<1>2. WellTyped(a)
  BY AcceptAckType
<1> HIDE DEF a
<1>3. SameSender(a, u) /\ u.socket \subseteq a.socket \cup Queued(a)
  BY <1>2, CountDupeAckSends
<1>4. handle_acks(t, seg) = u
  BY DEF handle_acks, a
<1> HIDE DEF u
<1>5. QED
  BY <1>1, <1>3, <1>4 DEF Within, SameSender, Queued

LEMMA ShakeWithin ==
    ASSUME NEW t, WellTyped(t), NEW seg \in Segment, NEW P, NEW Q \in SUBSET P,
           Within(P, Q, t), \A x : \A s \in Segment : Piece(x, s) => s \in Q,
           t.state # "SynSent",
           t.state = "Listen" /\ "SYN" \in seg.flags =>
               [make_seg EXCEPT !.flags = {"SYN", "ACK"}, !.seq_num = t.seq_base,
                                !.ack_num = peer_next(seg)] \in Q
    PROVE  Within(P, Q, handle_shake(t, seg))
<1> DEFINE synack == [make_seg EXCEPT !.flags = {"SYN", "ACK"},
                                      !.seq_num = t.seq_base, !.ack_num = peer_next(seg)]
           listened == [t EXCEPT !.state = "SynRecd", !.ack_base = peer_next(seg)]
           acked == [t EXCEPT !.state = "Estab"]
           u == handle_shake(t, seg)
           v == send_seg(listened, synack)
<1>1. peer_next(seg) \in SeqNum
  <2>1. seg.seq_num \in SeqNum /\ 1 \in SeqNum
    BY WindowAssumption, SeqSpaceAssumption DEF SeqNum, Segment
  <2>2. QED
    BY <2>1, WrappingType DEF peer_next
<1>2. synack \in Segment
  BY <1>1, MakeSegType DEF WellTyped, TCB, Segment, Flag
<1>3. /\ WellTyped(listened) /\ WellTyped(acked)
      /\ listened.socket = t.socket /\ listened.unacked_segs = t.unacked_segs
      /\ acked.socket = t.socket /\ acked.unacked_segs = t.unacked_segs
  BY <1>1 DEF WellTyped, TCB, TCBState
<1>4. \/ t.state = "Listen" /\ "SYN" \in seg.flags /\ synack \in Q /\ u = v
      \/ u = fill_send_window(acked)
      \/ u = t
  BY DEF handle_shake
<1> HIDE DEF synack, listened, acked, u
<1>5. CASE synack \in Q /\ u = v
  <2>1. v.socket = listened.socket \cup {synack}
    BY <1>2, <1>3 DEF WellTyped, TCB, send_seg, resend_seg
  <2>2. \A x \in Queued(v) : x = synack \/ x \in Queued(listened)
    BY <1>2, <1>3, AppendQueued
  <2> HIDE DEF v
  <2>3. QED
    BY <1>3, <1>5, <2>1, <2>2 DEF Within, Queued, u
<1>6. CASE u = fill_send_window(acked)
  <2>1. Within(P, Q, acked)
    BY <1>3 DEF Within, Queued
  <2>2. QED
    BY <1>3, <1>6, <2>1, FillWithin DEF u
<1>7. QED
  BY <1>4, <1>5, <1>6 DEF u

(* An end that has sent no SYN of its own sends nothing in the first two   *)
(* parts of handle_seg but pieces of its buffer, what waits in its queue   *)
(* and the answer to a SYN.                                                *)
LEMMA ShakenWithin ==
    ASSUME NEW t, WellTyped(t), NEW seg \in Segment, NEW P, NEW Q \in SUBSET P,
           Within(P, Q, t), \A x : \A s \in Segment : Piece(x, s) => s \in Q,
           t.state # "SynSent",
           t.state = "Listen" /\ "SYN" \in seg.flags =>
               \A n \in SeqNum : [make_seg EXCEPT !.flags = {"SYN", "ACK"}, !.seq_num = n,
                                                  !.ack_num = peer_next(seg)] \in Q
    PROVE  LET u == handle_shake(handle_acks(t, seg), seg)
           IN  WellTyped(u) /\ Within(P, Q, u)
<1> DEFINE a == handle_acks(t, seg)
<1>1. WellTyped(a) /\ Within(P, Q, a)
  BY HandleAcksType, AcksWithin
<1>2. a.state \in {t.state, "Panicked"}
  <2> DEFINE b == accept_ack(t, seg)
  <2>1. WellTyped(b) /\ b.state \in {t.state, "Panicked"}
    <3>1. WellTyped(b)
      BY AcceptAckType
    <3>2. \/ b = t \/ b.state \in {t.state, "Panicked"}
          \/ \E d : WellTyped(d) /\ b = fill_send_window(d) /\ d.state = t.state
      BY AcceptAckCases
    <3>3. ASSUME NEW d, WellTyped(d) PROVE fill_send_window(d).state = d.state
      <4>1. d.state = "Estab" => fill_send_window(d).state = d.state
        BY <3>3, FillSends
      <4>2. QED
        BY <4>1 DEF fill_send_window
    <3>4. QED
      BY <3>1, <3>2, <3>3
  <2> HIDE DEF b
  <2>2. count_dupe_ack(b, seg).state = b.state
    BY <2>1, CountDupeAckSends
  <2>3. QED
    BY <2>1, <2>2 DEF handle_acks, b
<1> HIDE DEF a
<1>3. a.seq_base \in SeqNum
  BY <1>1 DEF WellTyped, TCB
<1>4. a.state # "SynSent" /\ (a.state = "Listen" => t.state = "Listen")
  BY <1>2
<1>5. Within(P, Q, handle_shake(a, seg)) /\ WellTyped(handle_shake(a, seg))
  BY <1>1, <1>3, <1>4, ShakeWithin, HandleShakeType
<1>6. QED
  BY <1>5 DEF a

=============================================================================
