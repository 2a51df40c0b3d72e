-------------------------- MODULE DeliveryTheorems --------------------------
(***************************************************************************)
(* What a connection guarantees, for every window, payload size, sequence  *)
(* space, pair of streams and network: the invariant of Delivery, and what *)
(* follows from it.                                                        *)
(***************************************************************************)
EXTENDS DeliveryProofs

-----------------------------------------------------------------------------
(* The invariant.                                                          *)

HoldsAt(e) ==
    Holds(e, tcb[e], handed[e], Len(tcb[peer(e)].byte_output), SentBy(peer(e), tcb[peer(e)]))

(* DeliveryInvariant, said as the lemmas about one endpoint need it.       *)
LEMMA InvariantByEndpoint ==
    TypeOK => (DeliveryInvariant <=> \A e \in Endpoint : HoldsAt(e) /\ Silence(e))
<1> SUFFICES ASSUME TypeOK
             PROVE  DeliveryInvariant <=> \A e \in Endpoint : HoldsAt(e) /\ Silence(e)
  OBVIOUS
<1>1. /\ \A e \in Endpoint : WellTyped(tcb[e])
      /\ handed \in [Endpoint -> Nat]
      /\ \A e \in Endpoint : handed[e] <= Len(Stream[e])
  BY TypeOKByEndpoint
<1>2. \A e \in Endpoint : /\ Len(Stream[e]) \in Nat
                          /\ handed[e] \in 0 .. Len(Stream[e])
                          /\ Len(tcb[e].byte_output) \in Nat
                          /\ peer(e) \in Endpoint
  BY <1>1, Numbers, Fields, PeerProperties
<1>3. ASSUME NEW e \in Endpoint, SendSide(e, tcb[e], handed[e])
      PROVE  SentBy(e, tcb[e]) \in 0 .. Len(Stream[e])
  <2>1. /\ Len(tcb[e].send_window) \in Nat /\ Len(tcb[e].send_buffer) \in Nat
        /\ tcb[e].seq_base \in SeqNum
    BY <1>1, Fields
  <2>2. AckedBy(e, tcb[e]) \in Nat
    BY <2>1, AckedProperties
  <2>3. SentBy(e, tcb[e]) \in Nat
    BY <2>1, <2>2 DEF SentBy
  <2>4. SentBy(e, tcb[e]) + Len(tcb[e].send_buffer) = handed[e]
    BY <1>3 DEF SendSide
  <2>5. handed[e] <= Len(Stream[e]) /\ Len(Stream[e]) \in Nat
    BY <1>1, <1>2
  <2>6. QED
    BY <2>1, <2>3, <2>4, <2>5
<1>4. ASSUME DeliveryInvariant
      PROVE  \A e \in Endpoint : HoldsAt(e) /\ Silence(e)
  <2>1. \A e \in Endpoint : SentBy(e, tcb[e]) \in 0 .. Len(Stream[e])
    BY <1>3, <1>4 DEF DeliveryInvariant, InStep
  <2>2. QED
    BY <1>1, <1>2, <1>4, <2>1 DEF DeliveryInvariant, HoldsAt, Holds
<1>5. ASSUME \A e \in Endpoint : HoldsAt(e) /\ Silence(e)
      PROVE  DeliveryInvariant
  BY <1>5 DEF DeliveryInvariant, HoldsAt, Holds
<1>6. QED
  BY <1>4, <1>5

(* What the peer has been given and has sent may grow.                     *)
LEMMA PeerGrows ==
    ASSUME NEW e \in Endpoint, NEW t, NEW given, NEW got, NEW sent,
           Holds(e, t, given, got, sent),
           NEW got2 \in Nat, got <= got2, got2 <= SentBy(e, t),
           NEW sent2 \in 0 .. Len(Stream[peer(e)]), sent <= sent2
    PROVE  Holds(e, t, given, got2, sent2)
<1>1. /\ AckedBy(e, t) \in Nat /\ AckedBy(e, t) <= got /\ got \in Nat
      /\ sent \in Nat /\ Len(t.byte_output) \in Nat /\ Len(t.byte_output) <= sent
  BY Positions, Fields DEF Holds
<1>2. sent2 \in Nat
  BY Numbers, PeerProperties
<1>3. AckedBy(e, t) <= got2
  BY <1>1
<1>4. HoldsStream(e, t, sent2)
  <2>1. \A i \in Slot : t.recv_window[i] # None =>
           /\ Len(t.byte_output) + i + 1 <= sent2
           /\ t.recv_window[i] = Stream[peer(e)][Len(t.byte_output) + i + 1]
    <3> TAKE i \in Slot
    <3> HAVE t.recv_window[i] # None
    <3>1. /\ Len(t.byte_output) + i + 1 <= sent
          /\ t.recv_window[i] = Stream[peer(e)][Len(t.byte_output) + i + 1]
      BY DEF Holds, InStep, ReceiveSide, HoldsStream
    <3>2. i \in Nat
      BY DEF Slot
    <3>3. QED
      BY <1>1, <1>2, <3>1, <3>2
  <2>2. Len(t.byte_output) <= sent2
    BY <1>1, <1>2
  <2>3. QED
    BY <2>1, <2>2 DEF Holds, InStep, ReceiveSide, HoldsStream
<1>5. QED
  BY <1>3, <1>4 DEF Holds, InStep, ReceiveSide

(* A step of e is right for both ends if it is right for e: all that its   *)
(* peer sees of it are numbers that grow and datagrams taken out.          *)
LEMMA StepOfOne ==
    ASSUME NEW e \in Endpoint, \A f \in Endpoint : HoldsAt(f),
           WellTyped(tcb'[peer(e)]), SameButOutput(tcb[peer(e)], tcb'[peer(e)]),
           tcb'[peer(e)].socket \subseteq tcb[peer(e)].socket,
           tcb'[peer(e)].unacked_segs = tcb[peer(e)].unacked_segs,
           handed'[peer(e)] = handed[peer(e)],
           Holds(e, tcb'[e], handed'[e],
                 Len(tcb[peer(e)].byte_output), SentBy(peer(e), tcb[peer(e)])),
           Grows(e, tcb[e], tcb'[e])
    PROVE  \A f \in Endpoint : HoldsAt(f)'
<1> DEFINE p == peer(e)
           t == tcb[e]
           u == tcb'[e]
           q == tcb[p]
           r == tcb'[p]
<1>1. /\ p \in Endpoint /\ peer(p) = e /\ \A f \in Endpoint : f = e \/ f = p
  BY PeerProperties DEF Endpoint, peer
<1>2. /\ r.byte_output = q.byte_output /\ SentBy(p, r) = SentBy(p, q)
  BY DEF SameButOutput, SentBy, AckedBy
<1>3. Holds(p, q, handed[p], Len(t.byte_output), SentBy(e, t))
  BY <1>1 DEF HoldsAt
<1>4. Holds(e, u, handed'[e], Len(q.byte_output), SentBy(p, q))
  OBVIOUS
<1>5. Holds(p, r, handed[p], Len(t.byte_output), SentBy(e, t))
  <2>1. /\ \A s \in r.socket : Sound(p, q, s)
        /\ \A k \in 1 .. Len(r.unacked_segs) : Sound(p, q, r.unacked_segs[k])
    BY <1>3 DEF Holds, InStep, SoundOutput
  <2>2. WellTyped(r) /\ SameButOutput(q, r)
    OBVIOUS
  <2> HIDE DEF p, q, r, t
  <2>3. QED
    BY <1>1, <1>3, <2>1, <2>2, OutputStep
<1>6. HoldsAt(e)'
  BY <1>2, <1>4 DEF HoldsAt
<1>7. HoldsAt(p)'
  <2>1. Len(t.byte_output) <= Len(u.byte_output) /\ SentBy(e, t) <= SentBy(e, u)
    BY DEF Grows
  <2> HIDE DEF p, q, r, t, u
  <2>2. /\ Len(u.byte_output) \in Nat /\ Len(u.byte_output) <= SentBy(p, q)
    BY <1>4, Fields DEF Holds, InStep, ReceiveSide, HoldsStream
  <2>3. SentBy(e, u) \in 0 .. Len(Stream[e])
    <3>1. /\ SentBy(e, u) \in Nat /\ SentBy(e, u) <= handed'[e]
          /\ handed'[e] <= Len(Stream[e]) /\ handed'[e] \in Nat
      BY <1>4, Positions
    <3>2. Len(Stream[e]) \in Nat
      BY Numbers
    <3>3. QED
      BY <3>1, <3>2
  <2>4. Holds(p, r, handed[p], Len(u.byte_output), SentBy(e, u))
    <3>1. Len(u.byte_output) <= SentBy(p, r)
      BY <1>2, <2>2
    <3>2. QED
      BY <1>1, <1>5, <2>1, <2>2, <2>3, <3>1, PeerGrows
  <2>5. QED
    BY <1>1, <2>4 DEF HoldsAt, p, r, u
<1>8. QED
  BY <1>1, <1>6, <1>7

(* The invariant holds of two new TCBs.                                    *)
LEMMA InitHolds == Init => DeliveryInvariant
<1> SUFFICES ASSUME Init, NEW e \in Endpoint
             PROVE  /\ InStep(e, tcb[e], handed[e], Len(tcb[peer(e)].byte_output),
                              SentBy(peer(e), tcb[peer(e)]))
                    /\ Silence(e)
  BY DEF DeliveryInvariant
<1>1. peer(e) \in Endpoint
  BY PeerProperties
<1>2. /\ tcb[e] = new(InitialSeq[e]) /\ tcb[peer(e)] = new(InitialSeq[peer(e)])
      /\ handed[e] = 0
  BY <1>1 DEF Init
<1>3. Len(<< >>) = 0
  BY EmptySeq
<1>4. /\ AckedBy(e, tcb[e]) = 0 /\ SentBy(e, tcb[e]) = 0
      /\ SentBy(peer(e), tcb[peer(e)]) = 0 /\ Len(tcb[peer(e)].byte_output) = 0
  BY <1>2, <1>3 DEF AckedBy, SentBy, new
<1>5. Phase(e, tcb[e])
  BY <1>2, <1>4 DEF Phase, Greeting, new
<1>6. SoundOutput(e, tcb[e])
  BY <1>2, <1>3 DEF SoundOutput, new
<1>7. SendSide(e, tcb[e], handed[e])
  BY <1>2, <1>3, <1>4 DEF SendSide, new
<1>8. ReceiveSide(e, tcb[e], 0)
  <2>1. 0 \in Slot
    BY Numbers DEF Slot
  <2>2. QED
    BY <1>2, <1>3, <2>1 DEF ReceiveSide, HoldsStream, new
<1>9. Silence(e)
  BY <1>2, <1>3 DEF Silence, new
<1>10. QED
  BY <1>4, <1>5, <1>6, <1>7, <1>8, <1>9 DEF InStep

(* A step that rewrites the TCB of e alone is right if it is right for e.  *)
LEMMA OwnStep ==
    ASSUME TypeOK, NEW e \in Endpoint, \A f \in Endpoint : HoldsAt(f),
           NEW u, tcb' = [tcb EXCEPT ![e] = u], handed'[peer(e)] = handed[peer(e)],
           Holds(e, u, handed'[e], Len(tcb[peer(e)].byte_output), SentBy(peer(e), tcb[peer(e)])),
           Grows(e, tcb[e], u)
    PROVE  /\ \A f \in Endpoint : HoldsAt(f)'
           /\ tcb'[e] = u
           /\ tcb'[peer(e)] = tcb[peer(e)]
<1>1. peer(e) \in Endpoint /\ peer(e) # e
  BY PeerProperties
<1>2. tcb'[e] = u /\ tcb'[peer(e)] = tcb[peer(e)]
  BY <1>1 DEF TypeOK
<1>3. WellTyped(tcb'[peer(e)]) /\ SameButOutput(tcb[peer(e)], tcb'[peer(e)])
  BY <1>1, <1>2, TypeOKByEndpoint DEF SameButOutput
<1>4. \A f \in Endpoint : HoldsAt(f)'
  BY <1>2, <1>3, StepOfOne
<1>5. QED
  BY <1>2, <1>4

(* Whichever datagram in flight is received, handle_seg finds what it      *)
(* relies on.                                                              *)
LEMMA ReceivePremises ==
    ASSUME TypeOK, DeliveryInvariant, NEW e \in Endpoint,
           NEW seg \in tcb[peer(e)].socket, Receive(e, seg)
    PROVE  LET p == peer(e)
               t == tcb[e]
               q == tcb[p]
               u == handle_seg(t, seg)
           IN  /\ Sound(p, q, seg)
               /\ Incoming(e, seg, Len(q.byte_output), SentBy(p, q))
               /\ SentBy(p, q) <= Len(t.byte_output) + WINDOW_SIZE
               /\ t.state # "Closed"
               /\ t.state = "Listen" => seg.flags = {"SYN"}
               /\ Holds(e, u, handed[e], Len(q.byte_output), SentBy(p, q)) /\ Grows(e, t, u)
               /\ tcb'[e] = u
               /\ tcb'[p] = [q EXCEPT !.socket = IF Duplicating THEN @ ELSE @ \ {seg}]
               /\ WellTyped(tcb'[p]) /\ SameButOutput(q, tcb'[p])
               /\ tcb'[p].socket \subseteq q.socket /\ tcb'[p].unacked_segs = q.unacked_segs
               /\ handed' = handed
<1> DEFINE p == peer(e)
           t == tcb[e]
           q == tcb[p]
           u == handle_seg(t, seg)
           S == IF Duplicating THEN q.socket ELSE q.socket \ {seg}
           got == Len(q.byte_output)
           sent == SentBy(p, q)
<1>1. /\ p \in Endpoint /\ p # e /\ peer(p) = e
      /\ \A f \in Endpoint : WellTyped(tcb[f])
      /\ \A f \in Endpoint : HoldsAt(f) /\ Silence(f)
  BY PeerProperties, TypeOKByEndpoint, InvariantByEndpoint
<1>2. Holds(e, t, handed[e], got, sent) /\ Holds(p, q, handed[p], Len(t.byte_output), SentBy(e, t))
  BY <1>1 DEF HoldsAt
<1>3. Sound(p, q, seg)
  BY <1>2 DEF Holds, InStep, SoundOutput
<1>4. Incoming(e, seg, got, sent)
  BY <1>2, <1>3, SoundIsIncoming
<1>5. sent <= Len(t.byte_output) + WINDOW_SIZE
  BY <1>1, <1>2, Positions
<1>6. t.state # "Closed"
  BY DEF Receive, Running
<1>7. 0 \in Nat /\ 0 < SEQ_SPACE /\ q.seq_base \in SeqNum
  BY <1>1, Numbers, Fields
<1>8. t.state = "Listen" => seg.flags = {"SYN"}
  <2>1. t.state = "Listen" => seg = Syn(p)
    BY <1>1 DEF Silence
  <2>2. Syn(p).flags = {"SYN"}
    <3>1. Syn(p) = [seq_num |-> InitialSeq[p], ack_num |-> 0, flags |-> {"SYN"}, payload |-> << >>]
      BY <1>1, <1>7, ControlProperties
    <3>2. QED
      BY <3>1
  <2>3. QED
    BY <2>1, <2>2
<1>9. /\ tcb' = [tcb EXCEPT ![e] = u, ![p].socket = S]
      /\ handed' = handed
  BY <1>1 DEF Receive, TypeOK
<1>10. tcb'[e] = u /\ tcb'[p] = [q EXCEPT !.socket = S]
  BY <1>1, <1>9 DEF TypeOK
<1>11. S \subseteq q.socket
  OBVIOUS
<1>12. tcb'[p] = [q EXCEPT !.socket = IF Duplicating THEN @ ELSE @ \ {seg}]
  BY <1>10
<1> HIDE DEF S, u
<1>13. /\ WellTyped(tcb'[p]) /\ SameButOutput(q, tcb'[p])
       /\ tcb'[p].socket \subseteq q.socket /\ tcb'[p].unacked_segs = q.unacked_segs
  BY <1>1, <1>10, <1>11, ZenonT(40) DEF WellTyped, TCB, SameButOutput
<1>14. Holds(e, u, handed[e], got, sent) /\ Grows(e, t, u)
  <2> HIDE DEF t, got, sent
  <2>1. QED
    BY <1>2, <1>4, <1>5, <1>6, <1>8, HandleSegStep DEF u
<1>15. QED
  BY <1>3, <1>4, <1>5, <1>6, <1>8, <1>9, <1>10, <1>12, <1>13, <1>14 DEF u

(* What receiving a datagram does, whichever of those in flight it is.     *)
LEMMA ReceiveEffect ==
    ASSUME TypeOK, DeliveryInvariant, NEW e \in Endpoint,
           NEW seg \in tcb[peer(e)].socket, Receive(e, seg)
    PROVE  /\ \A f \in Endpoint : HoldsAt(f)'
           /\ SameButOutput(tcb[peer(e)], tcb'[peer(e)])
           /\ Grows(e, tcb[e], tcb'[e])
           /\ tcb'[e].state # "Listen"
           /\ tcb'[e].state = "Closed" <=> "FIN" \in seg.flags
           /\ "FIN" \in seg.flags => /\ tcb'[e].byte_output = tcb[e].byte_output
                                     /\ tcb[peer(e)].state = "Closed"
           /\ wrapping_sub(tcb'[e].seq_base, tcb[e].seq_base) <= WINDOW_SIZE
           /\ tcb[e].state = "Estab" =>
                wrapping_sub(tcb'[e].ack_base, tcb[e].ack_base) <= WINDOW_SIZE
<1> DEFINE p == peer(e)
           t == tcb[e]
           q == tcb[p]
           u == handle_seg(t, seg)
           got == Len(q.byte_output)
           sent == SentBy(p, q)
<1>1. /\ p \in Endpoint /\ p # e /\ peer(p) = e
      /\ \A f \in Endpoint : WellTyped(tcb[f])
      /\ \A f \in Endpoint : HoldsAt(f) /\ Silence(f)
  BY PeerProperties, TypeOKByEndpoint, InvariantByEndpoint
<1>2. /\ Sound(p, q, seg) /\ Incoming(e, seg, got, sent)
      /\ sent <= Len(t.byte_output) + WINDOW_SIZE /\ t.state # "Closed"
      /\ t.state = "Listen" => seg.flags = {"SYN"}
      /\ tcb'[e] = u /\ handed' = handed
      /\ WellTyped(tcb'[p]) /\ SameButOutput(q, tcb'[p])
      /\ tcb'[p].socket \subseteq q.socket /\ tcb'[p].unacked_segs = q.unacked_segs
  BY ReceivePremises
<1>3. "FIN" \in seg.flags => q.state = "Closed"
  <2>1. /\ "FIN" \notin Syn(p).flags /\ "FIN" \notin SynAck(p).flags
    BY DEF Syn, SynAck, make_seg
  <2>2. \A n : "FIN" \notin PureAck(p, n).flags
    BY DEF PureAck, make_seg
  <2>3. \A i, n : "FIN" \notin Data(p, i, n).flags
    BY DEF Data, make_seg
  <2>4. QED
    BY <1>2, <2>1, <2>2, <2>3 DEF Sound
<1> HIDE DEF u
<1>4. /\ Holds(e, u, handed[e], got, sent) /\ Grows(e, t, u)
      /\ u.state # "Listen"
      /\ u.state = "Closed" <=> "FIN" \in seg.flags
      /\ "FIN" \in seg.flags => u.byte_output = t.byte_output
      /\ wrapping_sub(u.seq_base, t.seq_base) <= WINDOW_SIZE
      /\ t.state = "Estab" => wrapping_sub(u.ack_base, t.ack_base) <= WINDOW_SIZE
  <2>1. Holds(e, t, handed[e], got, sent)
    BY <1>1 DEF HoldsAt
  <2> HIDE DEF t, got, sent
  <2>2. QED
    BY <1>2, <2>1, HandleSegStep DEF u
<1>5. \A f \in Endpoint : HoldsAt(f)'
  BY <1>1, <1>2, <1>4, StepOfOne
<1>6. QED
  BY <1>2, <1>3, <1>4, <1>5

(* Every step keeps the invariant: the step of one endpoint leaves its own *)
(* part of it intact, and the other's, since its numbers only grow.        *)
LEMMA StepHolds == TypeOK /\ DeliveryInvariant /\ [Next]_vars => DeliveryInvariant'
<1> SUFFICES ASSUME TypeOK, DeliveryInvariant, [Next]_vars PROVE DeliveryInvariant'
  OBVIOUS
<1>1. /\ \A e \in Endpoint : HoldsAt(e) /\ Silence(e)
      /\ \A e \in Endpoint : /\ peer(e) \in Endpoint /\ peer(e) # e /\ peer(peer(e)) = e
                             /\ \A f \in Endpoint : f = e \/ f = peer(e)
      /\ handed \in [Endpoint -> Nat]
      /\ \A e \in Endpoint : WellTyped(tcb[e])
  BY InvariantByEndpoint, PeerProperties, TypeOKByEndpoint DEF Endpoint, peer
<1>2. TypeOK'
  BY StepType
<1>3. DeliveryInvariant' <=> (\A e \in Endpoint : HoldsAt(e) /\ Silence(e))'
  BY <1>2, InvariantByEndpoint, PTL
<1>4. \A e \in Endpoint :
         Holds(e, tcb[e], handed[e], Len(tcb[peer(e)].byte_output), SentBy(peer(e), tcb[peer(e)]))
  BY <1>1 DEF HoldsAt
<1>5. CASE SendSyn
  <2> DEFINE e == Client
             t == tcb[e]
             u == send_syn(t)
  <2>1. e \in Endpoint /\ t.state = "Listen"
    BY <1>5 DEF SendSyn, Endpoint
  <2>2. t.socket = {} /\ t.unacked_segs = << >> /\ WellTyped(t)
    BY <1>1, <2>1 DEF Silence
  <2>3. /\ u.state = "SynSent" /\ u.socket = {Syn(e)} /\ u.unacked_segs = Append(<< >>, Syn(e))
    <3>1. t.seq_base = InitialSeq[e]
      BY <1>4, <2>1 DEF Holds, InStep, Phase
    <3>2. u = [send_seg(t, Syn(e)) EXCEPT !.state = "SynSent"]
      BY <3>1 DEF send_syn, Syn
    <3>3. QED
      BY <2>2, <3>2 DEF WellTyped, TCB, send_seg, resend_seg
  <2>4. tcb' = [tcb EXCEPT ![e] = u] /\ handed' = handed
    BY <1>5 DEF SendSyn
  <2> HIDE DEF u
  <2>5. /\ Holds(e, u, handed[e], Len(tcb[peer(e)].byte_output), SentBy(peer(e), tcb[peer(e)]))
        /\ Grows(e, t, u)
    BY <1>4, <2>1, SendSynStep DEF u
  <2>6. /\ \A f \in Endpoint : HoldsAt(f)'
        /\ tcb'[e] = u /\ tcb'[peer(e)] = tcb[peer(e)]
    BY <1>1, <2>1, <2>4, <2>5, OwnStep
  <2>7. Silence(e)'
    BY <2>3, <2>6 DEF Silence
  <2>8. Silence(peer(e))'
    <3>1. \A k \in 1 .. Len(u.unacked_segs) : u.unacked_segs[k] = Syn(e)
      BY <2>3
    <3> HIDE DEF e
    <3>2. QED
      BY <1>1, <2>1, <2>3, <2>6, <3>1 DEF Silence
  <2>9. QED
    BY <1>1, <1>3, <2>1, <2>6, <2>7, <2>8
<1>6. ASSUME NEW e \in Endpoint, Send(e) PROVE DeliveryInvariant'
  <2> DEFINE t == tcb[e]
  <2>1. PICK n \in 1 .. min(MaxSend, Len(Stream[e]) - handed[e]) :
          /\ tcb' = [tcb EXCEPT ![e] = send(@, SubSeq(Stream[e], handed[e] + 1, handed[e] + n))]
          /\ handed' = [handed EXCEPT ![e] = @ + n]
    BY <1>6 DEF Send
  <2>2. n \in Nat /\ handed[e] \in Nat /\ handed[e] + n <= Len(Stream[e])
    BY <1>1, <2>1, ConnectionAssumption, Numbers DEF min
  <2> DEFINE data == SubSeq(Stream[e], handed[e] + 1, handed[e] + n)
             u == send(t, data)
  <2>3. /\ tcb' = [tcb EXCEPT ![e] = u]
        /\ handed'[e] = handed[e] + n /\ handed'[peer(e)] = handed[peer(e)]
    BY <1>1, <2>1 DEF TypeOK
  <2>4. /\ Holds(e, u, handed[e] + n, Len(tcb[peer(e)].byte_output),
                 SentBy(peer(e), tcb[peer(e)]))
        /\ Grows(e, t, u) /\ Kept(t, u)
    BY <1>4, <2>2, SendStep
  <2>5. t.state # "Estab" => u.socket = t.socket /\ u.unacked_segs = t.unacked_segs
    BY <1>1 DEF WellTyped, TCB, send, fill_send_window
  <2> HIDE DEF u
  <2>6. /\ \A f \in Endpoint : HoldsAt(f)'
        /\ tcb'[e] = u /\ tcb'[peer(e)] = tcb[peer(e)]
    BY <1>1, <2>3, <2>4, OwnStep
  <2>7. Silence(e)' /\ Silence(peer(e))'
    BY <1>1, <2>4, <2>5, <2>6 DEF Silence, Kept
  <2>8. QED
    BY <1>1, <1>3, <2>6, <2>7
<1>7. ASSUME NEW e \in Endpoint, Close(e) PROVE DeliveryInvariant'
  <2> DEFINE t == tcb[e]
             u == send_close(t)
  <2>1. /\ t.state \in {"SynRecd", "Estab"} /\ tcb' = [tcb EXCEPT ![e] = u] /\ handed' = handed
    BY <1>7 DEF Close
  <2>2. u.state = "Closed"
    BY <1>1 DEF WellTyped, TCB, send_close, send_seg, resend_seg
  <2> HIDE DEF u
  <2>3. /\ Holds(e, u, handed[e], Len(tcb[peer(e)].byte_output), SentBy(peer(e), tcb[peer(e)]))
        /\ Grows(e, t, u)
    BY <1>4, <2>1, SendCloseStep DEF u
  <2>4. /\ \A f \in Endpoint : HoldsAt(f)'
        /\ tcb'[e] = u /\ tcb'[peer(e)] = tcb[peer(e)]
    BY <2>1, <1>1, <2>3, OwnStep
  <2>5. Silence(e)' /\ Silence(peer(e))'
    BY <1>1, <2>1, <2>2, <2>4 DEF Silence
  <2>6. QED
    BY <1>1, <1>3, <2>4, <2>5
<1>8. ASSUME NEW e \in Endpoint, Timeout(e) PROVE DeliveryInvariant'
  <2> DEFINE t == tcb[e]
             u == handle_resend(t)
  <2>1. tcb' = [tcb EXCEPT ![e] = u] /\ handed' = handed
    BY <1>8 DEF Timeout
  <2>2. /\ u.state = t.state /\ u.unacked_segs = t.unacked_segs
        /\ t.unacked_segs = << >> => u.socket = t.socket
        /\ t.unacked_segs # << >> => u.socket = t.socket \cup {t.unacked_segs[1]}
    <3>1. t.unacked_segs \in Seq(Segment)
      BY <1>1, Fields
    <3>2. t.unacked_segs # << >> => Head(t.unacked_segs) = t.unacked_segs[1]
      BY <3>1
    <3>3. QED
      BY <1>1, <3>2 DEF WellTyped, TCB, handle_resend, resend_seg
  <2>3. t.unacked_segs # << >> => 1 \in 1 .. Len(t.unacked_segs)
    <3>1. t.unacked_segs # << >> => Len(t.unacked_segs) \in Nat \ {0}
      BY <1>1, Fields, EmptySeq
    <3>2. QED
      BY <3>1
  <2> HIDE DEF u
  <2>4. /\ Holds(e, u, handed[e], Len(tcb[peer(e)].byte_output), SentBy(peer(e), tcb[peer(e)]))
        /\ Grows(e, t, u)
    BY <1>4, HandleResendStep DEF u
  <2>5. /\ \A f \in Endpoint : HoldsAt(f)'
        /\ tcb'[e] = u /\ tcb'[peer(e)] = tcb[peer(e)]
    BY <1>1, <2>1, <2>4, OwnStep
  <2>6. Silence(e)' /\ Silence(peer(e))'
    BY <1>1, <2>2, <2>3, <2>5 DEF Silence
  <2>7. QED
    BY <1>1, <1>3, <2>5, <2>6
<1>9. ASSUME NEW e \in Endpoint, NEW seg \in tcb[peer(e)].socket, Receive(e, seg)
      PROVE  DeliveryInvariant'
  <2>1. /\ \A f \in Endpoint : HoldsAt(f)'
        /\ SameButOutput(tcb[peer(e)], tcb'[peer(e)])
        /\ tcb'[e].state # "Listen"
    BY <1>9, ReceiveEffect
  <2>2. Silence(e)'
    BY <2>1 DEF Silence
  <2>3. Silence(peer(e))'
    <3>1. tcb[peer(e)].state # "Listen"
      BY <1>1 DEF Silence
    <3>2. tcb'[peer(e)].state # "Listen"
      BY <2>1, <3>1 DEF SameButOutput
    <3>3. QED
      BY <3>2 DEF Silence
  <2>4. QED
    BY <1>1, <1>3, <2>1, <2>2, <2>3
<1>10. ASSUME NEW e \in Endpoint, NEW seg \in tcb[e].socket, Lose(e, seg)
       PROVE  DeliveryInvariant'
  <2> DEFINE t == tcb[e]
             u == [t EXCEPT !.socket = @ \ {seg}]
  <2>1. tcb' = [tcb EXCEPT ![e] = u] /\ handed' = handed
    BY <1>10 DEF Lose
  <2>2. /\ WellTyped(u) /\ SameButOutput(t, u)
        /\ u.socket \subseteq t.socket /\ u.unacked_segs = t.unacked_segs
    BY <1>1, ZenonT(40) DEF WellTyped, TCB, SameButOutput
  <2> HIDE DEF u
  <2>3. /\ Holds(e, u, handed[e], Len(tcb[peer(e)].byte_output), SentBy(peer(e), tcb[peer(e)]))
        /\ Grows(e, t, u)
    <3>1. /\ \A s \in u.socket : Sound(e, t, s)
          /\ \A k \in 1 .. Len(u.unacked_segs) : Sound(e, t, u.unacked_segs[k])
      BY <1>4, <2>2 DEF Holds, InStep, SoundOutput
    <3>2. QED
      BY <1>4, <2>2, <3>1, OutputStep
  <2>4. /\ \A f \in Endpoint : HoldsAt(f)'
        /\ tcb'[e] = u /\ tcb'[peer(e)] = tcb[peer(e)]
    BY <1>1, <2>1, <2>3, OwnStep
  <2>5. Silence(e)' /\ Silence(peer(e))'
    BY <1>1, <2>2, <2>4 DEF Silence, SameButOutput
  <2>6. QED
    BY <1>1, <1>3, <2>4, <2>5
<1>11. CASE UNCHANGED vars
  <2>1. \A e \in Endpoint : HoldsAt(e)' /\ Silence(e)'
    BY <1>1, <1>11 DEF vars, HoldsAt, Silence
  <2>2. QED
    BY <1>3, <2>1
<1>12. QED
  BY <1>5, <1>6, <1>7, <1>8, <1>9, <1>10, <1>11 DEF Next

(* The invariant of Delivery holds of every reachable state, together with *)
(* the types: what is in flight is sound, each end holds the part of the   *)
(* two streams that its numbers say, and the two ends' numbers fit.        *)
THEOREM DeliveryInvariantHolds == Spec => [](TypeOK /\ DeliveryInvariant)
<1>1. Init => TypeOK /\ DeliveryInvariant
  BY InitType, InitHolds
<1>2. TypeOK /\ DeliveryInvariant /\ [Next]_vars => (TypeOK /\ DeliveryInvariant)'
  BY StepType, StepHolds
<1>3. QED
  BY <1>1, <1>2, PTL DEF Spec

-----------------------------------------------------------------------------
(* What the invariant implies.                                             *)

(* Nothing but a prefix of the peer's stream has been delivered.           *)
LEMMA OutputIsPrefix ==
    ASSUME NEW e \in Endpoint, NEW t, NEW given, NEW got, NEW sent,
           Holds(e, t, given, got, sent)
    PROVE  /\ t.byte_output = SubSeq(Stream[peer(e)], 1, Len(t.byte_output))
           /\ Len(t.byte_output) <= sent
<1> DEFINE p == peer(e)
           n == Len(t.byte_output)
           s == SubSeq(Stream[p], 1, n)
<1>1. /\ t.byte_output \in Seq(Byte) /\ n \in Nat /\ n <= sent /\ sent \in Nat
      /\ sent <= Len(Stream[p]) /\ p \in Endpoint
      /\ \A i \in 1 .. n : t.byte_output[i] = Stream[p][i]
  <2>1. p \in Endpoint /\ Len(Stream[p]) \in Nat
    BY PeerProperties, Numbers
  <2>2. sent \in 0 .. Len(Stream[p])
    BY DEF Holds
  <2>3. QED
    BY <2>1, <2>2, Fields DEF Holds, InStep, ReceiveSide, HoldsStream
<1>2. Stream[p] \in Seq(Byte) /\ Len(Stream[p]) \in Nat
  BY <1>1, Numbers
<1> HIDE DEF n, p
<1>3. \A i \in 1 .. n : Stream[p][i] \in Byte
  <2>1. \A i \in 1 .. n : i \in 1 .. Len(Stream[p])
    BY <1>1, <1>2
  <2>2. QED
    BY <1>2, <2>1, ElementOfSeq
<1>4. /\ s \in Seq(Byte) /\ Len(s) = IF 1 <= n THEN n - 1 + 1 ELSE 0
      /\ \A i \in 1 .. n - 1 + 1 : s[i] = Stream[p][1 + i - 1]
  BY <1>1, <1>3, SubSeqProperties
<1> HIDE DEF s
<1>5. Len(s) = n
  BY <1>1, <1>4
<1>6. \A i \in 1 .. n : s[i] = t.byte_output[i]
  <2> TAKE i \in 1 .. n
  <2>1. i \in 1 .. n - 1 + 1 /\ 1 + i - 1 = i
    BY <1>1
  <2>2. QED
    BY <1>1, <1>4, <2>1
<1>7. s = t.byte_output
  BY <1>1, <1>4, <1>5, <1>6, SeqEqual DEF n
<1>8. QED
  BY <1>1, <1>7 DEF s, n, p

(* Of two prefixes of a sequence the shorter is a prefix of the longer.    *)
LEMMA PrefixOf ==
    ASSUME NEW T, NEW s \in Seq(T), NEW m \in 0 .. Len(s), NEW n \in 0 .. m
    PROVE  IsPrefix(SubSeq(s, 1, n), SubSeq(s, 1, m))
<1> DEFINE a == Taken(s, n)
           b == Taken(s, m)
<1>1. Len(s) \in Nat /\ m \in Nat /\ n \in Nat /\ n <= m /\ m <= Len(s)
  BY LenProperties
<1>2. n \in 0 .. Len(s)
  BY <1>1
<1>3. a \in Seq(T) /\ Len(a) = n /\ \A i \in 1 .. n : a[i] = s[i]
  BY <1>2, DrainProperties
<1>4. b \in Seq(T) /\ Len(b) = m /\ \A i \in 1 .. m : b[i] = s[i]
  BY DrainProperties
<1>5. a = SubSeq(s, 1, n) /\ b = SubSeq(s, 1, m)
  BY DEF Taken
<1> HIDE DEF a, b
<1>6. n \in 0 .. Len(a) /\ n \in 0 .. Len(b)
  BY <1>1, <1>3, <1>4
<1> DEFINE c == Taken(a, n)
           d == Taken(b, n)
<1>7. c \in Seq(T) /\ Len(c) = n /\ \A i \in 1 .. n : c[i] = a[i]
  BY <1>3, <1>6, DrainProperties
<1>8. d \in Seq(T) /\ Len(d) = n /\ \A i \in 1 .. n : d[i] = b[i]
  BY <1>4, <1>6, DrainProperties
<1>9. c = d
  <2> HIDE DEF c, d
  <2>1. \A i \in 1 .. n : i \in 1 .. m
    BY <1>1
  <2>2. \A i \in 1 .. n : c[i] = d[i]
    BY <1>3, <1>4, <1>7, <1>8, <2>1
  <2>3. QED
    BY <1>7, <1>8, <2>2, SeqEqual
<1>10. QED
  BY <1>1, <1>3, <1>4, <1>5, <1>9 DEF IsPrefix, Taken

(* What the invariant says of each endpoint, put together, are the safety  *)
(* properties of Connection.                                               *)
LEMMA InvariantImplies ==
    TypeOK /\ DeliveryInvariant =>
        /\ PrefixDelivered
        /\ NoPanic
        /\ NothingForgotten
        /\ ReceiveWindowInStep
        /\ HandshakeAgrees
<1> SUFFICES ASSUME TypeOK, DeliveryInvariant
             PROVE  /\ PrefixDelivered /\ NoPanic /\ NothingForgotten
                    /\ ReceiveWindowInStep /\ HandshakeAgrees
  OBVIOUS
<1>1. /\ \A e \in Endpoint : HoldsAt(e) /\ Silence(e)
      /\ \A e \in Endpoint : peer(e) \in Endpoint /\ peer(peer(e)) = e
      /\ \A e \in Endpoint : WellTyped(tcb[e])
  BY InvariantByEndpoint, PeerProperties, TypeOKByEndpoint
<1>2. \A e \in Endpoint :
         Holds(e, tcb[e], handed[e], Len(tcb[peer(e)].byte_output), SentBy(peer(e), tcb[peer(e)]))
  BY <1>1 DEF HoldsAt
<1>3. \A e \in Endpoint : /\ SentBy(e, tcb[e]) \in Nat /\ SentBy(e, tcb[e]) <= handed[e]
                          /\ handed[e] \in Nat /\ handed[e] <= Len(Stream[e])
                          /\ Len(Stream[e]) \in Nat
                          /\ AckedBy(e, tcb[e]) \in Nat
                          /\ Len(tcb[e].byte_output) \in Nat
  <2> TAKE e \in Endpoint
  <2>1. /\ SentBy(e, tcb[e]) \in Nat /\ SentBy(e, tcb[e]) <= handed[e]
        /\ handed[e] \in Nat /\ handed[e] <= Len(Stream[e])
        /\ AckedBy(e, tcb[e]) \in Nat
    BY <1>2, Positions
  <2>2. Len(Stream[e]) \in Nat
    BY Numbers
  <2>3. Len(tcb[e].byte_output) \in Nat
    BY <1>1, Fields
  <2>4. QED
    BY <2>1, <2>2, <2>3
<1>4. PrefixDelivered
  <2> SUFFICES ASSUME NEW e \in Endpoint
               PROVE  IsPrefix(tcb[e].byte_output, Taken(Stream[peer(e)], handed[peer(e)]))
    BY DEF PrefixDelivered, Delivered
  <2> DEFINE p == peer(e)
             n == Len(tcb[e].byte_output)
  <2>1. tcb[e].byte_output = SubSeq(Stream[p], 1, n) /\ n <= SentBy(p, tcb[p])
    BY <1>2, OutputIsPrefix
  <2>2. n \in 0 .. handed[p] /\ handed[p] \in 0 .. Len(Stream[p])
    <3>1. p \in Endpoint /\ n \in Nat
      BY <1>1, <1>3
    <3> HIDE DEF p, n
    <3>2. QED
      BY <1>3, <2>1, <3>1
  <2>3. Stream[p] \in Seq(Byte)
    BY <1>1, Numbers
  <2> HIDE DEF n, p
  <2>4. IsPrefix(SubSeq(Stream[p], 1, n), SubSeq(Stream[p], 1, handed[p]))
    BY <2>2, <2>3, PrefixOf
  <2>5. QED
    BY <2>1, <2>4 DEF Taken, p
<1>5. NoPanic
  BY <1>2 DEF NoPanic, Holds, InStep, Phase
<1>6. NothingForgotten
  <2> SUFFICES ASSUME NEW e \in Endpoint
               PROVE  /\ Acked(e) <= Len(Delivered(peer(e)))
                      /\ tcb[e].send_window \o tcb[e].send_buffer
                           = SubSeq(Stream[e], Acked(e) + 1, handed[e])
    BY DEF NothingForgotten
  <2> DEFINE t == tcb[e]
             a == AckedBy(e, t)
             w == t.send_window
             b == t.send_buffer
             s == SubSeq(Stream[e], a + 1, handed[e])
  <2>1. Acked(e) = a /\ Acked(e) <= Len(Delivered(peer(e)))
    BY <1>2 DEF Acked, AckedBy, Delivered, Holds, InStep
  <2>2. /\ w \in Seq(Byte) /\ Len(w) \in Nat /\ b \in Seq(Byte) /\ Len(b) \in Nat
        /\ a \in Nat /\ handed[e] \in Nat /\ handed[e] <= Len(Stream[e]) /\ Len(Stream[e]) \in Nat
        /\ Stream[e] \in Seq(Byte)
    BY <1>1, <1>3, Fields, Numbers
  <2>3. /\ SentBy(e, t) = a + Len(w) /\ SentBy(e, t) + Len(b) = handed[e]
        /\ \A i \in 1 .. Len(w) : w[i] = Stream[e][a + i]
        /\ \A i \in 1 .. Len(b) : b[i] = Stream[e][SentBy(e, t) + i]
    BY <1>2 DEF SentBy, Holds, InStep, SendSide
  <2>4. /\ w \o b \in Seq(Byte) /\ Len(w \o b) = Len(w) + Len(b)
        /\ \A i \in 1 .. Len(w) + Len(b) : (w \o b)[i] = IF i <= Len(w) THEN w[i] ELSE b[i - Len(w)]
    <3>1. w \in Seq(Byte) /\ b \in Seq(Byte)
      BY <2>2
    <3> HIDE DEF w, b
    <3>2. QED
      BY <3>1, ConcatProperties
  <2> DEFINE r == w \o b
  <2> HIDE DEF a, w, b, t
  <2>5. (a + Len(w)) + Len(b) = handed[e]
    BY <2>3
  <2>6. /\ s \in Seq(Byte) /\ Len(s) = Len(w) + Len(b)
        /\ \A i \in 1 .. Len(w) + Len(b) : s[i] = Stream[e][a + i]
    <3>1. \A i \in a + 1 .. handed[e] : Stream[e][i] \in Byte
      <4>1. \A i \in a + 1 .. handed[e] : i \in 1 .. Len(Stream[e])
        BY <2>2
      <4>2. QED
        BY <2>2, <4>1, ElementOfSeq
    <3>2. a + 1 \in Int /\ handed[e] \in Int
      BY <2>2
    <3>3. /\ s \in Seq(Byte) /\ Len(s) = IF a + 1 <= handed[e] THEN handed[e] - (a + 1) + 1 ELSE 0
          /\ \A i \in 1 .. handed[e] - (a + 1) + 1 : s[i] = Stream[e][(a + 1) + i - 1]
      BY <3>1, <3>2, SubSeqProperties
    <3> HIDE DEF s
    <3>4. Len(s) = Len(w) + Len(b)
      BY <2>2, <2>5, <3>3
    <3>5. \A i \in 1 .. Len(w) + Len(b) : i \in 1 .. handed[e] - (a + 1) + 1
                                          /\ (a + 1) + i - 1 = a + i
      BY <2>2, <2>5
    <3>6. QED
      BY <3>3, <3>4, <3>5
  <2>7. \A i \in 1 .. Len(w) + Len(b) : r[i] = s[i]
    <3> TAKE i \in 1 .. Len(w) + Len(b)
    <3> HIDE DEF r, s
    <3>1. s[i] = Stream[e][a + i]
      BY <2>6
    <3>2. r[i] = IF i <= Len(w) THEN w[i] ELSE b[i - Len(w)]
      BY <2>4 DEF r
    <3>3. CASE i <= Len(w)
      <4>1. i \in 1 .. Len(w)
        BY <2>2, <3>3
      <4>2. QED
        BY <2>3, <3>1, <3>2, <3>3, <4>1
    <3>4. CASE ~ i <= Len(w)
      <4>1. i - Len(w) \in 1 .. Len(b) /\ (a + Len(w)) + (i - Len(w)) = a + i
        BY <2>2, <3>4
      <4>2. QED
        BY <2>3, <3>1, <3>2, <3>4, <4>1
    <3>5. QED
      BY <3>3, <3>4
  <2>8. r = s
    <3>1. r \in Seq(Byte) /\ Len(r) = Len(w) + Len(b)
      BY <2>4
    <3> HIDE DEF r, s
    <3>2. QED
      BY <2>6, <2>7, <3>1, SeqEqual
  <2>9. QED
    BY <2>1, <2>8 DEF r, s, w, b, t
<1>7. ReceiveWindowInStep
  <2> SUFFICES ASSUME NEW e \in Endpoint
               PROVE  /\ tcb[e].recv_window[0] = None
                      /\ \A i \in Slot : tcb[e].recv_window[i] # None =>
                            /\ Len(tcb[e].byte_output) + i + 1 <= handed[peer(e)]
                            /\ tcb[e].recv_window[i]
                                 = Stream[peer(e)][Len(tcb[e].byte_output) + i + 1]
    BY DEF ReceiveWindowInStep
  <2>1. ReceiveSide(e, tcb[e], SentBy(peer(e), tcb[peer(e)]))
    BY <1>2 DEF Holds, InStep
  <2>2. ASSUME NEW i \in Slot, tcb[e].recv_window[i] # None
        PROVE  Len(tcb[e].byte_output) + i + 1 <= handed[peer(e)]
    <3>1. Len(tcb[e].byte_output) + i + 1 <= SentBy(peer(e), tcb[peer(e)])
      BY <2>1, <2>2 DEF ReceiveSide, HoldsStream
    <3>2. i \in Nat /\ Len(tcb[e].byte_output) \in Nat
      BY <1>3 DEF Slot
    <3>3. QED
      BY <1>1, <1>3, <3>1, <3>2
  <2>3. QED
    BY <2>1, <2>2 DEF ReceiveSide, HoldsStream
<1>8. HandshakeAgrees
  <2> SUFFICES ASSUME NEW e \in Endpoint, tcb[e].state = "Estab"
               PROVE  /\ tcb[peer(e)].state # "Listen"
                      /\ tcb[e].ack_base = wrapping_add(FirstSeq(peer(e)), Len(Delivered(e)))
                      /\ tcb[e].seq_base # InitialSeq[e]
    BY DEF HandshakeAgrees
  <2>1. tcb[peer(e)].state # "Listen"
    BY <1>1 DEF Silence
  <2>2. QED
    BY <1>2, <2>1 DEF Holds, InStep, Phase, At, Delivered
<1>9. QED
  BY <1>4, <1>5, <1>6, <1>7, <1>8

(* The bytes handed to an application are a prefix of the bytes the other  *)
(* has sent, whatever the network does (tcp.rs 165-211).                   *)
THEOREM PrefixAlwaysDelivered == Spec => []PrefixDelivered
<1>1. QED
  BY DeliveryInvariantHolds, InvariantImplies, PTL

(* No drain or index of handle_acks and handle_payload is out of range     *)
(* (tcp.rs 174, 232).                                                      *)
THEOREM NeverPanics == Spec => []NoPanic
<1>1. QED
  BY DeliveryInvariantHolds, InvariantImplies, PTL

(* A byte leaves the send window only when the other application has it;   *)
(* window and buffer hold the rest (tcp.rs 131-136, 227-233).              *)
THEOREM NothingEverForgotten == Spec => []NothingForgotten
<1>1. QED
  BY DeliveryInvariantHolds, InvariantImplies, PTL

(* The slots of the receive window hold the bytes that belong there, and   *)
(* what can be delivered has been (tcp.rs 172-198).                        *)
THEOREM ReceiveWindowAlwaysInStep == Spec => []ReceiveWindowInStep
<1>1. QED
  BY DeliveryInvariantHolds, InvariantImplies, PTL

(* An established end knows where the stream of the other starts, and the  *)
(* other has left Listen (tcp.rs 252-287).                                 *)
THEOREM HandshakeAlwaysAgrees == Spec => []HandshakeAgrees
<1>1. QED
  BY DeliveryInvariantHolds, InvariantImplies, PTL

-----------------------------------------------------------------------------
(* The datagrams that fairness speaks of.                                  *)

(* A sound datagram is one of those that Genuine lists.                    *)
LEMMA SoundIsGenuine ==
    ASSUME NEW e \in Endpoint, NEW t, NEW given, NEW got, NEW sent,
           Holds(e, t, given, got, sent), NEW seg, Sound(e, t, seg)
    PROVE  seg \in Genuine(e)
<1> DEFINE size == Len(Stream[e])
<1>1. /\ size \in Nat /\ MAX_PAYLOAD_SIZE \in Nat
      /\ AckedBy(e, t) \in Nat /\ SentBy(e, t) \in Nat
      /\ AckedBy(e, t) <= size /\ SentBy(e, t) <= size
  <2>1. /\ AckedBy(e, t) \in Nat /\ SentBy(e, t) \in Nat
        /\ AckedBy(e, t) <= got /\ got <= SentBy(e, t) /\ SentBy(e, t) <= given
        /\ given <= size /\ got \in Nat /\ given \in Nat
    BY Positions
  <2>2. size \in Nat /\ MAX_PAYLOAD_SIZE \in Nat
    BY Numbers
  <2>3. QED
    BY <2>1, <2>2
<1>2. CASE seg = Syn(e) \/ seg = SynAck(e)
  BY <1>2 DEF Genuine
<1>3. CASE \E n \in 0 .. Len(t.byte_output) : seg = PureAck(e, n)
  <2>1. PICK n \in 0 .. Len(t.byte_output) : seg = PureAck(e, n)
    BY <1>3
  <2>2. /\ Len(t.byte_output) \in Nat /\ Len(t.byte_output) <= sent
        /\ sent \in Nat /\ sent <= Len(Stream[peer(e)]) /\ Len(Stream[peer(e)]) \in Nat
    BY Fields, PeerProperties, Numbers DEF Holds, InStep, ReceiveSide, HoldsStream
  <2>3. n \in 0 .. Len(Stream[peer(e)])
    BY <2>2
  <2>4. QED
    BY <2>1, <2>3 DEF Genuine
<1>4. CASE seg = Fin(t.seq_base)
  <2>1. t.seq_base = InitialSeq[e] \/ t.seq_base = At(e, AckedBy(e, t))
    BY AckedProperties, Fields DEF Holds
  <2>2. AckedBy(e, t) \in 0 .. size
    BY <1>1
  <2>3. QED
    BY <1>4, <2>1, <2>2 DEF Genuine
<1>5. CASE \E i \in 0 .. SentBy(e, t) - 1 :
             \E n \in 1 .. min(MAX_PAYLOAD_SIZE, SentBy(e, t) - i) : seg = Data(e, i, n)
  <2>1. PICK i \in 0 .. SentBy(e, t) - 1 :
           \E n \in 1 .. min(MAX_PAYLOAD_SIZE, SentBy(e, t) - i) : seg = Data(e, i, n)
    BY <1>5
  <2>2. PICK n \in 1 .. min(MAX_PAYLOAD_SIZE, SentBy(e, t) - i) : seg = Data(e, i, n)
    BY <2>1
  <2>3. i \in 0 .. size - 1 /\ n \in 1 .. min(MAX_PAYLOAD_SIZE, size - i)
    BY <1>1 DEF min
  <2>4. QED
    BY <2>2, <2>3 DEF Genuine
<1>6. QED
  BY <1>2, <1>3, <1>4, <1>5 DEF Sound

(* Whatever is in flight is in Genuine, so that the network's fairness     *)
(* (Fairness, TimedFairness), which is said of the members of Genuine,     *)
(* leaves no datagram out.                                                 *)
THEOREM OnlyGenuineInFlight == Spec => [](\A e \in Endpoint : tcb[e].socket \subseteq Genuine(e))
<1>1. TypeOK /\ DeliveryInvariant => \A e \in Endpoint : tcb[e].socket \subseteq Genuine(e)
  <2> SUFFICES ASSUME TypeOK, DeliveryInvariant, NEW e \in Endpoint, NEW seg \in tcb[e].socket
               PROVE  seg \in Genuine(e)
    OBVIOUS
  <2>1. HoldsAt(e)
    BY InvariantByEndpoint
  <2>2. Sound(e, tcb[e], seg)
    BY <2>1 DEF HoldsAt, Holds, InStep, SoundOutput
  <2>3. QED
    BY <2>1, <2>2, SoundIsGenuine DEF HoldsAt
<1>2. QED
  BY <1>1, DeliveryInvariantHolds, PTL

-----------------------------------------------------------------------------
(* Steps.                                                                  *)

\* t and u have the same numbers and the same output
SameReceived(t, u) ==
    /\ u.seq_base = t.seq_base
    /\ u.ack_base = t.ack_base
    /\ u.byte_output = t.byte_output

\* run_tcp is still in its loop with the TCB t
Live(t) == t.state \notin {"Closed", "Panicked"}

(* Only receiving moves a window or delivers, and of the other steps only  *)
(* Close ends an endpoint.                                                 *)
LEMMA QuietSteps ==
    ASSUME TypeOK, DeliveryInvariant, NEW e \in Endpoint,
           \/ e = Client /\ SendSyn
           \/ Send(e) \/ Close(e) \/ Timeout(e)
           \/ \E seg \in tcb[e].socket : Lose(e, seg)
    PROVE  /\ \A f \in Endpoint : f # e => tcb'[f] = tcb[f]
           /\ SameReceived(tcb[e], tcb'[e])
           /\ ~ Close(e) => (Live(tcb'[e]) <=> Live(tcb[e]))
           /\ Close(e) => ~ Live(tcb'[e])
<1> DEFINE t == tcb[e]
           P == /\ \A f \in Endpoint : f # e => tcb'[f] = tcb[f]
                /\ SameReceived(tcb[e], tcb'[e])
                /\ ~ Close(e) => (Live(tcb'[e]) <=> Live(tcb[e]))
                /\ Close(e) => ~ Live(tcb'[e])
<1>1. WellTyped(t) /\ HoldsAt(e) /\ handed \in [Endpoint -> Nat]
  BY TypeOKByEndpoint, InvariantByEndpoint
<1>2. ASSUME NEW u, tcb' = [tcb EXCEPT ![e] = u]
      PROVE  tcb'[e] = u /\ \A f \in Endpoint : f # e => tcb'[f] = tcb[f]
  BY <1>2 DEF TypeOK
<1>3. CASE e = Client /\ SendSyn
  <2> DEFINE u == send_syn(t)
  <2>1. tcb' = [tcb EXCEPT ![e] = u] /\ Live(t) /\ t.state = "Listen"
    BY <1>3 DEF SendSyn, Live
  <2>2. SameReceived(t, u) /\ u.state = "SynSent"
    BY <1>1 DEF WellTyped, TCB, send_syn, send_seg, resend_seg, SameReceived
  <2>3. ~ Close(e)
    BY <2>1 DEF Close
  <2> HIDE DEF u
  <2>4. QED
    BY <1>2, <2>1, <2>2, <2>3 DEF Live
<1>4. CASE Send(e)
  <2>1. PICK n \in 1 .. min(MaxSend, Len(Stream[e]) - handed[e]) :
          tcb' = [tcb EXCEPT ![e] = send(@, SubSeq(Stream[e], handed[e] + 1, handed[e] + n))]
    BY <1>4 DEF Send
  <2>2. n \in Nat /\ handed[e] + n <= Len(Stream[e])
    BY <1>1, <2>1, ConnectionAssumption, Numbers DEF min
  <2> DEFINE u == send(t, SubSeq(Stream[e], handed[e] + 1, handed[e] + n))
  <2>3. tcb' = [tcb EXCEPT ![e] = u]
    BY <2>1
  <2>4. Kept(t, u)
    BY <1>1, <2>2, SendStep DEF HoldsAt
  <2>5. ~ Close(e)
    <3>1. \A k \in Nat \ {0} : handed[e] + k # handed[e]
      BY <1>1
    <3>2. PICK k \in 1 .. min(MaxSend, Len(Stream[e]) - handed[e]) :
            handed' = [handed EXCEPT ![e] = @ + k]
      BY <1>4 DEF Send
    <3>3. k \in Nat \ {0} /\ handed'[e] = handed[e] + k
      BY <1>1, <3>2, ConnectionAssumption, Numbers DEF min
    <3>4. handed'[e] # handed[e]
      BY <3>1, <3>3
    <3>5. QED
      BY <3>4 DEF Close
  <2> HIDE DEF u
  <2>6. QED
    BY <1>2, <2>3, <2>4, <2>5 DEF Kept, SameReceived, Live
<1>5. CASE Close(e)
  <2> DEFINE u == send_close(t)
  <2>1. tcb' = [tcb EXCEPT ![e] = u]
    BY <1>5 DEF Close
  <2>2. SameReceived(t, u) /\ u.state = "Closed"
    BY <1>1 DEF WellTyped, TCB, send_close, send_seg, resend_seg, SameReceived
  <2> HIDE DEF u
  <2>3. QED
    BY <1>2, <1>5, <2>1, <2>2 DEF Live
<1>6. ASSUME NEW u, tcb' = [tcb EXCEPT ![e] = u], SameReceived(t, u), u.state = t.state
      PROVE  P
  <2>1. Close(e) => u.state = "Closed" /\ t.state # "Closed"
    <3>1. Close(e) => u = send_close(t)
      BY <1>2, <1>6 DEF Close, TypeOK
    <3>2. send_close(t).state = "Closed"
      BY <1>1 DEF WellTyped, TCB, send_close, send_seg, resend_seg
    <3>3. QED
      BY <3>1, <3>2 DEF Close
  <2>2. QED
    BY <1>2, <1>6, <2>1 DEF Live
<1>7. CASE Timeout(e)
  <2> DEFINE u == handle_resend(t)
  <2>1. tcb' = [tcb EXCEPT ![e] = u]
    BY <1>7 DEF Timeout
  <2>2. SameReceived(t, u) /\ u.state = t.state
    BY <1>1 DEF WellTyped, TCB, handle_resend, resend_seg, SameReceived
  <2> HIDE DEF u, P
  <2>3. P
    BY <1>6, <2>1, <2>2
  <2>4. QED
    BY <2>3 DEF P
<1>8. ASSUME NEW seg \in tcb[e].socket, Lose(e, seg)
      PROVE  P
  <2> DEFINE u == [t EXCEPT !.socket = @ \ {seg}]
  <2>1. tcb' = [tcb EXCEPT ![e] = u]
    BY <1>8 DEF Lose
  <2>2. SameReceived(t, u) /\ u.state = t.state
    BY <1>1 DEF WellTyped, TCB, SameReceived
  <2> HIDE DEF u, P
  <2>3. QED
    BY <1>6, <2>1, <2>2
<1>9. QED
  BY <1>3, <1>4, <1>5, <1>7, <1>8

(* A step moves a base by as much as is acknowledged or delivered in it,   *)
(* which is at most a window.                                              *)
LEMMA StepMovesForward ==
    ASSUME TypeOK, DeliveryInvariant, [Next]_vars, NEW e \in Endpoint
    PROVE  /\ wrapping_sub(tcb'[e].seq_base, tcb[e].seq_base) <= WINDOW_SIZE
           /\ tcb[e].state = "Estab" =>
                wrapping_sub(tcb'[e].ack_base, tcb[e].ack_base) <= WINDOW_SIZE
<1>1. ASSUME tcb'[e].seq_base = tcb[e].seq_base, tcb'[e].ack_base = tcb[e].ack_base
      PROVE  /\ wrapping_sub(tcb'[e].seq_base, tcb[e].seq_base) <= WINDOW_SIZE
             /\ wrapping_sub(tcb'[e].ack_base, tcb[e].ack_base) <= WINDOW_SIZE
  <2>1. tcb[e].seq_base \in SeqNum /\ tcb[e].ack_base \in SeqNum
    BY TypeOKByEndpoint, Fields
  <2>2. QED
    BY <1>1, <2>1, Numbers DEF wrapping_sub, SeqNum
<1>2. CASE SendSyn
  <2>1. Client \in Endpoint
    BY DEF Endpoint
  <2>2. tcb'[e].seq_base = tcb[e].seq_base /\ tcb'[e].ack_base = tcb[e].ack_base
    BY <1>2, <2>1, QuietSteps DEF SameReceived
  <2>3. QED
    BY <1>1, <2>2
<1>3. ASSUME NEW f \in Endpoint,
             Send(f) \/ Close(f) \/ Timeout(f) \/ \E seg \in tcb[f].socket : Lose(f, seg)
      PROVE  /\ wrapping_sub(tcb'[e].seq_base, tcb[e].seq_base) <= WINDOW_SIZE
             /\ wrapping_sub(tcb'[e].ack_base, tcb[e].ack_base) <= WINDOW_SIZE
  <2>1. tcb'[e].seq_base = tcb[e].seq_base /\ tcb'[e].ack_base = tcb[e].ack_base
    BY <1>3, QuietSteps DEF SameReceived
  <2>2. QED
    BY <1>1, <2>1
<1>4. ASSUME NEW f \in Endpoint, NEW seg \in tcb[peer(f)].socket, Receive(f, seg)
      PROVE  /\ wrapping_sub(tcb'[e].seq_base, tcb[e].seq_base) <= WINDOW_SIZE
             /\ tcb[e].state = "Estab" =>
                  wrapping_sub(tcb'[e].ack_base, tcb[e].ack_base) <= WINDOW_SIZE
  <2>1. CASE f = e
    BY <1>4, <2>1, ReceiveEffect
  <2>2. CASE f # e
    <3>1. e = peer(f)
      BY <2>2 DEF peer, Endpoint
    <3>2. SameButOutput(tcb[e], tcb'[e])
      BY <1>4, <3>1, ReceiveEffect
    <3>3. QED
      BY <1>1, <3>2 DEF SameButOutput
  <2>3. QED
    BY <2>1, <2>2
<1>5. CASE UNCHANGED vars
  BY <1>1, <1>5 DEF vars
<1>6. QED
  BY <1>2, <1>3, <1>4, <1>5 DEF Next

(* seq_base and ack_base never move back, and never by more than a window  *)
(* at a time (tcp.rs 195, 214-228).                                        *)
THEOREM WindowsAlwaysMoveForward == Spec => WindowsMoveForward
<1>1. TypeOK /\ DeliveryInvariant /\ [Next]_vars =>
        [\A e \in Endpoint :
           /\ wrapping_sub(tcb'[e].seq_base, tcb[e].seq_base) <= WINDOW_SIZE
           /\ tcb[e].state = "Estab" =>
                wrapping_sub(tcb'[e].ack_base, tcb[e].ack_base) <= WINDOW_SIZE]_vars
  BY StepMovesForward
<1>2. QED
  BY <1>1, DeliveryInvariantHolds, PTL DEF Spec, WindowsMoveForward

-----------------------------------------------------------------------------
(* The byte stream.                                                        *)

(* Two new TCBs are an empty byte stream.                                  *)
LEMMA InitIsByteStream == Init => Abstract!Init
<1> SUFFICES ASSUME Init PROVE Abstract!Init
  OBVIOUS
<1>1. \A e \in Endpoint : Running(e) = TRUE /\ tcb[e].byte_output = << >>
  BY DEF Init, Running, new
<1>2. [e \in Endpoint |-> Running(e)] = [e \in Endpoint |-> TRUE]
  BY <1>1, Zenon
<1>3. [e \in Endpoint |-> tcb[e].byte_output] = [e \in Endpoint |-> << >>]
  BY <1>1, Zenon
<1>4. QED
  BY <1>2, <1>3 DEF Init, Abstract!Init

(* A step of the connection is a step of the byte stream or changes        *)
(* nothing of it: Send hands over, Close and a FIN shut, and any other     *)
(* datagram delivers some bytes or none.                                   *)
LEMMA StepIsByteStream ==
    TypeOK /\ DeliveryInvariant /\ [Next]_vars => [Abstract!Next]_(Abstract!streamVars)
<1> SUFFICES ASSUME TypeOK, DeliveryInvariant, [Next]_vars
             PROVE  Abstract!Next \/ UNCHANGED Abstract!streamVars
  OBVIOUS
<1> DEFINE received == [e \in Endpoint |-> tcb[e].byte_output]
           open == [e \in Endpoint |-> Running(e)]
           other == [e \in Endpoint |-> peer(e)]
<1>1. /\ handed \in [Endpoint -> Nat]
      /\ \A e \in Endpoint : HoldsAt(e)
      /\ \A e \in Endpoint : /\ peer(e) \in Endpoint /\ peer(peer(e)) = e /\ peer(e) # e
                             /\ \A f \in Endpoint : f = e \/ f = peer(e)
      /\ \A e \in Endpoint : WellTyped(tcb[e])
  BY InvariantByEndpoint, PeerProperties, TypeOKByEndpoint DEF Endpoint, peer
<1>2. /\ \A e \in Endpoint : Running(e) <=> Live(tcb[e])
      /\ \A e \in Endpoint : Running(e)' <=> Live(tcb'[e])
  BY DEF Running, Live
<1>3. ASSUME \A e \in Endpoint : SameReceived(tcb[e], tcb'[e])
      PROVE  received' = received
  BY <1>3 DEF SameReceived
<1>4. ASSUME \A e \in Endpoint : Live(tcb'[e]) <=> Live(tcb[e])
      PROVE  open' = open
  <2>1. \A e \in Endpoint : Running(e)' = Running(e)
    BY <1>2, <1>4 DEF Running
  <2>2. QED
    BY <2>1, Zenon
<1>5. UNCHANGED <<handed, received, open>> => UNCHANGED Abstract!streamVars
  BY DEF Abstract!streamVars
<1>6. ASSUME NEW e \in Endpoint, Running(e),
             NEW n \in handed[e] + 1 .. Len(Stream[e]), handed' = [handed EXCEPT ![e] = n],
             UNCHANGED <<received, open>>
      PROVE  Abstract!Next
  BY <1>6 DEF Abstract!Next, Abstract!HandOver
<1>7. ASSUME NEW e \in Endpoint, Running(e), e \in Closers \/ ~ Running(peer(e)),
             open' = [open EXCEPT ![e] = FALSE], UNCHANGED <<handed, received>>
      PROVE  Abstract!Next
  BY <1>1, <1>7 DEF Abstract!Next, Abstract!Shut
<1>8. ASSUME NEW e \in Endpoint, Running(e),
             NEW n \in Len(tcb[e].byte_output) + 1 .. handed[peer(e)],
             received' = [received EXCEPT ![e] = SubSeq(Stream[peer(e)], 1, n)],
             UNCHANGED <<handed, open>>
      PROVE  Abstract!Next
  BY <1>1, <1>8 DEF Abstract!Next, Abstract!Deliver
<1>9. ASSUME NEW e \in Endpoint, ~ Live(tcb'[e]),
              \A f \in Endpoint : f # e => (Live(tcb'[f]) <=> Live(tcb[f]))
       PROVE  open' = [open EXCEPT ![e] = FALSE]
  <2>1. \A f \in Endpoint : Running(f)' = IF f = e THEN FALSE ELSE Running(f)
    BY <1>2, <1>9 DEF Running
  <2>2. open' = [f \in Endpoint |-> IF f = e THEN FALSE ELSE Running(f)]
    BY <2>1, Zenon
  <2>3. QED
    BY <2>2, Zenon
<1> HIDE DEF received, open
<1>10. ASSUME NEW e \in Endpoint, Close(e) PROVE Abstract!Next
  <2>1. /\ \A f \in Endpoint : f # e => tcb'[f] = tcb[f]
        /\ SameReceived(tcb[e], tcb'[e])
        /\ ~ Live(tcb'[e])
    BY <1>10, QuietSteps
  <2>2. \A f \in Endpoint : SameReceived(tcb[f], tcb'[f])
    BY <2>1 DEF SameReceived
  <2>3. Running(e) /\ e \in Closers /\ handed' = handed
    BY <1>10 DEF Close, Running
  <2>4. open' = [open EXCEPT ![e] = FALSE]
    BY <1>9, <2>1
  <2>5. QED
    BY <1>3, <1>7, <2>2, <2>3, <2>4
<1>11. ASSUME NEW e \in Endpoint,
             \/ e = Client /\ SendSyn
             \/ Timeout(e)
             \/ \E seg \in tcb[e].socket : Lose(e, seg)
      PROVE  Abstract!Next \/ UNCHANGED Abstract!streamVars
  <2>1. /\ \A f \in Endpoint : f # e => tcb'[f] = tcb[f]
        /\ SameReceived(tcb[e], tcb'[e])
        /\ ~ Close(e) => (Live(tcb'[e]) <=> Live(tcb[e]))
        /\ Close(e) => ~ Live(tcb'[e])
    BY <1>11, QuietSteps
  <2>2. \A f \in Endpoint : SameReceived(tcb[f], tcb'[f])
    BY <2>1 DEF SameReceived
  <2>3. handed' = handed
    BY <1>11 DEF SendSyn, Timeout, Lose
  <2>4. CASE Close(e)
    BY <1>10, <2>4
  <2>5. CASE ~ Close(e)
    <3>1. received' = received
      BY <1>3, <2>2
    <3>2. \A f \in Endpoint : Live(tcb'[f]) <=> Live(tcb[f])
      BY <2>1, <2>5
    <3>3. open' = open
      BY <1>4, <3>2
    <3>4. QED
      BY <1>5, <2>3, <3>1, <3>3
  <2>6. QED
    BY <2>4, <2>5
<1>12. ASSUME NEW e \in Endpoint, Send(e) PROVE Abstract!Next
  <2>1. /\ \A f \in Endpoint : f # e => tcb'[f] = tcb[f]
        /\ SameReceived(tcb[e], tcb'[e])
        /\ ~ Close(e) => (Live(tcb'[e]) <=> Live(tcb[e]))
    BY <1>12, QuietSteps
  <2>2. \A f \in Endpoint : SameReceived(tcb[f], tcb'[f])
    BY <2>1 DEF SameReceived
  <2>3. PICK n \in 1 .. min(MaxSend, Len(Stream[e]) - handed[e]) :
          handed' = [handed EXCEPT ![e] = @ + n]
    BY <1>12 DEF Send
  <2>4. handed[e] + n \in handed[e] + 1 .. Len(Stream[e]) /\ handed'[e] # handed[e]
    BY <1>1, <2>3, ConnectionAssumption, Numbers DEF min
  <2>5. ~ Close(e)
    BY <2>4 DEF Close
  <2>6. handed' = [handed EXCEPT ![e] = handed[e] + n] /\ Running(e)
    BY <1>12, <2>3 DEF Send
  <2>7. QED
    BY <1>3, <1>4, <1>6, <2>1, <2>2, <2>4, <2>5, <2>6
<1>13. ASSUME NEW e \in Endpoint, NEW seg \in tcb[peer(e)].socket, Receive(e, seg)
       PROVE  Abstract!Next \/ UNCHANGED Abstract!streamVars
  <2> DEFINE p == peer(e)
  <2>1. /\ \A f \in Endpoint : HoldsAt(f)'
        /\ SameButOutput(tcb[p], tcb'[p])
        /\ tcb'[e].state = "Closed" <=> "FIN" \in seg.flags
        /\ "FIN" \in seg.flags => /\ tcb'[e].byte_output = tcb[e].byte_output
                                  /\ tcb[p].state = "Closed"
    BY <1>13, ReceiveEffect
  <2>2. Running(e) /\ handed' = handed /\ p \in Endpoint /\ p # e
    BY <1>1, <1>13 DEF Receive
  <2>3. /\ tcb'[p].byte_output = tcb[p].byte_output
        /\ Live(tcb'[p]) <=> Live(tcb[p])
    BY <2>1 DEF SameButOutput, Live
  <2>4. CASE "FIN" \in seg.flags
    <3>1. received' = received
      BY <1>1, <2>1, <2>3, <2>4 DEF received
    <3>2. open' = [open EXCEPT ![e] = FALSE]
      <4>1. ~ Live(tcb'[e])
        BY <2>1, <2>4 DEF Live
      <4>2. \A f \in Endpoint : f # e => (Live(tcb'[f]) <=> Live(tcb[f]))
        BY <1>1, <2>3
      <4>3. QED
        BY <1>9, <4>1, <4>2
    <3>3. ~ Running(p)
      BY <2>1, <2>4 DEF Running
    <3>4. QED
      BY <1>7, <2>2, <3>1, <3>2, <3>3
  <2>5. CASE "FIN" \notin seg.flags
    <3> DEFINE m == Len(tcb[e].byte_output)
               n == Len(tcb'[e].byte_output)
    <3>1. Live(tcb'[e]) /\ Live(tcb[e])
      <4>1. tcb'[e].state # "Panicked"
        BY <2>1 DEF HoldsAt, Holds, InStep, Phase
      <4>2. QED
        BY <1>2, <2>1, <2>2, <2>5, <4>1 DEF Live
    <3>2. open' = open
      BY <1>1, <1>4, <2>3, <3>1
    <3>3. /\ tcb[e].byte_output = SubSeq(Stream[p], 1, m) /\ m \in Nat
      BY <1>1, OutputIsPrefix, Fields DEF HoldsAt
    <3>4. /\ tcb'[e].byte_output = SubSeq(Stream[p], 1, n)
          /\ n <= SentBy(p, tcb'[p]) /\ n \in Nat
      BY <2>1, OutputIsPrefix, Fields DEF HoldsAt, Holds
    <3>5. n <= handed[p]
      <4>1. HoldsAt(p)'
        BY <2>1, <2>2
      <4>2. /\ SentBy(p, tcb'[p]) <= handed'[p] /\ SentBy(p, tcb'[p]) \in Nat
            /\ handed'[p] \in Nat
        BY <2>2, <4>1, Positions DEF HoldsAt
      <4> HIDE DEF n
      <4>3. QED
        BY <2>2, <3>4, <4>2
    <3>6. m <= n
      <4>1. Grows(e, tcb[e], tcb'[e])
        BY <1>13, ReceiveEffect
      <4>2. QED
        BY <4>1 DEF Grows
    <3> HIDE DEF m, n
    <3>7. CASE n = m
      <4>1. tcb'[e].byte_output = tcb[e].byte_output
        BY <3>3, <3>4, <3>7
      <4>2. received' = received
        BY <1>1, <2>3, <4>1 DEF received
      <4>3. QED
        BY <1>5, <2>2, <3>2, <4>2
    <3>8. CASE n # m
      <4>1. n \in m + 1 .. handed[p]
        <5>1. handed[p] \in Nat
          BY <1>1, <2>2
        <5>2. QED
          BY <3>3, <3>4, <3>5, <3>6, <3>8, <5>1
      <4>2. received' = [received EXCEPT ![e] = SubSeq(Stream[p], 1, n)]
        BY <1>1, <2>3, <3>4 DEF received
      <4>3. QED
        BY <1>8, <2>2, <3>2, <4>1, <4>2 DEF m
    <3>9. QED
      BY <3>7, <3>8
  <2>6. QED
    BY <2>4, <2>5
<1>14. CASE UNCHANGED vars
  <2>1. handed' = handed /\ tcb' = tcb
    BY <1>14 DEF vars
  <2>2. received' = received /\ open' = open
    BY <1>3, <1>4, <2>1 DEF SameReceived
  <2>3. QED
    BY <1>5, <2>1, <2>2
<1>15. SendSyn => Abstract!Next \/ UNCHANGED Abstract!streamVars
  BY <1>11 DEF Endpoint
<1>16. QED
  BY <1>11, <1>12, <1>10, <1>13, <1>14, <1>15 DEF Next

(* The connection implements the byte stream that its applications rely on *)
(* (TCBInput::Send and TCB::recv): every step of a TCB thread and of the   *)
(* network hands over, delivers or shuts, or changes nothing the           *)
(* applications see.                                                       *)
THEOREM ConnectionImplementsByteStream == Spec => ImplementsByteStream
<1>1. QED
  BY InitIsByteStream, StepIsByteStream, DeliveryInvariantHolds, PTL
     DEF Spec, ImplementsByteStream, Abstract!Spec
=============================================================================
