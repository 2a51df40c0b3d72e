---------------------------- MODULE TimedProofs -----------------------------
(***************************************************************************)
(* Theorems about a connection with a clock.                               *)
(***************************************************************************)
EXTENDS TimedConnection, RetransmissionProofs

(* The clock only takes behaviours away: a timed connection is a           *)
(* Connection, so that what is proved and checked of the safety of         *)
(* Connection holds of it (tcp.rs 105-125).                                *)
LEMMA TimedImplementsConnection == TimedSpec => Spec
<1>1. TimedInit => Init
  BY DEF TimedInit
<1>2. [TimedNext]_timedVars => [Next]_vars
  <2> SUFFICES ASSUME [TimedNext]_timedVars PROVE [Next]_vars
    OBVIOUS
  <2>1. CASE TimedSendSyn
    BY <2>1 DEF TimedSendSyn, Next
  <2>2. CASE Tick
    BY <2>2 DEF Tick
  <2>3. ASSUME NEW e \in Endpoint, TimedSend(e) \/ TimedClose(e) \/ TimedTimeout(e)
        PROVE  Next
    BY <2>3 DEF TimedSend, TimedClose, TimedTimeout, Next
  <2>4. ASSUME NEW e \in Endpoint, NEW seg \in tcb[peer(e)].socket, TimedReceive(e, seg)
        PROVE  Next
    BY <2>4 DEF TimedReceive, Next
  <2>5. ASSUME NEW e \in Endpoint, NEW seg \in tcb[e].socket, TimedLose(e, seg)
        PROVE  Next
    BY <2>5 DEF TimedLose, Next
  <2>6. CASE UNCHANGED timedVars
    BY <2>6 DEF timedVars, vars
  <2>7. QED
    BY <2>1, <2>2, <2>3, <2>4, <2>5, <2>6 DEF TimedNext
<1>3. QED
  BY <1>1, <1>2, PTL DEF TimedSpec, Spec

(* So the invariant of a connection, and the byte stream, survive any      *)
(* timing: an end that is never due, one that is due all the time, and     *)
(* closes at any moment (tcp.rs 105-125).                                  *)
THEOREM TimedDelivery == TimedSpec => [](TypeOK /\ DeliveryInvariant)
BY TimedImplementsConnection, DeliveryInvariantHolds, PTL

(* And a connection with a clock is a byte stream to its applications.     *)
THEOREM TimedImplementsByteStream == TimedSpec => ImplementsByteStream
BY TimedImplementsConnection, ConnectionImplementsByteStream, PTL

(* Whenever a timeout comes, everything in flight is there to be sent      *)
(* again, the oldest byte first (tcp.rs 119-121, 302-307).                 *)
THEOREM TimedUnackedCoversWindow == TimedSpec => []UnackedCoversWindow
BY TimedImplementsConnection, UnackedAlwaysCoversWindow, PTL
=============================================================================
