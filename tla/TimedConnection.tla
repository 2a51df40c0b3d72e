-------------------------- MODULE TimedConnection --------------------------
(***************************************************************************)
(* Connection with the clock that recv_timeout goes by.  A TCB times out   *)
(* when it has had no input for TIMEOUT: every input, a datagram of no use *)
(* to it included, makes it wait again from the start.                     *)
(*                                                                         *)
(* Time is counted in ticks.  An end whose wait is over times out before   *)
(* the next tick, unless an input comes first in that same moment; a       *)
(* datagram is in flight for as many ticks as the network likes.           *)
(***************************************************************************)
EXTENDS Connection

CONSTANT TIMEOUT    \* one second in the build

ASSUME TimeoutAssumption == TIMEOUT \in Nat \ {0}

VARIABLE left       \* left[e]: how many ticks recv_timeout at e still waits

timedVars == <<tcb, handed, losses, left>>

TimedInit ==
    /\ Init
    /\ left = [e \in Endpoint |-> TIMEOUT]

Due(e) == Running(e) /\ left[e] = 0

\* the TCB of e has handled something and calls recv_timeout again
Short_recv_timeout(e) == left' = [left EXCEPT ![e] = IF e = Client THEN 1 ELSE TIMEOUT]
recv_timeout(e) == left' = [left EXCEPT ![e] = TIMEOUT]

TimedSendSyn == SendSyn /\ recv_timeout(Client)
TimedSend(e) == Send(e) /\ recv_timeout(e)
TimedClose(e) == Close(e) /\ recv_timeout(e)
TimedReceive(e, seg) == Receive(e, seg) /\ recv_timeout(e)
TimedTimeout(e) == Due(e) /\ Timeout(e) /\ recv_timeout(e)
TimedLose(e, seg) == Lose(e, seg) /\ UNCHANGED left

Tick ==
    /\ \E e \in Endpoint : Running(e)
    /\ \A e \in Endpoint : ~ Due(e)
    /\ left' = [e \in Endpoint |-> IF Running(e) THEN left[e] - 1 ELSE left[e]]
    /\ UNCHANGED vars

TimedNext ==
    \/ TimedSendSyn
    \/ Tick
    \/ \E e \in Endpoint :
         \/ TimedSend(e)
         \/ TimedClose(e)
         \/ TimedTimeout(e)
         \/ \E seg \in tcb[peer(e)].socket : TimedReceive(e, seg)
         \/ \E seg \in tcb[e].socket : TimedLose(e, seg)

(***************************************************************************)
(* Time goes on, run_client opens the connection, and no datagram stays in *)
(* flight for ever.  Of a timeout only this is assumed: an end whose wait  *)
(* is over again and again does not find an input in that very moment each *)
(* time.  The two ends wait equally long, so that a resend of one may      *)
(* arrive just when the other is due.                                      *)
(***************************************************************************)
TimedFairness ==
    /\ WF_timedVars(Tick)
    /\ WF_timedVars(TimedSendSyn)
    /\ \A e \in Endpoint :
         /\ SF_timedVars(TimedTimeout(e))
         /\ \A seg \in Genuine(peer(e)) :
              []<>(Running(e) => seg \notin tcb[peer(e)].socket)

TimedSpec == TimedInit /\ [][TimedNext]_timedVars /\ TimedFairness

-----------------------------------------------------------------------------
ShutDown == \E e \in Endpoint : ~ Running(e)

(* The handshake completes at both ends unless one of them closes, however *)
(* the two timers fall: a lost SYN or SYN-ACK is sent again, although the  *)
(* SYNs that the client repeats start the server's wait afresh (tcp.rs     *)
(* 106, 119-121, 302-307).                                                 *)
TimedHandshakeCompletes == <>(ShutDown \/ \A e \in Endpoint : tcb[e].state = "Estab")

(* All that was handed over reaches the other application, unless an end   *)
(* closes: the resend that is needed is not held back for ever by what the *)
(* peer sends meanwhile, its own resends included (tcp.rs 106, 127-139,    *)
(* 213-234).  Streams end, so that this comes to each byte's arriving.     *)
TimedEventuallyDelivered ==
    []<>(ShutDown \/ \A e \in Endpoint : Len(Delivered(peer(e))) = handed[e])

(* When the applications have nothing more to send the connection falls    *)
(* silent: nothing is left that a timeout would send again, and no segment *)
(* is answered for ever, although an end whose ack_base is 0 acknowledges  *)
(* ACKs (tcp.rs 184-204, 217-225).                                         *)
FallsSilent ==
    <>[](\A e \in Endpoint : Running(e) =>
            tcb[e].unacked_segs = << >> /\ tcb[peer(e)].socket = {})
=============================================================================
