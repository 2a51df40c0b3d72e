----------------------------- MODULE ByteStream -----------------------------
(***************************************************************************)
(* What a connection promises its two applications: a byte stream in each  *)
(* direction.  The bytes an application hands over arrive at the other end *)
(* once, in order and unchanged, some time later or never; an end that is  *)
(* shut takes and delivers nothing more, and shuts only because its own    *)
(* application may close or because the other end is shut.                 *)
(***************************************************************************)
EXTENDS Integers, Sequences

CONSTANTS
    Endpoint,   \* the two ends
    Other,      \* Other[e]: the end that e talks to
    Stream,     \* Stream[e]: the bytes that the application at e sends
    Closers     \* the ends whose application may close

VARIABLES
    taken,      \* taken[e]: how many bytes of Stream[e] were handed over
    received,   \* received[e]: the bytes the application at e was given
    open        \* open[e]: e has not been shut

streamVars == <<taken, received, open>>

Init ==
    /\ taken = [e \in Endpoint |-> 0]
    /\ received = [e \in Endpoint |-> << >>]
    /\ open = [e \in Endpoint |-> TRUE]

HandOver(e) ==
    /\ open[e]
    /\ \E n \in taken[e] + 1 .. Len(Stream[e]) : taken' = [taken EXCEPT ![e] = n]
    /\ UNCHANGED <<received, open>>

Deliver(e) ==
    /\ open[e]
    /\ \E n \in Len(received[e]) + 1 .. taken[Other[e]] :
         received' = [received EXCEPT ![e] = SubSeq(Stream[Other[e]], 1, n)]
    /\ UNCHANGED <<taken, open>>

Shut(e) ==
    /\ open[e]
    /\ e \in Closers \/ ~ open[Other[e]]
    /\ open' = [open EXCEPT ![e] = FALSE]
    /\ UNCHANGED <<taken, received>>

Next == \E e \in Endpoint : HandOver(e) \/ Deliver(e) \/ Shut(e)

Spec == Init /\ [][Next]_streamVars
=============================================================================
