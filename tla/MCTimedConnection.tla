------------------------- MODULE MCTimedConnection --------------------------
(***************************************************************************)
(* Instances of TimedConnection.  The server's stream ends where the       *)
(* sequence numbers wrap around, so that the client is left with an        *)
(* ack_base of 0; the client's is longer than the window.                  *)
(***************************************************************************)
EXTENDS TimedConnection, MCConnection

EndsAtZero == Client :> 1 @@ Server :> 14
LopsidedStream == Client :> <<1, 2, 3>> @@ Server :> <<6>>
=============================================================================
