---------------------------- MODULE MCConnection ----------------------------
(***************************************************************************)
(* Instances of Connection.  A byte is a number that tells its place, so   *)
(* that a misplaced byte shows.  The client starts as TCB::new does; the   *)
(* server starts just below the end of the sequence space, as the test     *)
(* send_test does (tcp.rs 427), so its stream wraps around.                *)
(***************************************************************************)
EXTENDS Retransmission, TLC

MCBytes == 1 .. 9
MCInitialSeq == Client :> 1 @@ Server :> 13
LongStream == Client :> <<1, 2, 3, 4>> @@ Server :> <<6, 7, 8, 9>>
ShortStream == Client :> <<1, 2>> @@ Server :> <<6, 7>>
=============================================================================
