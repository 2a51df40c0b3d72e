------------------------------ MODULE MCSystem ------------------------------
(***************************************************************************)
(* An instance of System: one address, where the client is run again and   *)
(* again.                                                                  *)
(***************************************************************************)
EXTENDS Clients

CONSTANT p1

MCBytes == 0 .. 9
MCChars == {7}
MCStory == << 7 >>

FromClient == [p \in Peer |-> ClientSegments]
MCText == [p \in Peer |-> client_text]
=============================================================================
