------------------------------ MODULE MCServer ------------------------------
(***************************************************************************)
(* Instances of Server.  A client sends its SYN, ACKs of what the server   *)
(* sends, the string "7" in two segments, of which the first holds the     *)
(* length, or the strings "7" and "8" in a segment each, and its FIN.      *)
(***************************************************************************)
EXTENDS Sessions, TLC

CONSTANTS p1, p2

MCBytes == 0 .. 9
MCChars == 7 .. 9

Syn == [make_seg EXCEPT !.flags = {"SYN"}, !.seq_num = 1]
Ack(n) == [make_seg EXCEPT !.flags = {"ACK"}, !.ack_num = n]
Data(n, bytes) == [make_seg EXCEPT !.seq_num = n, !.payload = bytes]
Fin(n) == [make_seg EXCEPT !.flags = {"FIN"}, !.seq_num = n]

\* 2 acknowledges the SYN-ACK, 3 the empty file
Split == {Syn, Ack(2), Ack(3), Data(2, <<1>>), Data(3, <<7>>), Fin(4)}
Two == {Syn, Ack(2), Data(2, <<1, 7>>), Data(4, <<1, 8>>), Fin(6)}

\* what the clients at an address say
MCText == [p \in Peer |-> IF p = p1 THEN <<1, 7>> ELSE << >>]
MCTwoStrings == [p \in Peer |-> <<1, 7, 1, 8>>]

OneReturns == p1 :> Two
OneTalksOneRefused == p1 :> Split @@ p2 :> {Syn, Ack(2)}
OneTalks == p1 :> Split
OneEager == p1 :> {Syn, Ack(2), Data(2, <<1>>)}
=============================================================================
