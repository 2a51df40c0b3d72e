------------------------------- MODULE MCWire -------------------------------
(***************************************************************************)
(* An instance of Wire with bytes of four values: ports and numbers at     *)
(* both ends of their range, payloads of even and odd length.              *)
(***************************************************************************)
EXTENDS Wire

MCPorts == {0, 15}
MCNumbers == {0, 100, 255}
MCPayloads == {<< >>, <<3>>, <<1, 2, 3>>, <<0, 3>>}
=============================================================================
