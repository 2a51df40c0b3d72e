------------------------------ MODULE Sessions ------------------------------
(***************************************************************************)
(* Why the server's files hold strings: what is assumed of the clients,    *)
(* and an inductive invariant of Server.                                   *)
(*                                                                         *)
(* A client at p sends text[p], the strings of its session one after the   *)
(* other, and each client at p sends the same.  It starts at sequence      *)
(* number 1, as TCB::new does (tcp.rs 84), and what it sends at a sequence *)
(* number is what stands in text[p] there.                                 *)
(***************************************************************************)
EXTENDS Server

CONSTANT Text   \* Text[p]: what the clients at p say

\* the sequence number of the byte that follows n others
NumberOf(n) == wrapping_add(wrapping_add(1, 1), n)

(***************************************************************************)
(* Where a string starts in T: at the front, and where the length that     *)
(* stands in front of the last one says that it ends.                      *)
(***************************************************************************)
ClosedUnderStrings(T, B) ==
    /\ 0 \in B
    /\ \A b \in B : b < Len(T) /\ b + T[b + 1] + 1 <= Len(T) => b + T[b + 1] + 1 \in B

Starts(T) == {b \in 0 .. Len(T) :
                \A B \in SUBSET (0 .. Len(T)) : ClosedUnderStrings(T, B) => b \in B}

\* strings, of which the last may be incomplete
Strings(T) ==
    \A b \in Starts(T) : b < Len(T) =>
        \A j \in 1 .. T[b + 1] : b + 1 + j <= Len(T) => T[b + 1 + j] \in Char

PlacedIn(T, seg) ==
    \E i \in 0 .. Len(T) - 1 :
        /\ seg.seq_num = NumberOf(i)
        /\ i + Len(seg.payload) <= Len(T)
        /\ \A j \in 1 .. Len(seg.payload) : seg.payload[j] = T[i + j]

ClientsTalk(text) ==
    /\ text \in [Peer -> Seq(Byte)]
    /\ \A p \in Peer :
         /\ Strings(text[p])
         /\ Len(text[p]) + WINDOW_SIZE <= SEQ_SPACE
         /\ \A seg \in Sent[p] :
              /\ "SYN" \in seg.flags => seg.seq_num = 1
              /\ seg.payload # << >> => PlacedIn(text[p], seg)

ASSUME TextAssumption == ClientsTalk(Text)

-----------------------------------------------------------------------------
\* output and window hold bytes of T, in their places
HoldsText(T, t) ==
    /\ Len(t.byte_output) <= Len(T)
    /\ \A i \in 1 .. Len(t.byte_output) : t.byte_output[i] = T[i]
    /\ \A i \in Slot : t.recv_window[i] # None =>
         /\ Len(t.byte_output) + i + 1 <= Len(T)
         /\ t.recv_window[i] = T[Len(t.byte_output) + i + 1]

Received(T, t) ==
    /\ HoldsText(T, t)
    /\ t.state # "SynSent"
    /\ t.state = "Listen" => t.byte_output = << >>
    /\ t.state \in {"SynRecd", "Estab"} => t.ack_base = NumberOf(Len(t.byte_output))

\* a session stands where a string starts, and its TCB is given what p sends
SessionInStep(text, p, c) ==
    /\ Received(text[p], c.tcb)
    /\ c.read \in Starts(text[p])
    /\ \A k \in 1 .. Len(c.input) : c.input[k].kind = "Receive" => c.input[k].seg \in Sent[p]

(* Every TCB of the server holds a part of its client's text in its place, *)
(* whichever earlier connection of that client a datagram is of, and every *)
(* session has read whole strings (tcp.rs 165-211, lib.rs 49-70).          *)
SessionInvariant(text) ==
    \A p \in Peer :
        /\ files[p] \in Seq(Char)
        /\ \A i \in DOMAIN conns[p] : SessionInStep(text, p, conns[p][i])

(* This is so if each client says Text (lib.rs 49-70, tcp.rs 165-211).     *)
SessionsInStep == SessionInvariant(Text)

\* the string that starts at b, and where the next one does
StringAt(T, b) == SubSeq(T, b + 2, b + 1 + T[b + 1])
After(T, b) == b + 1 + T[b + 1]

(* A file grows only by a string that its client says, when a session goes *)
(* from the start of that string to the start of the next: no session      *)
(* writes a string twice or out of turn, also when data of an earlier      *)
(* connection comes into its window and the session of that one has still  *)
(* strings to write (lib.rs 66-70, tcp.rs 165-211).                        *)
FilesGrowByStrings ==
    [][\A p \in Peer : files'[p] # files[p] =>
         \E i \in DOMAIN conns[p] : LET b == conns[p][i].read IN
             /\ b \in Starts(Text[p]) /\ b < Len(Text[p]) /\ After(Text[p], b) <= Len(Text[p])
             /\ files'[p] = files[p] \o StringAt(Text[p], b)
             /\ conns'[p][i].read = After(Text[p], b)]_vars
=============================================================================
