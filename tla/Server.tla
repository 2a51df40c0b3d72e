------------------------------- MODULE Server -------------------------------
(***************************************************************************)
(* The server program of lib.rs: the main thread, which hands each datagram*)
(* to the TCB of the address it came from, and per connection the thread   *)
(* of its TCB (run_tcp) and the thread of its session (run_server_tcb),    *)
(* which keeps the connection's file.                                      *)
(*                                                                         *)
(* Threads share the channels into the TCBs, the byte channels out of      *)
(* them, and the files.  One action is one access to what is shared.  The  *)
(* clients are not modelled: a client may by now have sent any segment of  *)
(* Sent[p], in this connection or in one before it on the same addresses,  *)
(* and the network may deliver it at any time and any number of times, but *)
(* an ACK only after a connection of p has sent what it acknowledges.      *)
(*                                                                         *)
(* A character is one byte, and the length that send_str puts before a     *)
(* string is one byte here and four in the code, where it is cut to a u32. *)
(***************************************************************************)
EXTENDS Tcb

CONSTANTS
    Peer,           \* the addresses that datagrams come from
    Sent,           \* Sent[p]: the segments that clients at p send
    MAX_BYTE,       \* the largest byte
    Char,           \* the characters of a string
    Failing,        \* the peers whose file may fail to open
    MaxConns,       \* bound: the connections of one peer
    MaxInput        \* bound: the inputs that wait for one TCB

ASSUME ServerAssumption ==
    /\ Sent \in [Peer -> SUBSET Segment]
    /\ MAX_BYTE \in Nat
    /\ Byte = 0 .. MAX_BYTE
    /\ Char \subseteq Byte
    /\ Failing \subseteq Peer
    /\ MaxConns \in Nat /\ MaxInput \in Nat

VARIABLES
    channels,   \* channels[p]: the connection that the map holds for p, or 0
    conns,      \* conns[p]: the connections of p, in the order of creation
    files       \* files[p]: the contents of the file of p

vars == <<channels, conns, files>>

Receive(seg) == [kind |-> "Receive", seg |-> seg]
Send(data)   == [kind |-> "Send", data |-> data]
Close        == [kind |-> "Close"]

TCBInput == {Receive(seg) : seg \in UNION {Sent[p] : p \in Peer}}
            \cup [kind : {"Send"}, data : Seq(Byte)] \cup {Close}

(***************************************************************************)
(* A connection: its TCB, the channel `input' into it, whether the TCB has *)
(* been dropped with its end of both channels, how much its session has    *)
(* `read' of the byte channel, the string the session holds, and where the *)
(* session is.                                                             *)
(***************************************************************************)
Conn == [tcb     : TCB,
         input   : Seq(TCBInput),
         dropped : BOOLEAN,
         read    : Nat,
         string  : Seq(Byte),
         session : {"Starting", "Reading", "Echoing", "Refused", "Ended"}]

NewConn(seg) == [tcb     |-> new(1),
                 input   |-> << Receive(seg) >>,
                 dropped |-> FALSE,
                 read    |-> 0,
                 string  |-> << >>,
                 session |-> "Starting"]

TypeOK ==
    /\ channels \in [Peer -> Nat]
    /\ conns \in [Peer -> Seq(Conn)]
    /\ files \in [Peer -> Seq(Byte)]
    /\ \A p \in Peer :
         /\ channels[p] \in 0 .. Len(conns[p])
         /\ \A i \in DOMAIN conns[p] :
              /\ Len(conns[p][i].tcb.send_window) <= WINDOW_SIZE
              /\ conns[p][i].tcb.dupe_acks < 3
              /\ conns[p][i].read <= Len(conns[p][i].tcb.byte_output)

Init ==
    /\ channels = [p \in Peer |-> 0]
    /\ conns = [p \in Peer |-> << >>]
    /\ files = [p \in Peer |-> << >>]

-----------------------------------------------------------------------------
(* The main thread: multiplexed_receive.                                   *)

\* the map has a sender for p, and the TCB at its other end still exists
Never_valid_channel_found(p) == FALSE
valid_channel_found(p) == channels[p] # 0 /\ ~ conns[p][channels[p]].dropped

\* an ACK answers a datagram that this server has sent to p
next_seq(seg) == wrapping_add(seg.seq_num, IF "SYN" \in seg.flags THEN 1 ELSE Len(seg.payload))
answers(p, ack) == \E i \in DOMAIN conns[p] : \E seg \in conns[p][i].tcb.socket :
    ack.ack_num = next_seq(seg)

multiplexed_receive(p, seg) ==
    LET c == channels[p] IN
    /\ seg \in Sent[p]
    /\ "ACK" \in seg.flags => answers(p, seg)
    /\ \/ /\ valid_channel_found(p)
          /\ Len(conns[p][c].input) < MaxInput
          /\ conns' = [conns EXCEPT ![p][c].input = Append(@, Receive(seg))]
          /\ UNCHANGED channels
       \/ /\ ~ valid_channel_found(p)
          /\ Len(conns[p]) < MaxConns
          /\ conns' = [conns EXCEPT ![p] = Append(@, NewConn(seg))]
          /\ channels' = [channels EXCEPT ![p] = Len(conns[p]) + 1]
    /\ UNCHANGED files

-----------------------------------------------------------------------------
(* The thread of a TCB.                                                    *)

Running(c) == c.tcb.state \notin {"Closed", "Panicked"}

\* byte_output.send().unwrap(): no byte goes to a session that has ended
panics_on_output(c, seg) ==
    /\ c.session \in {"Refused", "Ended"}
    /\ handle_seg(c.tcb, seg).byte_output # c.tcb.byte_output

\* one input: the arms of handle_input_recv
handled(c, in) ==
    CASE in.kind = "Receive" /\ panics_on_output(c, in.seg) ->
           [handle_shake(handle_acks(c.tcb, in.seg), in.seg) EXCEPT !.state = "Panicked"]
      [] in.kind = "Receive" /\ ~ panics_on_output(c, in.seg) -> handle_seg(c.tcb, in.seg)
      [] in.kind = "Send" -> send(c.tcb, in.data)
      [] in.kind = "Close" -> send_close(c.tcb)

HandleInput(p, i) == LET c == conns[p][i] IN
    /\ Running(c)
    /\ c.input # << >>
    /\ conns' = [conns EXCEPT ![p][i].tcb = handled(c, Head(c.input)),
                              ![p][i].input = Tail(@)]
    /\ UNCHANGED <<channels, files>>

Timeout(p, i) == LET c == conns[p][i] IN
    /\ Running(c)
    /\ c.input = << >>
    /\ conns' = [conns EXCEPT ![p][i].tcb = handle_resend(@)]
    /\ UNCHANGED <<channels, files>>

\* run_tcp has returned, or the thread has panicked: the closure drops the TCB
Drop(p, i) == LET c == conns[p][i] IN
    /\ ~ Running(c)
    /\ ~ c.dropped
    /\ conns' = [conns EXCEPT ![p][i].dropped = TRUE]
    /\ UNCHANGED <<channels, files>>

-----------------------------------------------------------------------------
(* The thread of a session: run_server_tcb.                                *)

\* what send_str puts into a channel
encoded(s) == << Len(s) % (MAX_BYTE + 1) >> \o s

\* input.send: without effect when the TCB is gone
enqueue(c, in) == IF c.dropped THEN c ELSE [c EXCEPT !.input = Append(@, in)]

\* recv_str: what has come out of the byte channel, and the string it begins with
unread(c) == Dropped(c.tcb.byte_output, c.read)
complete(c) == unread(c) # << >> /\ Len(unread(c)) > Head(unread(c))
Prefixed_recv_str(c) == Taken(unread(c), Head(unread(c)) + 1)
recv_str(c) == Taken(Tail(unread(c)), Head(unread(c)))

\* get_file fails: Close, and the session is over
NoClose_refuse(c) == [c EXCEPT !.session = "Refused"]
refuse(c) == [enqueue(c, Close) EXCEPT !.session = "Refused"]

\* the file is opened, read, and sent
greet(c, contents) == [enqueue(c, Send(encoded(contents))) EXCEPT !.session = "Reading"]

Open(p, i) == LET c == conns[p][i] IN
    /\ c.session = "Starting"
    /\ \/ p \in Failing /\ conns' = [conns EXCEPT ![p][i] = refuse(@)]
       \/ conns' = [conns EXCEPT ![p][i] = greet(@, files[p])]
    /\ UNCHANGED <<channels, files>>

Read(p, i) == LET c == conns[p][i] IN
    /\ c.session = "Reading"
    /\ complete(c)
    /\ files' = [files EXCEPT ![p] = @ \o recv_str(c)]
    /\ conns' = [conns EXCEPT ![p][i].session = "Echoing",
                              ![p][i].string = recv_str(c),
                              ![p][i].read = @ + Head(unread(c)) + 1]
    /\ UNCHANGED channels

\* send_str fails when the TCB is gone
echoed(c) == [enqueue(c, Send(encoded(c.string))) EXCEPT
                !.session = IF c.dropped THEN "Ended" ELSE "Reading", !.string = << >>]

Echo(p, i) == LET c == conns[p][i] IN
    /\ c.session = "Echoing"
    /\ conns' = [conns EXCEPT ![p][i] = echoed(@)]
    /\ UNCHANGED <<channels, files>>

\* recv_str fails: the TCB is gone and nothing more will come
Retrying_hung_up(c) == FALSE
hung_up(c) == c.dropped /\ ~ complete(c)

HangUp(p, i) == LET c == conns[p][i] IN
    /\ c.session = "Reading"
    /\ hung_up(c)
    /\ conns' = [conns EXCEPT ![p][i].session = "Ended"]
    /\ UNCHANGED <<channels, files>>

-----------------------------------------------------------------------------
Thread(p, i) ==
    \/ HandleInput(p, i) \/ Timeout(p, i) \/ Drop(p, i)
    \/ Open(p, i) \/ Read(p, i) \/ Echo(p, i) \/ HangUp(p, i)

Next == \E p \in Peer :
    \/ \E seg \in Sent[p] : multiplexed_receive(p, seg)
    \/ \E i \in DOMAIN conns[p] : Thread(p, i)

Spec == Init /\ [][Next]_vars

(***************************************************************************)
(* Threads make progress: a TCB handles what waits for it and is dropped   *)
(* once its thread ends, and a session does not stop at a step it can      *)
(* take.  Drop and the steps of a session disable themselves, so that weak *)
(* fairness says that infinitely often they cannot be taken; that of       *)
(* HandleInput has its ENABLED written out.  Nothing is assumed of the     *)
(* network.                                                                *)
(***************************************************************************)
Exists(p, i) == i \in DOMAIN conns[p]

\* a TCB that has ended is dropped, and a session takes the step it can take
StepsOn(p, i) == LET c == conns[p][i] IN
    /\ []<>(Exists(p, i) => Running(c) \/ c.dropped)
    /\ []<>(Exists(p, i) => c.session # "Starting")
    /\ []<>(Exists(p, i) => c.session # "Echoing")
    /\ []<>(Exists(p, i) => ~ (c.session = "Reading" /\ (complete(c) \/ hung_up(c))))

Fairness == \A p \in Peer : \A i \in 1 .. MaxConns :
    /\ \/ []<>(Exists(p, i) => ~ Running(conns[p][i]) \/ conns[p][i].input = << >>)
       \/ []<><<Exists(p, i) /\ HandleInput(p, i)>>_vars
    /\ StepsOn(p, i)

LiveSpec == Spec /\ Fairness

-----------------------------------------------------------------------------
(* A peer never has two TCBs that run, and the one that runs is the one    *)
(* its datagrams go to: a new connection starts only when the last one is  *)
(* over, and no TCB is left without a sender (lib.rs 99-128).              *)
OneLiveTcb ==
    \A p \in Peer : \A i \in DOMAIN conns[p] :
        Running(conns[p][i]) => channels[p] = i

(* The file of a peer holds characters only, however the strings were cut  *)
(* into segments and whichever sessions wrote them: no length is taken for *)
(* a character and the other way round (lib.rs 49-52, 66-70).              *)
FilesHoldStrings == \A p \in Peer : files[p] \in Seq(Char)

(* A session ends when its TCB has gone: no thread is left waiting for     *)
(* bytes that cannot come (lib.rs 66-80).                                  *)
SessionsEnd ==
    \A p \in Peer : \A i \in 1 .. MaxConns :
        (Exists(p, i) /\ conns[p][i].dropped)
            ~> (Exists(p, i) /\ conns[p][i].session \in {"Refused", "Ended"})

(* A connection whose file cannot be opened does not stay: its TCB ends    *)
(* whatever the client does (lib.rs 55-60).                                *)
RefusedConnectionsEnd ==
    \A p \in Peer : \A i \in 1 .. MaxConns :
        (Exists(p, i) /\ conns[p][i].session = "Refused")
            ~> (Exists(p, i) /\ conns[p][i].dropped)

(* "Errors when Closed" (lib.rs 71): a session's send fails only because   *)
(* its connection was closed.                                              *)
ErrorsWhenClosed ==
    \A p \in Peer : \A i \in DOMAIN conns[p] :
        conns[p][i].dropped => conns[p][i].tcb.state = "Closed"

(* A client whose file cannot be opened learns of it (server_close_test,   *)
(* lib.rs 325): the TCB of its connection is not dropped before it has     *)
(* sent a FIN, unless the client has sent one.                             *)
RefusalIsSent ==
    \A p \in Peer : \A i \in DOMAIN conns[p] :
        conns[p][i].session = "Refused" /\ conns[p][i].dropped =>
            \E seg \in conns[p][i].tcb.socket \cup Sent[p] : "FIN" \in seg.flags
=============================================================================
