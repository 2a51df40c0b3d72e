------------------------------- MODULE System -------------------------------
(***************************************************************************)
(* The whole program: the server, and the client program run_client, which *)
(* may be run again and again on the same address.  Every datagram that    *)
(* reaches the server was sent by a client, and the other way round.       *)
(*                                                                         *)
(* A client process has three threads: main, the thread of its TCB, and    *)
(* the socket loop.  The client connects to 127.0.0.1 (lib.rs 153), and    *)
(* the network is taken to be as good as that: it may reorder datagrams,   *)
(* it delivers each once, and what is sent has been handled before a       *)
(* timeout ends or the program is started again (Prompt).                  *)
(***************************************************************************)
EXTENDS Server, SequencesExt

CONSTANTS
    Story,          \* the string that run_client sends
    Runs,           \* bound: how often the client program is run at an address
    MaxRefusals     \* bound: how often a file of an address fails to open

ASSUME SystemAssumption ==
    /\ Story \in Seq(Char)
    /\ Runs \in Nat /\ MaxRefusals \in Nat

VARIABLES
    client,         \* client[p]: the client process at p, the last one
    down            \* down[p]: the datagrams in flight from the server to p

systemVars == <<channels, conns, files, client, down>>

SendSyn == [kind |-> "SendSyn"]

(***************************************************************************)
(* A client has a TCB and a channel into it, as a connection of the server *)
(* has; `session' is where run_client is, `got' the strings that it has    *)
(* received, `run' the number of the process, `initial' what the file held *)
(* when it started, and `refused' the connections that had been refused by *)
(* then.  SendSyn is the first input of the channel.                       *)
(***************************************************************************)
NewClient(n, contents, before) ==
    [tcb     |-> new(1),
     input   |-> << SendSyn >>,
     dropped |-> FALSE,
     read    |-> 0,
     session |-> "Contents",
     got     |-> << >>,
     run     |-> n,
     initial |-> contents,
     refused |-> before]

Refused(p) == {i \in DOMAIN conns[p] : conns[p][i].session = "Refused"}

NoClient == [NewClient(0, << >>, {}) EXCEPT !.input = << >>, !.dropped = TRUE, !.session = "Done",
                                 !.tcb = handle_close(@)]

SystemInit ==
    /\ Init
    /\ client = [p \in Peer |-> NoClient]
    /\ down = [p \in Peer |-> {}]

Over(c) == c.session \in {"Done", "Died"}

-----------------------------------------------------------------------------
(* The network.                                                            *)

Prompt(p) ==
    /\ down[p] = {}
    /\ client[p].tcb.socket = {}
    /\ Running(client[p]) => client[p].input = << >>
    /\ \A i \in DOMAIN conns[p] : Running(conns[p][i]) => conns[p][i].input = << >>

Arrive(p, seg) ==
    /\ seg \in client[p].tcb.socket
    /\ multiplexed_receive(p, seg)
    /\ client' = [client EXCEPT ![p].tcb.socket = @ \ {seg}]
    /\ UNCHANGED down

\* the socket loop of the client; nothing listens when the process is over
socket_loop(p, seg) ==
    /\ seg \in down[p]
    /\ client[p].dropped \/ Len(client[p].input) < MaxInput
    /\ down' = [down EXCEPT ![p] = @ \ {seg}]
    /\ client' = IF Over(client[p]) THEN client
                 ELSE [client EXCEPT ![p] = enqueue(@, Receive(seg))]
    /\ UNCHANGED vars

-----------------------------------------------------------------------------
(* The server, whose datagrams go on their way.                            *)

unsent(t) == [t EXCEPT !.socket = {}]

ServerHandles(p, i) == LET c == conns[p][i] IN
    /\ HandleInput(p, i)
    /\ down' = [down EXCEPT
         ![p] = @ \cup handled([c EXCEPT !.tcb = unsent(@)], Head(c.input)).socket]
    /\ UNCHANGED client

ServerTimeout(p, i) ==
    /\ Prompt(p)
    /\ Timeout(p, i)
    /\ down' = [down EXCEPT ![p] = @ \cup handle_resend(unsent(conns[p][i].tcb)).socket]
    /\ UNCHANGED client

ServerSession(p, i) ==
    /\ Drop(p, i) \/ Open(p, i) \/ Read(p, i) \/ Echo(p, i) \/ HangUp(p, i)
    /\ Cardinality(Refused(p)') <= MaxRefusals
    /\ UNCHANGED <<client, down>>

-----------------------------------------------------------------------------
(* The client: the thread of its TCB.                                      *)

client_handled(c, in) == IF in = SendSyn THEN send_syn(c.tcb) ELSE handled(c, in)

ClientHandles(p) == LET c == client[p] IN
    /\ Running(c)
    /\ c.input # << >>
    /\ client' = [client EXCEPT ![p].tcb = client_handled(c, Head(c.input)),
                                ![p].input = Tail(@)]
    /\ UNCHANGED <<vars, down>>

ClientTimeout(p) ==
    /\ Prompt(p)
    /\ Running(client[p])
    /\ client' = [client EXCEPT ![p].tcb = handle_resend(@)]
    /\ UNCHANGED <<vars, down>>

ClientDrop(p) ==
    /\ ~ Running(client[p])
    /\ ~ client[p].dropped
    /\ client' = [client EXCEPT ![p].dropped = TRUE]
    /\ UNCHANGED <<vars, down>>

-----------------------------------------------------------------------------
(* The client: run_client.                                                 *)

\* the program is run again after it has returned
Start(p) ==
    /\ client[p].session = "Done"
    /\ client[p].run < Runs
    /\ Prompt(p)
    /\ client' = [client EXCEPT ![p] = NewClient(@.run + 1, files[p], Refused(p))]
    /\ UNCHANGED <<vars, down>>

\* recv_str, and then an input for the TCB
ask(c, in, next) == [enqueue(c, in) EXCEPT !.session = next,
                                           !.got = Append(@, recv_str(c)),
                                           !.read = @ + Head(unread(c)) + 1]

\* the file's contents have come: send_str(..).unwrap() of the string
Hasty_story_sent(c) ==
    enqueue(ask(c, Send(encoded(Story)), "Joining"), Close)
Impatient_story_sent(c) ==
    enqueue(ask(c, Send(encoded(Story)), IF c.dropped THEN "Died" ELSE "Echo"), Close)
story_sent(c) == ask(c, Send(encoded(Story)), IF c.dropped THEN "Died" ELSE "Echo")

\* the echo has come: Close, and then tcb_thread.join()
closed(c) == ask(c, Close, "Joining")

ReadContents(p) == LET c == client[p] IN
    /\ c.session = "Contents" /\ complete(c)
    /\ client' = [client EXCEPT ![p] = story_sent(@)]
    /\ UNCHANGED <<vars, down>>

ReadEcho(p) == LET c == client[p] IN
    /\ c.session = "Echo" /\ complete(c)
    /\ client' = [client EXCEPT ![p] = closed(@)]
    /\ UNCHANGED <<vars, down>>

\* recv_str(..).unwrap() on an error
Die(p) == LET c == client[p] IN
    /\ c.session \in {"Contents", "Echo"} /\ hung_up(c)
    /\ client' = [client EXCEPT ![p].session = "Died"]
    /\ UNCHANGED <<vars, down>>

Join(p) ==
    /\ client[p].session = "Joining" /\ client[p].dropped
    /\ client' = [client EXCEPT ![p].session = "Done"]
    /\ UNCHANGED <<vars, down>>

-----------------------------------------------------------------------------
ClientMain(p) == ReadContents(p) \/ ReadEcho(p) \/ Die(p) \/ Join(p)

Network(p) ==
    \/ \E seg \in client[p].tcb.socket : Arrive(p, seg)
    \/ \E seg \in down[p] : socket_loop(p, seg)

SystemNext == \E p \in Peer :
    \/ Network(p)
    \/ Start(p) \/ ClientMain(p)
    \/ ClientHandles(p) \/ ClientTimeout(p) \/ ClientDrop(p)
    \/ \E i \in DOMAIN conns[p] :
         ServerHandles(p, i) \/ ServerTimeout(p, i) \/ ServerSession(p, i)

SystemSpec == SystemInit /\ [][SystemNext]_systemVars

(***************************************************************************)
(* Threads step on, as in Server.  The system comes to rest again and      *)
(* again (Prompt), and an end that then always has something to send again *)
(* sends it.  Nobody is obliged to run the client.  ENABLED is written     *)
(* out, as it is in Server.                                                *)
(***************************************************************************)
AtRest(p, c) == Prompt(p) /\ (Running(c) => handle_resend(unsent(c.tcb)) = unsent(c.tcb))

MainStepsOn(p) == LET c == client[p] IN
    /\ []<>(Running(c) \/ c.dropped)
    /\ []<>~(c.session \in {"Contents", "Echo"} /\ (complete(c) \/ hung_up(c)))
    /\ []<>~(c.session = "Joining" /\ c.dropped)

SystemFairness == \A p \in Peer :
    /\ MainStepsOn(p)
    /\ []<>AtRest(p, client[p]) \/ []<><<ClientTimeout(p)>>_systemVars
    /\ \A i \in 1 .. MaxConns :
         /\ StepsOn(p, i)
         /\ \/ []<>(Exists(p, i) => AtRest(p, conns[p][i]))
            \/ []<><<Exists(p, i) /\ ServerTimeout(p, i)>>_systemVars

SystemLiveSpec == SystemSpec /\ SystemFairness

-----------------------------------------------------------------------------
(* The clients send what Server takes clients to send, and an ACK only of  *)
(* what has been sent to them: what is shown of Server, where they are     *)
(* left open, holds of the program (lib.rs 83-146, 148-187).               *)
ClientsAsAssumed ==
    \A p \in Peer : \A seg \in client[p].tcb.socket :
        /\ seg \in Sent[p]
        /\ "ACK" \in seg.flags => answers(p, seg)

(* A client is shown the file as it was when the client started, whichever *)
(* sessions and connections of earlier clients linger, and is answered     *)
(* with its own string; the file has grown by that string and nothing else *)
(* once it has the answer (lib.rs 66-70, 174-178; file_echo_test).         *)
EachStringOnce ==
    \A p \in Peer : LET c == client[p] IN
        /\ IsPrefix(c.got, << c.initial, Story >>)
        /\ files[p] \in {c.initial, c.initial \o Story}
        /\ c.got = << c.initial, Story >> => files[p] = c.initial \o Story

(* The file of an address is the story over and over, once for each        *)
(* session that has read it: none writes it twice, whatever is left of     *)
(* earlier connections, and none is lost (lib.rs 66-70).                   *)
FilesHoldStories ==
    \A p \in Peer :
        /\ Len(files[p]) = Len(Story) * Cardinality({i \in DOMAIN conns[p] : conns[p][i].read # 0})
        /\ \A k \in 1 .. Len(files[p]) : files[p][k] = Story[((k - 1) % Len(Story)) + 1]

(* A client fails (unwrap, lib.rs 174-178) only if the server refuses a    *)
(* file while it runs: its own, or that of a connection which a late ACK   *)
(* of the client before has begun, and whose FIN the new client takes for  *)
(* its own.  A connection that was refused or closed before the client     *)
(* started does not take it down, nor does it panic by itself.             *)
OnlyRefusedDie ==
    \A p \in Peer : client[p].session = "Died" => Refused(p) \ client[p].refused # {}

(* Every client comes to an end, also one whose SYN meets a TCB that has   *)
(* closed and not yet been dropped, or that is put through to a connection *)
(* that a late ACK of the client before it has begun (lib.rs 102-128).     *)
ClientsFinish ==
    \A p \in Peer : client[p].session = "Contents" ~> Over(client[p])

(* When a client has closed its connection, no connection of the server    *)
(* stays established: the FIN finds the TCB that it is for, and is not     *)
(* taken by one that a late ACK has begun (lib.rs 181, 99-128).            *)
HasClosed(c) == \E k \in DOMAIN c.tcb.unacked_segs : "FIN" \in c.tcb.unacked_segs[k].flags

EstablishedEnd ==
    \A p \in Peer : \A i \in 1 .. MaxConns :
        (Exists(p, i) /\ conns[p][i].tcb.state = "Estab" /\ HasClosed(client[p]))
            ~> (Exists(p, i) /\ conns[p][i].dropped)
=============================================================================
