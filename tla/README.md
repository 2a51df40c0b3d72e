# A TLA+ verification of rust-tcp

`rust-tcp` is a small file-echo system whose two programs talk a TCP-like
protocol of their own over UDP. This directory models both programs in TLA+,
from the handlers of a TCB to the whole system of a server and the clients that
are run against it, and the wire format beside them. TLC checks the models on
small instances, and TLAPS proves what holds for every instance. Paths below
are those of the repository under `src/`, so that `tcp.rs` is
`src/src/tcp.rs`.

## 1. Inventory

| part | state | operations | source |
|---|---|---|---|
| sequence arithmetic | none | wrapping add and subtract, `in_wrapped_range` | `utils.rs` 35-37 |
| segment | header fields, payload | setters, `to_byte_vec`, `from_buf`, checksum, `validate` | `segment.rs`, `utils.rs` |
| TCB | connection state, send buffer, send window, receive window, `seq_base`, `ack_base`, queue of unacknowledged segments, count of duplicate ACKs | one handler per `TCBInput`, plus the timeout | `tcp.rs` 37-326 |
| server demultiplexer | map from address pair to a TCB's input channel | `multiplexed_receive` | `lib.rs` 83-146 |
| server session | the connection's file | read, send, then echo and append | `lib.rs` 19-81 |
| client session | none | open, receive the file, send a string, receive the echo, close | `lib.rs` 148-187 |
| configuration, executables | none | parse arguments, call a `run_` function | `config.rs`, `bin/` |
| sample client in C | course-supplied test client | handshake only, assumes no loss | `tpp-client/` |

How they interact. Each TCB is owned by one thread, which runs `run_tcp`: it
takes one `TCBInput` from its channel, or times out after a second, and handles
it to the end. A receiving thread (the client's `socket_loop`, the server's
`multiplexed_receive`) turns datagrams into `Receive` inputs; the application
thread puts `SendSyn`, `Send` and `Close` into the same channel and takes bytes
from the TCB's output channel. The TCBs share nothing but the network. A TCB
sends through its own clone of the socket.

What is hard: the network loses, repeats and reorders; the two windows must
stay aligned without any shared state; acknowledgements are cumulative and
numbers wrap around; retransmission is the only recovery, and it happens only
for what is in the queue and only while the thread is in its loop; `Close`
arrives between any two inputs. What makes each part correct:

* arithmetic: a range test is a test of distance, wherever the range wraps;
* TCB: no window overruns, no index or drain is out of range, everything in
  flight can be sent again;
* connection: each application receives a prefix of what the other sent; both
  ends agree after the handshake; the handshake, every byte, and a close get
  through in the end;
* segment: what `from_buf` reads is what `to_byte_vec` wrote, and `validate`
  accepts it;
* server: a segment reaches the TCB of its connection, and a connection that
  has ended is forgotten;
* sessions: the strings that arrive are the strings that were sent, the file
  grows by what was echoed, and a client, its connection and its session all
  come to an end.

The hazards, each at its line, are in `PROJECT.json`.

## 2. Modules

| module | what it is |
|---|---|
| `Wrapping` | the sequence space of `SEQ_SPACE` numbers (2^32 in the build) and `in_wrapped_range` |
| `Tcb` | `struct TCB`: a TCB is a record with the fields of the struct, and each method of `impl TCB` an operator of the same name from a TCB to a TCB |
| `ByteStream` | the abstract specification: what two applications may rely on |
| `Connection` | two TCBs, their applications and UDP between them; the properties |
| `MCConnection` | the streams and numbers of the checked instances |
| `TcbProofs` | lemmas about the operators of `Tcb`, and that they preserve types |
| `Delivery` | the inductive invariant behind its safety: `DeliveryInvariant` |
| `DeliveryProofs` | type correctness of `Connection`, and one lemma per handler: it keeps that invariant |
| `DeliveryTheorems` | the invariant holds, what follows from it, and the refinement of `ByteStream` |
| `Retransmission` | the inductive invariant behind `UnackedCoversWindow`: `CutInvariant` |
| `RetransmissionProofs` | that it holds, and what follows |
| `TimedConnection` | `Connection` with the clock of `recv_timeout`; what must happen in the end |
| `MCTimedConnection` | its instance |
| `TimedProofs` | that a `TimedConnection` is a `Connection`, and what follows |
| `Server` | the server program: the main thread with its map, and per connection the thread of a `Tcb` and the thread of a session with its file |
| `MCServer` | the clients of the checked instances: the segments they may have sent |
| `Sessions` | what is assumed of the clients' strings (the constant `Text`, `ClientsTalk`), and the inductive invariant behind what the files hold: `SessionInvariant`; how they grow: `FilesGrowByStrings` |
| `ServerProofs` | theorems about `Server` |
| `System` | both programs: `Server`, and `run_client` with its three threads, run again and again at an address |
| `Clients` | what `run_client` sends (`ClientSegments`), and the inductive invariant that says it sends nothing else: `ClientInvariant` |
| `MCSystem` | its instance |
| `SystemProofs` | that the server in `System` is a `Server`, that the clients are what `Server` takes them to be, and what follows |
| `Wire`, `MCWire` | `segment.rs` and the checksum: a segment as bytes, and an instance |
| `WireProofs` | theorems about `Wire` |

`Connection` composes two `Tcb`s with a network, `Server` composes many `Tcb`s
with the threads around them, and `System` composes `Server` with the clients,
one more `Tcb` each. `Wire` stands alone: what it shows (a segment
that passes `validate` is the one that was sent) is what the others take for
granted.

**State.** `Connection` has one TCB per endpoint (`tcb`), how much of the
endpoint's stream its application has handed over (`handed`), and a count of
losses (`losses`). Two fields of the record carry what leaves a TCB: `socket`
is the set of its datagrams in flight, `byte_output` all it has sent down the
byte channel. The network is a set per direction, so order is never kept. In a
run with `Duplicating` a delivered datagram stays in the set and may come again
or never; otherwise delivery takes it out, and `Lose` may take it out before.

**Actions.** One per iteration of `run_tcp`: `SendSyn`, `Send`, `Close`,
`Receive` and `Timeout` are the five ways through `handle_input_recv`
(`tcp.rs` 105-125). Each is the whole handler: `Receive` is `handle_seg`, that
is `handle_acks`, `handle_shake`, `handle_payload` and the FIN test in this
order, the fills and resends they trigger included. That one iteration may be
one action follows from the threads: nothing but the TCB's own thread reads or
writes its fields. The channel in front of a TCB is not kept apart from the
network: a datagram is in flight until the TCB takes it, which only adds
orders to the ones a channel allows.

**The server.** Here the threads share more, and the model is finer. One
action is one access to what is shared: a datagram taken by the main thread
(`multiplexed_receive`, the whole function), one input handled by a TCB's thread
(`HandleInput`, or `Timeout` when there is none), the drop of the TCB with its
ends of both channels when that thread is over (`Drop`), and four steps of a
session: open the file and queue its contents, or queue `Close` when there is no
file (`Open`), read a string and append it to the file (`Read`), queue the echo
(`Echo`), find the channel gone (`HangUp`). A channel is a sequence of inputs;
its receiver is gone when the TCB is `dropped`, and from then on a send fails. A
TCB that has closed and not yet been dropped still accepts inputs, as it does
in the code. The connections of a peer are kept in a sequence, so that the
threads of an old one go on while a new one runs.

The clients of `Server` are an environment: any segment of `Sent[p]` may arrive
at any time, any number of times, in any order, those of an earlier connection
included. The one restriction (`answers`) is that an ACK arrives only after some
connection of that peer has sent what it acknowledges.

A file of a peer in `Failing` may fail to open, each time anew, and the session
is then `"Refused"`.

**The clock.** `recv_timeout` waits for `TIMEOUT` from the moment it is called,
and every input ends that call: a peer that keeps sending holds a resend back.
`TimedConnection` gives each end the ticks that are `left` of its wait. Each
action of `Connection` that is an iteration of `run_tcp` sets it anew; `Tick`
lets time pass, and cannot pass an end whose wait is over (`Due`) before that
end has timed out or an input has come. A datagram is in flight for as many
ticks as the network likes. Apart from `left` the actions are those of
`Connection`.

**The whole program.** In `System` nothing is left open: each datagram that
reaches the server was sent by a client process (`Arrive`), and what a server
TCB sends goes into `down` and from there to the client at that address, if its
process still runs (`socket_loop`). A client process is a record like a
connection of the server (TCB, channel, place in the byte channel) and steps
with the same operators; in addition it has the place of `run_client`: waiting
for the contents (`ReadContents`), waiting for the echo (`ReadEcho`), joining the
TCB's thread (`Join`), or dead of an `unwrap` (`Die`). After it has returned it
may be run again on the same address (`Start`), while the server's threads of
the connection before are wherever they are, and its last ACK and FIN have each
met a TCB or begun a new one. `ServerHandles`, `ServerTimeout` and
`ServerSession` are the actions of `Server` with what they send.

The client connects to 127.0.0.1, and `Prompt` says what the module takes that
to mean: datagrams come in any order, but each comes, once, and all have been
handled before a second of silence is over or the program is run again. What
happens when datagrams are lost is the subject of the other modules.

**Panics.** `drain(..n)` and `recv_window[i]` panic out of range. The model
adds a state `"Panicked"` that is entered where the code would panic, and in
which the thread takes no step. `NoPanic` says that it is never entered. In
`Server`, `byte_output.send().unwrap()` is a third such place: it panics when
the session has ended.

**What is abstracted.** A byte is a value that tells its place in the stream,
so a misplaced byte shows. Ports, segment size and checksum are left out: in
`Connection` a segment that arrives is one that was sent. Loops over bytes are
written with their result: `SegmentsFor` (the loop of `send_data`),
`retain_unacked` and `FilledPrefix` (the loop of `handle_payload`). In `Server`
the length before a string is one byte instead of four, cut to that width as
`s.len() as u32` is; the file is its contents. In `Wire` a byte has `BYTES`
values, and a word, a double word and the place of a flag follow from that.

**Where the server starts.** `TCB::new` starts at 1. The instances start the
client there and the server just below the end of the sequence space, as
`send_test` does (`tcp.rs` 427), so that its stream wraps around.

## 3. Runs

All instances have `SEQ_SPACE = 16`, more than twice the window plus the
stream, as 2^32 is for 65000 and any file below 4 GB (`ConnectionAssumption`).

| run | instance | result |
|---|---|---|
| `transfer` | window 3, payload 2, streams of 4 bytes, every datagram deliverable any number of times, the client may close; 235 040 states | holds |
| `live` | window 2, payload 1, streams of 3 bytes and 1, two losses among SYN, SYN-ACK, DATA, a timeout of two ticks, either end may close; 265 714 states | holds |
| `server` | one peer, two connections, window 2, one datagram waiting in a channel, two strings in a segment each and a FIN; 721 081 states | holds |
| `server_live` | two peers with one connection each: one string in two segments and a FIN; a file that may fail to open for the other; 46 160 states | holds |
| `system` | one address, two runs of the client, a file that may fail to open once, four connections; 212 678 states | holds |
| `wire` | bytes of four values, numbers and ports at the ends of their range, payloads of 0 to 3 bytes; 1 152 states | holds |
| `handshake_ack_lost` | one ACK lost | violated |
| `data_ack_lost` | one ACK lost | violated |
| `dupe_acks` | no loss at all | violated |
| `fin_lost` | one FIN lost | violated |
| `stale_ack` | one peer, two connections | violated |
| `refusal_unsent` | one peer without a file | violated |

`transfer` is the main run. Its window is larger than a payload, so a window
holds a full segment and a short one; its streams are longer than the window,
so bytes wait in `send_buffer` and the window slides; one stream wraps around;
old segments and old ACKs stay deliverable to the end; the client may close at
any moment, and its FIN overtakes its data. It checks that what is
delivered is a prefix of what was sent (`PrefixDelivered`), that the thread
never dies (`NoPanic`), that a byte leaves the send window only when it has
arrived (`NothingForgotten`), that everything in flight is queued for
retransmission (`UnackedCoversWindow`), that the receive window holds the right
bytes in the right slots (`ReceiveWindowInStep`), that the handshake leaves the
ends in agreement (`HandshakeAgrees`), that bases never move back
(`WindowsMoveForward`), and that the connection implements `ByteStream`
(`ImplementsByteStream`). All of these are proved as well; `CutInvariant`, one of
the two invariants that the proofs rest on, is checked here too. Loss needs no action here, because a datagram that is not
delivered again is lost; only the FIN may be taken out of the network (`Lose`).

`live` checks what must happen in the end, with a clock. A wait is two ticks long:
an input that comes after the first puts the timeout off. (With a wait of one tick
every tick would make both ends due, and no input could hold a timeout back.) The two ends
wait equally long and any amount of traffic may pass within a tick, so a resend of
one end can also arrive in the very moment in which the other is due. The handshake
completes (`TimedHandshakeCompletes`) and every byte arrives
(`TimedEventuallyDelivered`), although inputs of no use put timeouts off. Both fail
in this instance when inputs come too often: with a client that waits only half as
long as the server, its SYNs keep the server from ever repeating a lost SYN-ACK,
and with ends that answer each other's ACKs no data is sent again; these are the
two mutants. `FallsSilent`: when nothing more is to be sent, nothing more is sent.
The server's stream ends where the numbers wrap around, which leaves the client
with an `ack_base` of 0, and then every ACK it gets has the `seq_num` it expects
next and is answered with an ACK. Losses are bounded because a network that loses
everything delivers nothing; with two, a retransmission can be lost too.

Either end may close at any moment, both at once too. `CloseReachesPeer` says that
the other end then closes as well; the handshake and the delivery are promised
until one does. `DeliveryInvariant` is the other invariant of the proofs, checked
here against a close of either end and an `ack_base` of 0.

`server` is about generations. With two connections of one peer, the TCB and
the session of the first still run, or have ended, while the map
already holds the second, and a segment of the first may start it, an ACK or a
FIN as well as a SYN. `OneLiveTcb` says that the map never loses a TCB that
runs. `MaxConns` 2 is what the property needs, because it relates a connection
to the one before it; the proof covers any number. `SessionsInStep` is
`SessionInvariant` for the client's text: data of the first connection lands
in the window of the second, or is there already when the second connection's
own copy comes, and each TCB still holds a part of the text in its place, and
each session stands where a string starts. It is the invariant on which the
proof about the files rests.

`FilesGrowByStrings` is about what two generations write to one file: a step that
changes a file appends one string that its client
says, whole, and takes one session from the start of that string to the start of
the next. The client says two strings, "7" and "8", so that a string could come out
of turn, and the sessions of both connections write, in any order: "7788" is one
of the files. Each string is one segment here, and the server's own data is not
acknowledged; a string that is cut and a window that slides are the subject
of `server_live`, and all of it together of the proof.

`server_live` asks what must happen in the end. `SessionsEnd`: a session whose
TCB is gone ends, also in the middle of a string. `RefusedConnectionsEnd`: a
connection without a file does not stay. `FilesHoldStrings`: a length never
ends up in the file, wherever the string was cut into segments; lengths and
characters are different bytes in the instance, so that a confusion shows.

`system` puts the programs together. `ClientsAsAssumed` closes the gap to `Server`:
what the clients send lies within what `Server` allows (`Sent`, `answers`), the
assumption that the runs of `Server` rest on. It is proved, from
`ClientInvariant`, which is checked here. `EachStringOnce` relates a
client to the file over the whole of its run: the contents it is shown are those
at its start, whichever sessions of earlier connections linger, the echo is its
own string, and by then the file has grown by that string and nothing else.
`FilesHoldStories` relates the file to the sessions: it is the clients' string,
once for each session that has read it.
`OnlyRefusedDie` says that a client panics only if a session is refused while it
runs: no connection that was closed or refused before it started takes it down
(the stale ACK of `stale_ack`, which comes in the middle of a later run, is what
`Prompt` rules out). The client remembers which had been refused (`refused`). It
does not say that the session refused is its own: a late ACK of the run before may
have begun a connection whose session opens its file only now, and its FIN closes
the new client whatever its number (`tcp.rs` 160). That client may be established
with a connection of its own by then and have sent its string, which is written to
the file, and it panics without its echo. It takes a file that fails to open once
and opens the next time, and no comment or test speaks of it, so that it is noted
here and not among the findings. In every other case a client whose string is in
the file gets its echo: it ends (`ClientsFinish`), and not in a panic.
`ClientsFinish` says that a client ends, also when
its SYN goes to a TCB that has closed and not yet been dropped, or to a
connection that a late ACK has begun, and `EstablishedEnd` that its close ends
what was established. The client is run twice, because the properties relate a
run to the one before; a refusal ends a connection early, from where a late ACK
may begin another, and one refusal is enough for that. `MaxConns` 4 never holds
a connection back: with 5 the states are the same, with 3 they are not. `Story`
is one segment; strings in several are the subject of `server_live`.

`wire` checks that a segment states its own size (`TypeOK`), that it arrives as it
was sent and passes `validate` (`ArrivesIntact`), that a change of any one byte
does not pass (`DamageNoticed`; a word of zeros that becomes all ones does pass,
as with any ones-complement sum), and that a setter changes one field of what
`tcp.rs` reads of a segment (`OneFieldSet`). Words of two bytes of four values are
small enough to enumerate every damaged byte, and have the three flags and a bit
besides them. All four are proved for every size of a byte.

The violations are disagreements between the code and what its comments, its
tests or the client's notes say. Each is a finding in `PROJECT.json`:

* **handshake_ack_lost.** The client answers the SYN-ACK once. If that ACK is
  lost, the server repeats the SYN-ACK, and the client, now in `Estab`, ignores
  it: its number is one below `ack_base`. Data segments carry no ACK flag, so
  nothing takes the server out of `SynRecd`.
* **data_ack_lost.** A segment is acknowledged only when its number equals
  `ack_base`. If the ACK is lost, the repeated segment is below it and is never
  acknowledged; the sender's window never moves again.
* **dupe_acks.** `handle_acks` looks for duplicates with `seg.seq_num()`, which
  is 0 in a pure ACK, after `seq_base` has already moved. New ACKs count as
  duplicates near the start of the stream and no ACK counts later.
* **fin_lost.** The sender of the FIN leaves its loop in the same step, so the
  FIN is never sent again.
* **stale_ack.** Every connection starts at 1, so an ACK of an earlier one falls
  in the range that `handle_acks` accepts in the next. It covers bytes that were
  never sent, and `drain` panics: the connection ends, and nobody closed it.
* **refusal_unsent.** A session without a file queues `Close` and leaves. A byte
  that the TCB delivers before it handles that `Close` panics, and no FIN is
  sent.

`live` states the same of the handshake, of delivery and of the close,
and excludes exactly the losses above, which shows that there is no other way to
miss them in that instance. The violations are found under `LiveSpec`, whose
timeouts are weakly fair: they are not for want of a resend.

Every property of a passing run has a mutant in `PROJECT.json`: a small
change of one operator (a dropped guard, an off-by-one, a missing reset),
defined beside the original, that makes the property fail in the same run.

## 4. Fairness

`TimedFairness` assumes that time goes on, that `run_client` sends its SYN, and
that no datagram stays in flight to a running TCB for ever: it is received or
lost. The third is stated on states (`[]<>(seg \notin socket)`) for every
member of `Genuine(e)`, the datagrams an endpoint can send; it is what weak
fairness of `Receive(e, seg)` for each of them amounts to when delivery removes
the datagram. That no endpoint ever sends anything else is proved
(`OnlyGenuineInFlight`), so the assumption leaves no datagram out. Of timeouts it assumes that an end which is due again and again
times out some day: strong fairness, for an input in that same moment makes the
end not due. It excludes one thing only, two clocks in such lockstep that each
input comes in the very moment of the timeout, each time. It does not exclude a
peer whose inputs come earlier and hold the timeout back: that an end is due at
all is not assumed, and as a wait is longer than a tick it does not follow from
time going on either. Nothing is assumed of the applications, which may stop
sending or never close.

`LiveSpec` of `Connection` has weakly fair timeouts instead, which `recv_timeout`
does not give. Only the runs that find violations use it; a violation that is
found under it does not rest on a timeout that never comes.

`LiveSpec` of `Server` assumes that threads run: a TCB handles the inputs that
wait for it, its thread's end is followed by the drop, and a session takes the
step it can take. The operating system's scheduler gives this to every thread.
Nothing is assumed of the network, the clients, or `Timeout`. The formulas write
weak fairness out with each action's guard.

`SystemFairness` assumes the same of the threads of both programs, that the
system comes to rest in the sense of `Prompt` again and again or for good (what
is in flight arrives and is handled), and that an end which has something to
send again whenever the system is at rest does so (`AtRest`; a timeout that
sends nothing changes nothing). Nobody is obliged to run the client again.

## 5. Proofs

All that is assumed are the assumptions on constants:

* `SeqSpaceAssumption`, `WindowAssumption`, `ConnectionAssumption`: at least one
  byte of window and payload, a sequence space of at least two windows, streams
  that do not reuse a number;
* `TimeoutAssumption`: a timeout of at least a tick;
* `ServerAssumption`, `TextAssumption`: clients that send segments, bytes that are
  numbers from 0, and at each address one text, in strings (see **The files**);
* `SystemAssumption`, `StoryAssumption`: the string of `run_client` is not so long
  that its length is cut or its numbers come round, and `Sent` is what a client
  sends, which is not taken on trust but proved (see **The clients**);
* `WireAssumption`: the number of values of a byte is a multiple of 4, 256 in the
  build, and a payload's length fits into `seg_size`.

* **`RangeIsDistance`** (`TcbProofs`): `in_wrapped_range((l, l + w), n)` holds
  exactly if `n` is less than `w` past `l`, for every `l`, `w` and `n` of the
  space. All range tests of `tcp.rs` have this form.
* **`TypeCorrect`** (`DeliveryProofs`): `Spec => []TypeOK`. `TypeOK` is
  inductive. Besides the types it bounds the send window by `WINDOW_SIZE`, so
  that `WINDOW_SIZE - orig_window_len` (`tcp.rs` 132) does not underflow, and
  `dupe_acks` by 3. `TcbProofs` has one lemma per handler (`...Type`: from a
  well-typed TCB and segment to a well-typed TCB), and the lemmas they rest on:
  a non-empty set of naturals has a least element (`LeastProperties`, from
  the well-foundedness of finite sets, since induction is not available),
  `drain` and `retain` give back what they should, `SegmentsFor` covers the
  data and no more, `FilledPrefix` stops at the first empty slot.
  `StepType` then has one step per action.

* **`TypeCorrect`** (`ServerProofs`): `Spec => []TypeOK` for `Server`. It rests
  on the lemmas of `TcbProofs` for the handlers, and on a second chain of lemmas
  (`...Output`): a handler never takes back what it has sent down the byte
  channel, so that a session's place in it stays within it. Every step of a
  thread is shown to rewrite one connection (`ThreadStep`), which both proofs
  about `Server` use.
* **`OneLiveTcbHolds`** (`ServerProofs`): `Spec => []OneLiveTcb`. The property is
  not inductive: that no other TCB runs when a connection is made follows only
  from the others having been dropped. `OnlyNewestExists` says so: the map holds
  the newest connection, every other one has been dropped, and a dropped TCB
  does not run.

* **`SystemOneLiveTcb`** (`SystemProofs`): `SystemSpec => []OneLiveTcb`, from the
  theorem before. Every action of `System` is one of `Server`, or leaves the server
  alone, because it is built from it (the lemma `SystemImplementsServer`); likewise
  a `TimedConnection` is a `Connection` (`TimedImplementsConnection`). These two
  lemmas say nothing of the code. They carry theorems over: what is proved of
  `Server` with its clients left open holds of the program, and what is proved
  of `Connection`, which has no clock, holds under every timing.

**The bytes of a connection.** None of `PrefixDelivered`, `NoPanic`,
`NothingForgotten`, `ReceiveWindowInStep` and `HandshakeAgrees` is inductive: what
a datagram does when it arrives depends on what it holds, and that depends on
what its sender had when it sent it. `DeliveryInvariant` (`Delivery`) says of each
endpoint

* `Phase`: before `Estab` nothing has been sent, delivered or acknowledged, and
  from `SynRecd` on `ack_base` is the number of the next byte to deliver;
* `SoundOutput`: a datagram in flight or queued acknowledges no more than its
  sender has been given, and holds no byte but those that it has sent, in their
  places;
* `SendSide` and `ReceiveSide`: windows, buffer and output hold exactly the part
  of the two streams that the sequence numbers say, and the first slot of the
  receive window is empty;
* acknowledged <= delivered to the peer <= sent, across the two TCBs;
* `Silence`: while one end listens, nothing but SYNs is on its way to it.

An endpoint needs to know two numbers of its peer: how many bytes it has been
given, and how many it has sent. A step of the peer only lets them grow
(`PeerGrows`), so a handler is proved right for one TCB and two numbers (`Holds`),
and `StepOfOne` puts the two ends together. `DeliveryProofs` has one lemma per
handler, `DeliveryTheorems` one step per action (`StepHolds`).

* **`DeliveryInvariantHolds`**: `Spec => [](TypeOK /\ DeliveryInvariant)`.
* **`PrefixAlwaysDelivered`**, **`NeverPanics`**, **`NothingEverForgotten`**,
  **`ReceiveWindowAlwaysInStep`**, **`HandshakeAlwaysAgrees`**: the five properties,
  which the invariant implies (`InvariantImplies`). The one that takes an
  argument is `NoPanic`: an ACK that is accepted lies between acknowledged and
  sent, because it acknowledges at most what was delivered and two windows fit
  into the sequence space; and a segment that starts in the receive window ends
  in it, because it ends before `sent`, which is at most a window past what was
  acknowledged.
* **`WindowsAlwaysMoveForward`**: an action property, from the same lemmas.
* **`ConnectionImplementsByteStream`**: `Spec => ImplementsByteStream`, with a step
  of `ByteStream` or a stutter for every action; which byte a delivery appends
  follows from the invariant.
* **`OnlyGenuineInFlight`**: every datagram in flight is in `Genuine`.

**Retransmission.** That everything in flight can be sent again rests on more.
`handle_acks` takes bytes out of the window and whole segments out of the queue,
and keeps a segment exactly if its first byte is not acknowledged: an ACK that
falls inside a segment would leave the two out of step. None does, for a
reason that takes both ends: a stream is cut into segments once, since a resend
repeats a queued datagram as it is; the receiver stores a segment as a whole,
delivers what is contiguous, and so stops, and acknowledges, only where a
segment ends. `CutInvariant` (`Retransmission`) says it of each direction of a
connection: the sender's queue is its window in consecutive pieces, a data
segment in flight is old or in the queue (`QueueInStep`), and the receiver holds
each queued segment as a whole or not at all, and acknowledges, in flight too,
only at cuts (`PeerInStep`). The lemmas take the two roles one after the other:
what each handler does for the sender (`...Sender`), and for the receiver, where
most handlers receive nothing and acknowledge nothing new (`Quiet`).

* **`SegmentsAlwaysCutOnce`**: `Spec => []CutInvariant`.
* **`UnackedAlwaysCoversWindow`**: `Spec => []UnackedCoversWindow`.

`TLC` checks `DeliveryInvariant` in `live` and `CutInvariant` in `transfer`.
**`TimedDelivery`**, **`TimedImplementsByteStream`** and
**`TimedUnackedCoversWindow`** (`TimedProofs`) carry the results over to a
connection with a clock.

**The files.** That a file holds characters only is a fact about the session's
place in the byte channel: read one byte too late or too early, a length is
taken for a character. It is also a fact about generations, since all
connections of an address start at 1 and a TCB accepts what an earlier one was
sent. So it needs an assumption about the clients, `ClientsTalk(Text)`: every
client at `p` sends, from sequence number 2 on, the bytes of the same `Text[p]`,
in any segments, and `Text[p]` is a row of encoded strings (`Strings`) that fits
into the sequence space with a window to spare. `run_client` does so: for
`System` the assumption is proved (`ClientSegmentsTalk`); `MCServer` makes it of
the segments that it lets its clients send, and `TLC` evaluates it in every run.
Where a string starts is the least set that holds 0 and leads from each length to
the next one (`Starts`): the provers cannot do the induction over strings that a
recursive definition would need, and of a least set the two facts that the proof
uses follow at once (`StartsProperties`).

`SessionInvariant` says that every TCB holds in its window and its output the
bytes of `Text[p]` in their places, with `ack_base` at the next one (`Received`),
that a session has read up to the start of a string, and that only what `p` sends
is in the channel to the TCB. `Listen` and `Closed` need a word: a segment is taken
into the window only in `Estab`, where `ack_base` is right. Two texts on one
address are not covered, and need not be: with them a TCB would splice the one
into the other, which is how every protocol fares that starts each connection at
the same number.

* **`SessionsStayInStep`** (`ServerProofs`): `Spec => []SessionsInStep`, the
  invariant. There is one lemma per handler for what it does to window and output
  (`...Received`; most leave both alone, `...Keeps`), one for each action
  (`...InStep`), and `SessionInvariantStep` puts them together.
* **`FilesAlwaysHoldStrings`**: `Spec => []FilesHoldStrings`, which follows.
* **`FilesOnlyGrowByStrings`**: `Spec => FilesGrowByStrings`. Every step leaves all
  files, and how far each session has read, alone (`ReadsStay`), or is the `Read`
  of one session (`StepReads`), and what that appends is what the text has at the
  session's place (`ReadGrows`), because `SessionInvariant` says that it stands
  where a string starts.

**The clients.** `Server` leaves its clients open, within `Sent` and `answers`. That
`run_client` stays within them (`ClientsAsAssumed`) is not a fact about one TCB.
What a client acknowledges is what came to it, and what came may be of a
connection of the server other than its own: its SYN may meet a TCB that a late
ACK of the run before has begun, or go to a new one while the session of an old
one still sends. And the number it acknowledges may be that of data which it has
stored ahead of its turn, from an earlier datagram, or from several. So the
invariant does not say which connection a client belongs to. With `OfServer(p)`,
all that the server has ever sent to `p`, `ClientInvariant` (`Clients`) says

* `ClientSide`: each segment that a client has sent or queued is its SYN, its FIN,
  a part of its stream in its place (`SendsText`: window and buffer are the end of
  the stream, and `seq_base` says where they begin), or an ACK of a number that
  follows a segment of `OfServer(p)`. The bytes stored in the receive window end,
  wherever one of its runs ends, at such a number too (`EndsAt`): that is what an
  ACK may come to acknowledge when a gap is filled;
* `InputInStep`: the order of `run_client`'s inputs, so that the string is handed
  over once, and not before the handshake;
* `ServerSide`: what a server TCB has sent or may send again with an ACK flag
  acknowledges a SYN. A bare ACK goes out once;
* `Quiet`: while a client waits for its SYN-ACK, no other ACK is under way to it,
  nor anything to a running server TCB that would provoke one. This is where
  `Prompt` enters, and why a SYN-ACK alone ends the wait.

`OfServer(p)` only grows, and all the parts speak of it monotonically
(`ClientOKMore`), so each action is shown to keep the part of the process it
rewrites and to leave the others alone (`PeerOK`, `PeersOK`). The server's half
needs `SessionInvariant` for the clients' streams, which in turn holds of every
`Server`: there is no circle, because `Server` takes in only what is in `Sent`.

* **`ClientsKeepInStep`** (`SystemProofs`): `SystemSpec => []ClientInvariant`.
* **`ClientsSendAsAssumed`**: `SystemSpec => []ClientsAsAssumed`.
* **`SystemFilesHoldStrings`**: `SystemSpec => []FilesHoldStrings`, with no
  assumption left about what the clients send.
* **`FilesAlwaysHoldStories`**: `SystemSpec => []FilesHoldStories`. A client says one
  string, so a session stands before it or after it (`StoryAt`), and the `Read`
  that takes it from the one to the other adds one session to those that have
  read and one `Story` to the file (`OneMoreStory`).

**Bytes.** The theorems about `Wire` are about `utils.rs` and `segment.rs` for a byte
of any number of values and a payload of any length. What `ones_complement_sum`
computes is a fold, and an induction over its words is out of reach; that a set
of naturals which is not empty has a least element is not (`LeastExists`, from the
library's well-foundedness of finite sets), and of the fold's values the first one that
is not as claimed contradicts the step before it (`Steps`). Each step of the fold
is an end-around addition (`WrapPlus`: the two reductions of `utils.rs` 48-49 leave
nothing to carry), which may be taken in any order (`PlusProperties`), so that one
word counts the same wherever it stands (`SumsOneWord`, `SumOfOthers`). From this

* the checksum: the sum with the inverted sum in the place of a zero is all ones,
  if the sum was not zero, and it is not, because `seg_size` is at least 20
  (`SummedIsValid`). `WireInvariant` therefore needs `TypeOK`;
* damage: two segments that differ in one byte differ in one word, and their sums
  are equal only if the one word is zeros and the other all ones, which are two
  bytes apart, or one and its padding (`SameSum`, `ValidDamaged`).

`SegmentBytes` and `BufferSegment` say what stands where in the bytes and in the
segment read from them, `RoundTrip` and `BufferBytes` that the two are inverse. A
word of flags is three bits and a rest (`FlagsOf`), on which `|` and `!` act bit by
bit (`OrBits`, `NotBits`, `SetAndUnset`).

* **`TypeCorrect`**, **`SegmentsArriveIntact`**, **`DamageAlwaysNoticed`**,
  **`SettersSetOneField`** (`WireProofs`): all four properties of `wire`.

Model-checked and not proved: liveness and `ENABLED`, which are out of the
prover's reach; and `EachStringOnce` and `OnlyRefusedDie`, of which the last
section says what they need.

## 6. Not modelled

* Errors of input and output on an open file, strings that are not UTF-8, and a
  failing `send_to` (`tcp.rs` 324): each is an `unwrap` that ends a thread, and
  depends on nothing that the models hold.
* A client that dies without a FIN, or a server that is stopped, and is started
  again. The code has no provision for either: a server TCB in `Estab` ignores
  the new client's SYN, and a client in `Estab` repeats its data to a server
  that no longer knows it. Both are listed under `hazards` without a property,
  because nothing in the repository says what should happen.
* Lost and repeated datagrams in `System`: with them a client may hang for ever,
  for the reasons that `handshake_ack_lost`, `data_ack_lost` and `fin_lost` show
  on a single connection.
* A buffer shorter than a header, which `from_buf` refuses with an assertion;
  `Wire` reads only what `to_byte_vec` wrote, damaged or not.
* Parsing of arguments and exit codes: no state.
* The sample client in C: supplied by a course, assumes that nothing is lost,
  and is not built or called by anything in the repository.

## 7. Plan

Done: the core (`Tcb`, `Connection`, `ByteStream`), the server, the wire format,
the clock, the whole program; proofs of type correctness, of one TCB per peer,
of all safety properties of a connection and of its refinement of `ByteStream`,
of what the server's files hold and how they grow, of what the clients send, of the wire format,
and the transfer of these to the timed and the composed models. Left are the
proofs of two properties of `System`:

1. `OnlyRefusedDie` needs that no client TCB panics, and so that a client and the
   one server TCB which has answered its SYN stand to each other as the two ends
   of `DeliveryInvariant` do, while other connections of the address are still
   there: an invariant that says which of them can still send anything;
2. `EachStringOnce` needs the same. Of its file, what is proved is that it holds
   the string once for each session that has read it (`FilesAlwaysHoldStories`);
   what is left is that during one run of the client no session reads it but
   the run's own.
