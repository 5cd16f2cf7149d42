# A TLA+ model of znet

znet is a C++ networking library: sessions between peers over TCP or over ZDT,
its own reliable protocol on UDP, with encryption, compression and typed
packets on top; a server and a client that drive sessions on threads; and a
peer-to-peer layer that finds peers, punches through NATs and falls back to a
relay. This project models those parts, checks them with TLC on small instances
and proves with TLAPS, for instances of any size, the outbound queue, the nonces and
the replay window of a session, the framing of TCP, the server's loop, the numbers and
loss epochs of ZDT, the rendezvous broker, the relay, and the TCP punch with its locator.

Run a check with `tlc -config X.cfg M`, a proof with `tlapm M.tla`. `PROJECT.json`
names every run, the source lines behind every definition, the hazards the
properties are aimed at and, for every property, a mutation of the model that
violates it.

## The parts and their modules

A packet passes from `PeerSession::SendPacket` into a lock-free ring, from which
one thread at a time encodes: codec, compression, encryption, then the
transport's frame or datagram. The other end undoes these steps and calls a handler.

| Part | Module | State and actions |
| --- | --- | --- |
| `mpsc_queue.h`, `outbound_queue.h`, the loops that drain it | `OutboundQueue` | cursors, cells and claim; one action per access to shared memory of `Push`, `Drain`, `Empty`, of the worker's and the encoder's loop and `Close` |
| what such a queue promises | `FifoChannel` | what was sent and what was delivered |
| `buffer.h` | `ByteBuffer`, `BufferUse` | operators on a record of the buffer's members; a script of writes, reads, compactions and cuts |
| codec, pipeline, compression, sealed message, frame | `MessagePath` | buffers of packets, of frames, and the bytes on the way |
| `encryption.cc`, gate of `peer_session.cc` | `SessionCrypto`, `ReplayWindow`, `ReplayStream` | both ends of one session from construction to traffic, their streams and counters |
| `znet::Client` over TCP | `ClientLoop` | calls of the application, the loop's thread, holders of a session and its descriptor |
| `znet::Server`, threads of both backends | `ServerLoop` | main loop, workers, receive or poll thread, threads that call `Stop` |
| `backend/tcp.cc`: stream, listener, punched session | `TcpLink`, `TcpAccept`, `SelfManaged` | bytes in the sockets' buffers; descriptors and the poller's list; two ends on blocking sockets |
| `admission.cc`, `inet_addr.cc` | `Admission` | operators on rules, keys, ranges and the throttle's table |
| ZDT numbers, bytes, acknowledgments | `ZdtWire`, `ZdtDatagram`, `ZdtAckHistory`, `ZdtArrivals` | truncated numbers, datagrams as bytes, bitmap and run lengths |
| ZDT transport | `ZdtSender`, `ZdtReceiver`, `ZdtLink` | lanes, unacknowledged messages, tracked datagrams; channel, reassembly; both over a network |
| ZDT congestion | `Congestion` | round-trip estimator, window and loss epoch, in fixed point |
| ZDT handshake and migration | `ZdtConnect` | clients, routes, sessions, cookie epochs, datagrams in flight |
| p2p agent, punch, relay | `Agents`, `AgentPaths` | punches, routes and waiters of each agent; routes and sockets while an end moves |
| p2p gathering and reflector | `Gather` | probes, a NAT, candidates and the verdict |
| relay of the traversal server | `Relay` | the two tables, their clock, allocating and stopping threads |
| rendezvous server and locator | `Rendezvous` | links, pending targets, queue of the pairing thread, locator states |
| p2p over TCP | `TcpPunch`, `TcpLocator` | sockets per path and round; link, worker and application of a locator |
| bitpack, quantize and delta extensions | `BitStream` | a register of bits, codes of numbers, histories at two ends of a lossy link |
| chat example | `ChatRoom` | roster, rooms and what every screen shows |

`ZdtLink` composes `ZdtSender` and `ZdtReceiver` (and through it `ZdtAckHistory`
and `ZdtWire`); `BitStream`, `MessagePath` and `ZdtDatagram` write through
`ByteBuffer`; `SessionCrypto` composes two ends with
`ReplayWindow`; `TcpAccept` and `Gather` use `Admission`.
Elsewhere a part meets its neighbour as that neighbour's promise: `SessionCrypto`
runs over an ordered transport as `TcpLink` and `ZdtLink` provide it,
`ServerLoop` and `ClientLoop` see a session become ready or die, `Rendezvous` sees
a punch succeed or fail.

## How the checks are arranged

The `MC*` modules choose constants; `OutboundQueue`, `ServerLoop` and `SelfManaged`, checked as they
are, take theirs from the configuration or from the end of the module. A module with many situations has a
constant set of *plans* (what the application sends, which faults may happen and
how often) and picks one at `Init`, so that one run covers them all. `MCStreams`,
`MCProtocols`, `MCSession` and `MCAgents` hold several unrelated components: a
variable `part` says which one a behaviour exercises, the others stay in one fixed
initial state. Every component's state space is explored in full, and never
multiplied with another's. A property of an idle part holds of its fixed state;
where that part has fairness conditions, they are guarded by `part`
(`MCAgents`) or the fixed state enables none of its fair actions (`MCSession`).

Deadlock is not checked anywhere: plans are finite, so every behaviour ends when
the application has nothing left to do. Where the code could hang instead,
a liveness property says that it does not.

## What the runs check

Counts are TLC's distinct states where they were noted; every run is exhaustive.

**outbound_server** (`OutboundQueue_server.cfg`). Two producers, the single
drainer of a server session, a ring of two cells and two packets each, so the
ring fills and its cursors go round; the session may be closed at any point.
`CellExclusive`: no two threads are at work on one cell. `EventuallyDrained`: a
packet whose slot was claimed is encoded, unless the session dies.

**outbound_client** (`OutboundQueue_client.cfg`). The client's loop and its
`SessionEncoder` both drain. `OneEncoder`: never two at once. `ImplementsFifo`:
queue, claim and drainers implement `FifoChannel` (the order of claimed slots is the
order of sending). `StopReturns`: a stop request always ends the encoder's thread.

**zdt_link** (`ZdtLink_safety.cfg`, 1,272,228 states). Seven plans: ordered,
unordered and sequenced messages, fragments against a full reassembly table,
expiring unreliable fragments and an oversized message; loss, one duplicate,
reordering, four message numbers on the wire so that they wrap.
`AckedMeansDelivered`: once a sender has nothing queued or unacknowledged,
every reliable message was delivered. `ReadExactlyOnce`: truncated numbers are
read back as what was sent, a message is forgotten by its sender only when the
receiver has taken it, and no reliable message is delivered twice.
`DeliveryModes`: ordered messages implement `FifoChannel`, and a sequenced one is
dropped only when a newer one was delivered.

**zdt_live** (`ZdtLink_live.cfg`). `DeliveredOrClosed`: a reliable message is
delivered or the connection closes, over a network that may lose everything.

**session** (`Session.cfg`, 201,721 states). Two ends with and without
encryption, two streams, ordered and unreliable packets, counters that run out;
or a client that connects up to three times. `NoncesUnique`: no key and nonce
occur twice. `StreamsAgree`: two ready ends run the same mode, an ordered stream
is never refused by its replay window, and the gate between handshake
and application loses no ordered packet of the handshake's stream. `BothConnect`: an
exchange nobody closes ends with both applications connected.
`ConnectionsAccounted`: every connection has one reported outcome, in time, and
no descriptor number has two owners that would close it.

**zdt_connect** (`ZdtConnect.cfg`). Two clients and a server with room for one,
while cookies rotate; or a client that moves twice. `SessionsConsistent`: a
connected client has a session of its guid with an MTU the path carries, one
session per client, no cookie older than a rotation is taken, and routes and
sessions agree about the peer's address. `RouteFollows`: after the moves the
route ends up where the client is.

**server** (`ServerLoop.cfg`). Two sessions, two workers, one or two threads that
stop the server, either backend. `EventsPaired`: connect then disconnect, once
each. `ServerHolds`: the limit on connections holds, a stopped server holds no
session and no handler, and the receive thread is joined by one thread. `DisconnectReported`: a
session that dies is reported while the server listens. `StopCompletes`: a
server that stops gets down.

**agents** (`Agents.cfg`, 172,650 states). Two agents and five plans of offers
(both paths racing, a gather and a stop, relay only, a second half offer, an
empty offer); or two with a session, one of whom moves twice and may return to
an address. `AnsweredTruly`: each call is answered at most once, none that
`Stop` raced is forgotten, and an established session has its counterpart.
`AnsweredEventually`: no call waits for ever. `SessionsFollow`: routes and
sockets end up right.

**streams** (`Streams.cfg`, 594,345 states), ten parts.
`ReadsWhatWasWritten`: what a buffer yields without an error is what was written,
through growth, compaction and cuts, and only a cut buffer complains.
`Transparent`: the handler gets every packet a serializer reads, in order,
whatever the compression, cipher and headroom; bad frames are counted once.
`FieldsReadBack`: bit fields at any offset are read back, and a stream that ends early
says so. `PacksToNearest`: all 65,536 half floats round trip, and midpoints go to
even. `DecodesWhatWasSent`: a delta decodes to the snapshot that was encoded,
whichever baselines were lost or evicted. `StreamIntact`: TCP frames survive any
cut, pings in between and two writing threads. `AcceptsJustly`: who is let in
agrees with a reading of the rules bit by bit and of the throttle over the history; a
fresh connection is not dropped from the poller's list because of its number.
`SameConnection`: two successful punches hold two ends of one connection and
no other socket. `LocatorOutcome`: one outcome per attempt, and the worker
is awake when its link has ended. `TrackingExact`: the sender's in-flight
count and its tracked datagrams are exact, whatever is acknowledged or reported.

**protocols** (`Protocols.cfg`, about 592,000 states), eight parts.
`AsksAnsweredFresh`: two peers that asked for each other are paired or will be
by something under way, and an offer names no candidates older than the ask it answers. `GatheredTruth`: verdict,
candidates and predicted ports fit the NAT. `PairingsSound`: the relay forwards
between the two of a pairing only, its tables agree, pairings end on time.
`ReportFaithful`: an acknowledgment names exactly what arrived within its reach.
`ReplayExact`: no counter is taken twice, none within the width is refused.
`CutsJustified`: one reduction per loss epoch, and a longer path is not taken for a
queue for ever. `ReadAsWritten`: every datagram is read as what it was written as,
or refused when cut. `ScreensTrue`: the chat's screens show lines in the room
they were said in, know their own name, and who is present.

**zdt_mixed**, **tcp_punched**: two disagreements between code and comments, below.

Liveness is checked in the runs whose state spaces allow it; `streams` and
`protocols` check safety only.

## Bounds

Widths are constants, chosen so that every wrap, limit and off-by-one is met:
four message numbers and up to sixteen packet numbers on the wire, bitmaps of
three to six bits, rings of two and four cells, counters that end at two, tables with
room for one or two entries. A second pass over a limit adds no new case:
the code compares cursors, numbers and times with each other and with the
limit, never with their absolute values. Two or three actors are enough for
every pairwise race; three producers of the ring differ from two only in who wins a
compare-and-swap.

- `OutboundQueue`: with `Encoders` non-empty, `Slots = 2` violates
  `ImplementsFifo`, because a cursor moved back by one meets a cell of the
  next lap. The code's rings are far larger; four is the smallest that stands for them.
- `ZdtLink`: `MaxLag` and `MaxSeqLag` bound how late a datagram may be,
  within half a period of packet and of message numbers; the code has no such
  bound and relies on the network for it.
- `ZdtSender`: `NoOrphans` (in `TrackingExact`) needs `LogCapacity` to be at
  least the number of times a message is sent; the code has 16 entries and, by
  default, ten retries.
- `Congestion`: times and windows are about a tenth of the code's, doubles are
  fixed-point numbers rounded down, and acknowledgments are never half a period old.
- `ZdtConnect`: in the plan in which a client moves, handshake datagrams are not
  repeated and addresses not reused; the plans in "Further disagreements" lift this.
- `BitStream`: `MaxQuiet` bounds how long a peer says nothing.

## Fairness

- `OutboundQueue`, `ServerLoop`, `ClientLoop`, `SelfManaged`: weak fairness of
  each thread's steps, since the operating system runs every runnable thread. No
  call of the application is fair: nobody need stop a server, close a
  session or send.
- `ZdtLink`: the tick flushes, retransmits, gives up and handles its inbox. Nothing
  is assumed of the network, which may drop everything.
- `SessionCrypto`: each end keeps processing and the transport hands over the
  message at its head, which is what a reliable transport promises.
- `ZdtConnect`: the client's timers run and it keeps sending; of each kind of
  datagram, one that is neither lost nor kept back arrives. Losses are bounded by the plan.
- `Agents`: ticks run and time passes; the network may lose everything.
- `AgentPaths`: a datagram sent again and again arrives (strong fairness for
  each kind), and what was sent from an abandoned address vanishes in the end.

## What is proved

Eight modules hold proofs. In each, an inductive invariant says what the threads
or ends rely on at each place of the code; one lemma per action, or group of
actions, shows that it is kept, and the property of the run follows from it.

**`OutboundQueueProofs`**, for any threads, ring of at least two cells and number of
packets:

- `OneEncoderTheorem`, with any number of draining threads. The property alone is
  not inductive; `ClaimInv` adds that a thread between the exchange and the
  release of `encoding_` has left the flag set.
- `ServerCellExclusive`, `ServerCursorForward`, `ServerImplementsFifo`, for
  a session drained by its worker alone. They share `ServerInv`: `Types`; `Ring`, what
  every cell from the oldest unfreed position to one lap beyond it
  holds; `Producing` and `Draining`, what each thread may rely on. The refinement maps
  claimed slots to what was sent, and encoded packets to what was delivered.

**`SessionProofs`**, for any streams, packets, counters and losses:
`NoncesUniqueTheorem`. `NonceInv` adds that each nonce used lies below the counter
of its key and stream. What an operation of a session does to it is one
predicate, `Goes`: no nonce and no counter moved, or one nonce, the counter's,
and that counter moved by one. Each operation is shown to satisfy it; then a step
that commits such a result uses a new nonce.

**`ServerLoopProofs`**, for any finite set of sessions and any workers, limits and
stopping threads: `EventsPairedTheorem`, `CapRespectedTheorem`, `NothingHeldTheorem`
and, together, `ServerHoldsTheorem`. `ServerInv` says in which phase of the main loop the
workers and the backend can be (`Phases`), what the application has heard of a
session given where it is (`Story`), that whoever closes the backend leaves no
session in it (`Backlog`), and that the limit counts sessions that have died but
still are in a table (`CapInv`), which is more than the property says and what makes it
inductive. That one thread joins the receive thread (`JoinedByOne`) needs `OneJoins`,
and over TCP the hypothesis `OneTcpStopper`: at most one thread stops the server. Without it
the claim is false, see `JoinedByOne` under "Further disagreements".

**`RelayProofs`**, for any endpoints, limits and timers: `PairingsSoundTheorem`.
`RelayInv` says that each table leads back from the other, that the slots of a pairing
are the addresses that bound its token, at most two for each token ever issued
(forwarding is judged by them also after the pairing is gone), that the loop left
nothing expired when it last swept, and what is left at each stage of `Stop`. The
walk in `Allocate` ends because the limit is below the number of channels (`FreeChannel`).

**`TcpTraversalProofs`**, for any paths, rounds, budgets and number of `Connect` calls:

- `SameConnectionTheorem`. `PunchInv` adds that nothing speaks of a round that has not
  begun, that a round keeps one connection at most, and `NoCrossing`: the
  connections two peers kept do not each pair an early round with a late one. Two ends
  that confirmed each other then hold the same connection (`PunchAgreed`).
- `LocatorOutcomeTheorem`. `LocatorInv` says which places link, worker and caller can be in
  together (`InStep`), and which link has been told as ended or failed (`AllHeard`).
  Both hold until the locator is destroyed; that no wake is lost holds always.

**`TcpLinkProofs`**, for any packets, buffers and way the bytes are cut up:
`FramesArriveWhole`. The property speaks of whole packets, the state of bytes, so the
invariant reads the bytes as packets. For each direction, `Stream` is what the receiver
has buffered, what is on the wire and what the writer that holds `write_mutex_` has left; `Framed`
says that it is a run of whole frames, cut short only once a side has closed, whose
bodies are those written and not yet handed up. `LocksInv` says that a frame is under way
only in the thread that holds the mutex; without it a second thread could start a frame inside
another. A write moves bytes along this stream, a read moves them on, a frame is
added behind its end or taken off its front, and a close cuts it.

**`RendezvousProofs`**, for any number of clients that ask, move, leave and are
dropped: `AsksAreAnswered`. `BrokerInv` says who is registered and who is waited for
(`Standing`), what keeps each pending ask alive (`AsksKept`: the ask is queued, or its target
is registered and has yet to ask, is queued in turn, or has an ask, a nudge or a repunch on its way),
and that gatherings of a client reach the broker in their order and ahead of the asks that rely on
them (`GatheringsOrdered`), from which an offer's freshness follows at the match.

**`NumberingProofs`**, for every period and width, over any number of laps:

- `ReconstructsExactly`: a message number less than half a period ahead of the
  expected one, or at most half a period behind, is rebuilt from the bits that travelled.
- `PacketsCompareAsSent`: of two datagrams less than half a period apart, the later
  compares greater, although the numbering skips the reserved 0 when it wraps.
  `Position` places datagram numbers on an unbounded line on which the
  skips are gaps; the wire carries the remainder.
- `HistoryExactTheorem`: each bit of the acknowledgment history tells whether its
  datagram arrived, however late, repeated or lost datagrams are within the lag. This is
  the part of `ReportFaithful` that precedes the encoding of a report.
- `CutOncePerEpoch`: between two reductions of the congestion window, a datagram sent
  after the first was acknowledged. `EpochInv` adds that an open epoch waits for the number
  after the last reduction's, and a closed one has seen it; that the comparison of numbers
  is right on the way rests on `PacketsCompareAsSent`. It is one half of `CutsJustified`.
- for the replay window, `WindowIsExact` (the bitmap is the accepted counters within
  reach of the highest) is inductive; `RepeatsRefused`, `ReorderingLosesNothing` and
  `ReplayExactTheorem` follow from it, for every width and every number of counters.

The assumptions are those named `...Assumption` in the modules: a ring has at
least two cells, bounds are natural numbers, threads of different roles are
different, `None` is no endpoint, sessions are finitely many, periods are even and a
datagram's lag stays within half a period; a receive buffer of TCP holds at least a control
frame (three bytes) and more than a header, and a socket takes at least a byte. `ServerHoldsTheorem` has the one hypothesis
named above; nothing else is assumed.

Only model-checked, and why:

- liveness under fairness (`EventuallyDrained`, `StopReturns`, `DeliveredOrClosed`,
  `BothConnect`, `RouteFollows`, `DisconnectReported`, `StopCompletes`,
  `AnsweredEventually`, `SessionsFollow`): out of the prover's reach, as is `ENABLED`;
- what a recursive definition computes for every input: `BitStream`, `MessagePath`,
  the folds of `ByteBuffer` and with them `ZdtDatagram`, the run lengths of `ReportFaithful`;
- `OneEncoder`'s companion `ImplementsFifo` with two draining threads: `Empty()` moves a
  cursor back there, and the refinement depends on the size of the ring;
- the half of `CutsJustified` about the floor of the round trip (`FloorFollowsPath`), a
  statement about repeated samples of an estimator in fixed point;
- `AckedMeansDelivered`, `ReadExactlyOnce`, `DeliveryModes`, `TrackingExact`, `SessionsConsistent`,
  `AnsweredTruly`, `StreamsAgree`, `ConnectionsAccounted`, `AcceptsJustly`, `GatheredTruth` and
  `ScreensTrue`: no proof has been written. Those of `ZdtLink`, `ZdtConnect` and
  `Agents` range over all datagrams in flight at once, copies included.

`CursorForward`, `CapRespected`, `NothingHeld`, `OneReductionPerEpoch` and `HistoryExact` are proved and have
no run of their own.

## Disagreements between code and comments

Two are runs of their own:

- **zdt_mixed**. Ordered and unordered reliable messages on one channel share a
  sequence space (`zdt_transport.cc:842`). Unordered delivery does not advance
  what ordered delivery waits for, so an acknowledged ordered message stays in
  the reorder buffer, although `send_options.h` promises its delivery.
- **tcp_punched**. `punch.cc:232` makes the winner of a punch blocking and hands it
  to a session that drives itself. Each end receives before it drains, so both
  park in `recv()`, which is what the comment at `tcp.cc:400` says must not
  happen; what the application queued at either end never leaves.

### Further disagreements

Each is a property of a module that TLC violates under the named run's
configuration, changed as stated. Comments quoted at the definitions say what was expected.

| Property | Configuration | What happens |
| --- | --- | --- |
| `EventuallyDrained` | outbound_client, `MaxPushes = 3`, `MayClose = FALSE` | the last packet waits for the loop's next timed tick |
| `CursorForward` | the same | `Empty()` of one drainer moves the cursor back behind the other |
| `NobodySleepsOnAPacket` | outbound_server, `Slots = 4`, `MayClose = FALSE` | a packet waits for the next timed tick |
| `DeadSessionReleases` | outbound_server, one producer | packets of a session closed between two ticks stay queued |
| `AckSafe` | zdt_link, `Plans <- ExpiryPlans` | a reassembly expires with fragments that were acknowledged |
| `AckedMeansDelivered` | zdt_link, `Plans <- OversizedPlans` | a message too large takes a number that the channel waits for |
| `SequencedDropsOnlyOld` | zdt_link, `Plans <- SequencedPlans` | unreliable unordered messages use up the numbers of sequenced ones |
| `ReconstructExact` | zdt_link, `Plans <- LatePlans`, `MaxLag = 6`, `MaxSeqLag = 4` | a copy half a period late is read as another message |
| `ForgottenIsSettled` | zdt_link, `Plans <- ForgottenPlans`, `SeqPeriod = 8`, `HistoryBits = 2`, `Reportable = 2`, `MaxLag = 6`, `MaxSeqLag = 4` | the history forgets a datagram that is still tracked |
| `InFlightBounded` | streams | a fragmented message or a retransmission exceeds the window |
| `NothingLost` | session, ordered packets with encryption, `MayFail = FALSE`, `MaxCounter = 9` and either two packets on two streams, or one stream with `EarlySend = TRUE` | a packet of another stream overtakes the handshake, or is pulled before a handler is installed |
| `ReleasedIsFree` | session | the encoder still holds a released session, and its port |
| `ConnectedHasSession` | zdt_connect, `Plans <- MCRestart` | a client restarted on its predecessor's port takes the answer meant for it |
| `OneSessionPerClient` | zdt_connect, `Plans <- MCTwice` | a late copy of a handshake datagram makes a second session after a move |
| `FinsLeave` | server, `Plans <- StoppedPlans` | sessions are closed after the socket is gone |
| `JoinedByOne` | server, `Plans <- TwicePlans` | two threads that stop a TCP server both join its poll thread |
| `IdsMatch` | agents, `Plans <- AgainPlans` | a late datagram of one punch gives the next a stale remote id |
| `BoundIsHeard` | agents, `Ends <- MeshEnds`, `Plans <- MeshPlans` | of two punches over one relay, the wrong one hears that it is bound |
| `SuccessIsLive` | agents, `Plans <- ClosedPlans` | a punch is answered with a session that was just closed |
| `AsksFresh` | protocols | a gather that was under way at a move takes the asks along |
| `GoneIsForgotten` | protocols | a name given after the disconnect event keeps a dead client registered |
| `WatchedWhileOpen` | streams | a number on the poller's list twice is erased with its predecessor |
| `ReusableWhenOver` | streams | `Connect()` is refused until `Wait()` was called |
| `Transparent` | streams, `Scripts <- SloppyScripts` | the error of a serializer that ignores it fails the next frame |
| `DecodesWhatWasSent` | streams, `MaxQuiet = 3` | a sequence number comes round while the peer is silent |

Also read, and not a property: `options.h` says that routing for migration is not
built yet, although it is; `server.h` calls the connection limit slightly lenient,
although `ServerHolds` finds it strict; the chat server's comment on `ClientState`
says that only its own session's thread touches it, although a broadcast
reads the room of every session.

## What is not modelled

- **Data.** Payloads, keys, guids and challenges are model values; key agreement,
  the AEAD, cookies and zstd are ideal. Text of addresses, the resolver, logging,
  metrics and version strings are left out.
- **Memory order.** Steps of threads interleave over one memory; what weaker
  orders than sequential consistency allow is not explored.
- **Buffer.** Move assignment, `Reset`, `Swap`, floats and arrays of a fixed size that does
  not match; hosts are little-endian.
- **ZDT.** One channel in one direction, fixed window (the window itself is
  `Congestion`); pings and pongs, several lanes, byte budgets and acknowledgments
  that ride on data are left out, `zdt_net.cc` is the network.
- **TCP.** Socket options, Windows, and errors of the kernel other than a full or
  closed socket. `ClientLoop` is called from one thread.
- **P2P.** In `Agents` the handshake of a session is one datagram each way and a
  datagram's delay is spent on the relay's second hop; `AgentPaths` has one peer, and
  two ends that move at once lose each other, as in the code; the two are not
  composed. In `Rendezvous`, `Stop`, gathers that find the agent stopped, and the allocation of a
  relay are left out (`Relay` has it). NATs and kernels are external.
- **Chat example.** Connections are accepted one at a time, as the server does; text
  and the terminal are left out.
- **Extensions** for other libraries (entt, glm, json, flatbuffers, reflect, box2d,
  bullet, jolt, spdlog), directions and rotations of quantize, the remaining
  examples, the benchmarks and the rendezvous program: straight-line code over the
  operations modelled here, with no state or concurrency of its own.
