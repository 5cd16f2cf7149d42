---------------------------- MODULE MCProtocols ----------------------------
(* The broker, what an agent learns of its surroundings, the relay, and the  *)
(* bookkeeping of a ZDT connection, checked side by side: a behaviour        *)
(* exercises the part it chose at the start and leaves the others as they    *)
(* were.                                                                     *)
EXTENDS Rendezvous, Gather, Relay, ZdtArrivals, ReplayStream, Congestion, ZdtDatagram, ChatRoom

VARIABLE part

\* Two clients that ask and move, or one of them leaves and too many requests
\* are refused.
Budget(asks, moves, leaves, limit) ==
  [clients |-> Clients, asks |-> asks, moves |-> moves, leaves |-> leaves, limit |-> limit]

MCClients == {"p", "q"}
MCBudgets == {Budget(2, 2, 0, 0), Budget(2, 0, 1, 2)}

-----------------------------------------------------------------------------
\* Behind every kind of NAT, an answer of an earlier gather on its way; ports
\* that are far apart or run out, other programs' flows in between; a reflector
\* that throttles, one that drops short requests, and one without an address.
Reflecting(host, port) == InetAddressIPv4(<<20, 0, 0, host>>, port)
Unthrottled == [allow |-> <<>>, deny |-> <<>>, max |-> 0, window |-> 0]
OneInTwo == [Unthrottled EXCEPT !.max = 1, !.window = 2]
Card(ip, bridge) == [ipv |-> "IPv4", ip |-> ip, up |-> TRUE, bridge |-> bridge]
Cards == <<Card(<<127, 0, 0, 1>>, FALSE), Card(<<10, 0, 0, 2>>, FALSE),
           Card(<<169, 254, 0, 1>>, FALSE), Card(<<172, 17, 0, 1>>, TRUE)>>
Earlier(from, port) == [kind |-> "Reflected", peer |-> from, nonce |-> StaleNonce,
                        observed |-> InetAddressIPv4(ExternalHost, port)]
Around(kind, first, stride, reflectors, changes) ==
  [f \in {"size", "throttle", "losses", "flows", "late"} |->
     CASE f \in DOMAIN changes -> changes[f]
       [] f = "size" -> 8
       [] f = "throttle" -> Unthrottled
       [] f = "late" -> {}
       [] OTHER -> 0]
    @@ [nat |-> kind, first |-> first, stride |-> stride, reflectors |-> reflectors, timeout |-> 2,
        interfaces |-> Cards]
TwoHosts == <<Reflecting(1, 1), Reflecting(2, 1)>>
ThreePorts == <<Reflecting(1, 1), Reflecting(1, 2), Reflecting(2, 1)>>
MCGatherPlans ==
  {Around(k, 40, 2, ThreePorts, [flows |-> 1, late |-> {Earlier(Reflecting(1, 1), 30)}]) :
     k \in {"none", "independent", "address", "port"}}
  \cup {Around(k, 40, s, TwoHosts, [losses |-> 1, flows |-> 2]) : s \in {2, 9}, k \in {"independent", "address"}}
  \cup {Around("address", 58, 2, TwoHosts, [throttle |-> OneInTwo, losses |-> 1]),
        Around("port", 40, 2, ThreePorts, [size |-> 7]),
        Around("address", 40, 2, <<Invalid("IPv4")>>, [size |-> 8])}

-----------------------------------------------------------------------------
\* A path whose round trip lengthens for good, one that wavers, and one that
\* loses datagrams while it lengthens.
Course(before, after, change, gaps, start, sends, cap, unackedAtOnce) ==
  [before |-> before, after |-> after, change |-> change, gaps |-> gaps, start |-> start,
   sends |-> sends, cap |-> cap, unacked |-> unackedAtOnce]
MCPaths == {Course({2, 6}, {6}, 2, {4}, 0, 9, 2, 1), Course({2, 6}, {2, 6}, 0, {6}, 8, 14, 8, 2),
            Course({2}, {6}, 2, {5}, 0, 8, 2, 2)}

-----------------------------------------------------------------------------
\* Datagrams of every kind: relayed or not, with and without a connection id,
\* acknowledgment blocks, several records and fragments.
Header(flags, cid, blocks) == [flags |-> flags, cid |-> cid, seq |-> 258, ack |-> 513, blocks |-> blocks]
Item(flags, index, count, payload) ==
  [flags |-> flags, channel |-> 3, seq |-> 700, index |-> index, count |-> count, payload |-> payload]
Batches ==
  {<<>>, <<Item(1, 0, 1, <<>>), Item(3, 0, 1, <<5, 6>>)>>,
   <<Item(4, 1, 2, <<9>>), Item(0, 0, 1, <<192, 1, 1, 1>>)>>,
   <<Item(7, 0, 3, <<1, 2, 3>>), Item(5, 1, 3, <<4>>), Item(1, 0, 1, <<8>>)>>}
Headers == {Header(128, 0, <<>>), Header(136, 66051, <<<<1, 2>>, <<3, 0>>>>),
            Header(129, 0, <<<<0, 1>>>>), Header(138, 1, <<>>)}
Gram(kind, channel, header, records, proof, id) ==
  [kind |-> kind, relay |-> channel, header |-> header, records |-> records, path |-> proof, id |-> id]
MCDatagrams ==
  {Gram("online", r, h, s, {}, 0) : r \in {0, 1, 70000}, h \in Headers, s \in Batches}
  \cup {Gram("path", r, {}, {}, [id |-> i, cid |-> 77, epoch |-> 300, cookie |-> <<1, 2>>], i) :
          r \in {0, 1}, i \in {14, 15}}
  \cup {Gram("offline", r, {}, {}, {}, i) : r \in {0, 1}, i \in {1, 9, 13}}
MCMagic == <<90, 1>>

MCRooms == <<"#general", "#dev">>

-----------------------------------------------------------------------------
Parts == {"broker", "gather", "relay", "acks", "replay", "congestion", "datagram", "chat"}

\* A part that is not exercised starts in one state.
Idle(p, v, values) == IF part = p THEN TRUE ELSE v = (CHOOSE x \in values : TRUE)

ProtocolsInit ==
  /\ part \in Parts
  /\ Idle("broker", budget, Budgets) /\ BrokerInit
  /\ Idle("gather", surroundings, GatherPlans) /\ GatherInit
  /\ RelayInit /\ HistoryInit /\ Init
  /\ Idle("congestion", path, Paths) /\ CongestionInit
  /\ GramInit /\ ChatInit

\* Every part but p keeps its state.
Rest(p) ==
  /\ UNCHANGED part
  /\ IF p = "broker" THEN TRUE ELSE UNCHANGED brokerVars
  /\ IF p = "gather" THEN TRUE ELSE UNCHANGED gatherVars
  /\ IF p = "relay" THEN TRUE ELSE UNCHANGED relayVars
  /\ IF p = "acks" THEN TRUE ELSE UNCHANGED <<history, arrived>>
  /\ IF p = "replay" THEN TRUE ELSE UNCHANGED vars
  /\ IF p = "congestion" THEN TRUE ELSE UNCHANGED congestionVars
  /\ IF p = "datagram" THEN TRUE ELSE UNCHANGED gramVars
  /\ IF p = "chat" THEN TRUE ELSE UNCHANGED chatVars

ProtocolsNext ==
  \/ part = "broker" /\ BrokerNext /\ Rest("broker")
  \/ part = "gather" /\ GatherNext /\ Rest("gather")
  \/ part = "relay" /\ RelayNext /\ Rest("relay")
  \/ part = "acks" /\ HistoryNext /\ Rest("acks")
  \/ part = "replay" /\ Next /\ Rest("replay")
  \/ part = "congestion" /\ CongestionNext /\ Rest("congestion")
  \/ part = "datagram" /\ GramNext /\ Rest("datagram")
  \/ part = "chat" /\ ChatNext /\ Rest("chat")
=============================================================================
