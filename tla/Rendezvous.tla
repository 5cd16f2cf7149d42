----------------------------- MODULE Rendezvous -----------------------------
(***************************************************************************)
(* The rendezvous broker (rendezvous_server.cc): the packet handlers on its *)
(* session workers, its events and the pairing thread, and the peers on the *)
(* other side of its links (PeerLocator, locator.cc), which gather, ask for *)
(* each other, and ask again after an address changed.                      *)
(*                                                                          *)
(* A peer is named after its client, so names are unique by construction; a *)
(* link is a TCP session, ordered in each direction.  Candidates are the    *)
(* version of the address they were gathered at.  What an offer leads to is *)
(* Agents; here a punch succeeds or not.                                    *)
(***************************************************************************)
EXTENDS Naturals, Sequences, FiniteSets, FiniteSetsExt

CONSTANTS Clients,
          Budgets    \* [clients, asks, moves, leaves, limit] of a behaviour:
                     \* who joins, how often somebody asks, moves and leaves,
                     \* and max_requests_per_window

ASSUME RendezvousAssumption ==
  \A b \in Budgets : /\ b.clients \subseteq Clients
                     /\ {b.asks, b.moves, b.leaves, b.limit} \subseteq Nat

VARIABLES budget,     \* what is left of it
          client,     \* per client, its link and the broker's ClientData
          queues,     \* the welcome, ask and clear queues
          pairing,    \* what the pairing thread took of them
          registry,   \* registry_: the names that can be asked for
          up, down,   \* per client, what its link carries to and from the broker
          locator     \* per client, the fields of its PeerLocator

brokerVars == <<budget, client, queues, pairing, registry, up, down, locator>>

Empty == [clear |-> <<>>, welcome |-> <<>>, asks |-> <<>>]

BrokerInit ==
  /\ budget \in Budgets
  /\ client = [c \in Clients |->
                [alive |-> FALSE, event |-> "none", named |-> FALSE, requests |-> 0,
                 pending |-> [t \in Clients |-> 0], paired |-> {}, candidates |-> 0]]
  /\ queues = Empty /\ pairing = Empty
  /\ registry = {}
  /\ up = [c \in Clients |-> <<>>] /\ down = [c \in Clients |-> <<>>]
  /\ locator = [c \in Clients |->
                 [ready |-> FALSE, gathers |-> <<>>, repunch |-> <<>>, connected |-> {},
                  address |-> 1, sent |-> 0]]

Packet(type, peer, version, asked) ==
  [type |-> type, peer |-> peer, version |-> version, asked |-> asked]

\* SendPacket on a link, which refuses once the session is closed.
Sends(link, c, packets) ==
  [link EXCEPT ![c] = IF client[c].alive THEN @ \o packets ELSE @]

-----------------------------------------------------------------------------
\* The broker's events and handlers.

\* OnConnectEvent: there is nothing to ask of a client before it has a name.
OnConnectEvent(c) ==
  /\ c \in budget.clients /\ client[c].event = "none"
  /\ client' = [client EXCEPT ![c].alive = TRUE, ![c].event = "connected"]
  /\ queues' = [queues EXCEPT !.welcome = <<c>> \o @]
  /\ UNCHANGED <<budget, pairing, registry, up, down, locator>>

\* The link is lost.
Leave(c) ==
  /\ client[c].alive /\ budget.leaves > 0
  /\ budget' = [budget EXCEPT !.leaves = @ - 1]
  /\ client' = [client EXCEPT ![c].alive = FALSE]
  /\ UNCHANGED <<queues, pairing, registry, up, down, locator>>

\* OnDisconnectEvent
OnDisconnectEvent(c) ==
  /\ client[c].event = "connected" /\ ~client[c].alive
  /\ client' = [client EXCEPT ![c].event = "gone"]
  /\ queues' = IF client[c].named THEN [queues EXCEPT !.clear = <<c>> \o @] ELSE queues
  /\ UNCHANGED <<budget, pairing, registry, up, down, locator>>

\* AllowRequest: over the limit the client is dropped.
AllowRequest(c) == budget.limit = 0 \/ client[c].requests < budget.limit

WindowPasses(c) ==
  /\ budget.limit > 0 /\ client[c].requests > 0
  /\ client' = [client EXCEPT ![c].requests = 0]
  /\ UNCHANGED <<budget, queues, pairing, registry, up, down, locator>>

\* OnPacket(GatheringPacket) and OnPacket(ConnectPeerPacket)
OnPacket(c) ==
  LET pk == Head(up[c])
      data == [client[c] EXCEPT !.requests = @ + 1] IN
  /\ client[c].alive /\ up[c] # <<>>
  /\ up' = [up EXCEPT ![c] = Tail(@)]
  /\ \/ /\ ~AllowRequest(c)
        /\ client' = [client EXCEPT ![c].alive = FALSE]
        /\ UNCHANGED queues
     \/ /\ AllowRequest(c) /\ pk.type = "gathering"
        /\ client' = [client EXCEPT ![c] = [data EXCEPT !.candidates = pk.version]]
        /\ UNCHANGED queues
     \/ /\ AllowRequest(c) /\ pk.type = "ask" /\ ~client[c].named
        /\ client' = [client EXCEPT ![c] = data]
        /\ UNCHANGED queues
     \/ /\ AllowRequest(c) /\ pk.type = "ask" /\ client[c].named
        /\ client' = [client EXCEPT ![c] = [data EXCEPT !.pending[pk.peer] = pk.version]]
        /\ queues' = [queues EXCEPT !.asks = <<[from |-> c, target |-> pk.peer]>> \o @]
  /\ UNCHANGED <<budget, pairing, registry, down, locator>>

-----------------------------------------------------------------------------
\* The pairing thread.  mutex_ is taken again for every item.

\* PairingLoop wakes up and swaps the queues out.
PairingTakes ==
  /\ pairing = Empty /\ queues # Empty
  /\ pairing' = queues /\ queues' = Empty
  /\ UNCHANGED <<budget, client, registry, up, down, locator>>

PairingClears ==
  /\ pairing.clear # <<>>
  /\ registry' = registry \ {Head(pairing.clear)}
  /\ pairing' = [pairing EXCEPT !.clear = Tail(@)]
  /\ UNCHANGED <<budget, client, queues, up, down, locator>>

\* Welcome
Welcome ==
  LET c == Head(pairing.welcome) IN
  /\ pairing.clear = <<>> /\ pairing.welcome # <<>>
  /\ pairing' = [pairing EXCEPT !.welcome = Tail(@)]
  /\ client' = [client EXCEPT ![c].named = TRUE]
  /\ registry' = registry \cup {c}
  /\ down' = Sends(down, c, <<Packet("welcome", c, 0, 0)>>)
  /\ UNCHANGED <<budget, queues, up, locator>>

\* What a match is offered about c: its candidates, for the ask it made.
PunchOffer(c, target) ==
  Packet("offer", c, client[c].candidates, client[c].pending[target])

\* Mutant: the ask just waits.
Nudge_Silent(c, target) == down

\* A former partner is told that c asks for it again.
Nudge(c, target) ==
  IF c \in client[target].paired
  THEN Sends(down, target, <<Packet("repunch", c, 0, 0)>>) ELSE down

\* TryPair
TryPair ==
  LET c == Head(pairing.asks).from
      target == Head(pairing.asks).target
      found == target \in registry /\ target # c
      pending == client[c].pending[target] # 0
      mutual == client[target].pending[c] # 0 IN
  /\ pairing.clear = <<>> /\ pairing.welcome = <<>> /\ pairing.asks # <<>>
  /\ pairing' = [pairing EXCEPT !.asks = Tail(@)]
  /\ \/ /\ ~pending                        \* the other side's ask paired them
        /\ UNCHANGED <<client, down>>
     \/ /\ pending /\ ~found
        /\ client' = [client EXCEPT ![c].pending[target] = 0]
        /\ down' = Sends(down, c, <<Packet("notfound", target, 0, 0)>>)
     \/ /\ pending /\ found /\ ~mutual     \* the ask stays pending
        /\ down' = Nudge(c, target)
        /\ UNCHANGED client
     \/ /\ pending /\ found /\ mutual
        /\ client' = [client EXCEPT ![c].pending[target] = 0, ![target].pending[c] = 0,
                                    ![c].paired = @ \cup {target},
                                    ![target].paired = @ \cup {c}]
        /\ down' = Sends(Sends(down, c, <<PunchOffer(target, c)>>),
                         target, <<PunchOffer(c, target)>>)
  /\ UNCHANGED <<budget, queues, registry, up, locator>>

-----------------------------------------------------------------------------
\* The peers.

\* BeginRepunch: targets are asked for again when a fresh gathering is out.
BeginRepunch(c, targets, address) ==
  locator' = [locator EXCEPT
    ![c].address = address, ![c].gathers = Append(@, address),
    ![c].repunch = @ \o [i \in DOMAIN targets |-> [peer |-> targets[i], since |-> address]]]

\* The packet at the head of c's link is of this type and is taken.
TakesFromLink(c, type) ==
  /\ client[c].alive /\ down[c] # <<>> /\ Head(down[c]).type = type
  /\ down' = [down EXCEPT ![c] = Tail(@)]
  /\ UNCHANGED <<budget, client, queues, pairing, registry, up>>

\* OnWelcome: the first gather begins.
OnWelcome(c) == TakesFromLink(c, "welcome") /\ BeginRepunch(c, <<>>, locator[c].address)

\* OnPeerNotFound: the application is told, nothing else changes.
OnPeerNotFound(c) == TakesFromLink(c, "notfound") /\ UNCHANGED locator

\* OnPunchOffer: the punch it starts succeeds or not.
OnPunchOffer(c) ==
  /\ TakesFromLink(c, "offer")
  /\ \/ UNCHANGED locator
     \/ locator' = [locator EXCEPT ![c].connected = @ \cup {Head(down[c]).peer}]

\* OnRepunchRequest
OnRepunchRequest(c) ==
  TakesFromLink(c, "repunch") /\ BeginRepunch(c, <<Head(down[c]).peer>>, locator[c].address)

Asks(c, version) ==
  LET targets == locator[c].repunch IN
  [i \in DOMAIN targets |-> Packet("ask", targets[i].peer, version, targets[i].since)]

\* Mutant: the asks overtake the gathering.
Gathered_AsksFirst(c, version) ==
  Asks(c, version) \o <<Packet("gathering", c, version, 0)>>

\* The gathering goes out first, the asks that waited for it after.
Gathered(c, version) ==
  <<Packet("gathering", c, version, 0)>> \o Asks(c, version)

\* OnGathered, of the gather that began first: the probe of an earlier one
\* takes the reflector's answers until it has its own.  Its answer may be older
\* than the last move.
OnGathered(c) ==
  LET here == locator[c] IN
  /\ here.gathers # <<>>
  /\ \/ /\ client[c].alive
        /\ \E version \in Max({Head(here.gathers), here.sent})..here.address :
             /\ up' = Sends(up, c, Gathered(c, version))
             /\ locator' = [locator EXCEPT ![c].gathers = Tail(@), ![c].repunch = <<>>,
                                           ![c].ready = TRUE, ![c].sent = version]
     \/ /\ ~client[c].alive
        /\ locator' = [locator EXCEPT ![c].gathers = Tail(@)] /\ UNCHANGED up
  /\ UNCHANGED <<budget, client, queues, pairing, registry, down>>

\* AskPeer
AskPeer(c, target) ==
  /\ locator[c].ready /\ client[c].alive /\ budget.asks > 0
  /\ budget' = [budget EXCEPT !.asks = @ - 1]
  /\ up' = Sends(up, c, <<Packet("ask", target, locator[c].sent, 0)>>)
  /\ UNCHANGED <<client, queues, pairing, registry, down, locator>>

\* The network changes under a peer, and the application calls Relocate.
Relocate(c) ==
  LET peers == locator[c].connected
      order == CHOOSE f \in Bijection(1..Cardinality(peers), peers) : TRUE IN
  /\ locator[c].ready /\ client[c].alive /\ budget.moves > 0
  /\ budget' = [budget EXCEPT !.moves = @ - 1]
  /\ BeginRepunch(c, order, locator[c].address + 1)
  /\ UNCHANGED <<client, queues, pairing, registry, up, down>>

BrokerNext ==
  \/ \E c \in Clients :
       \/ OnConnectEvent(c) \/ Leave(c) \/ OnDisconnectEvent(c) \/ WindowPasses(c)
       \/ OnPacket(c) \/ OnGathered(c) \/ Relocate(c)
       \/ OnWelcome(c) \/ OnPeerNotFound(c) \/ OnPunchOffer(c) \/ OnRepunchRequest(c)
       \/ \E target \in Clients : AskPeer(c, target)
  \/ PairingTakes \/ PairingClears \/ Welcome \/ TryPair

BrokerSpec == BrokerInit /\ [][BrokerNext]_brokerVars

-----------------------------------------------------------------------------
\* Properties.

\* An ask of c's for target is on its way through the broker.
Queued(c, target) ==
  [from |-> c, target |-> target] \in Range(queues.asks \o pairing.asks)

\* target is about to ask for c, or to be nudged to.
Coming(target, c) ==
  \/ /\ locator[target].gathers # <<>>
     /\ \E i \in DOMAIN locator[target].repunch : locator[target].repunch[i].peer = c
  \/ \E i \in DOMAIN down[target] : down[target][i].type = "repunch" /\ down[target][i].peer = c
  \/ \E i \in DOMAIN up[target] : up[target][i].type = "ask" /\ up[target][i].peer = c

\* An ask is never forgotten: while it waits, either the target has not asked
\* back and was never its partner, or something under way will bring the two
\* together (pending_targets, the queues' newest-first batches, the nudge and
\* BeginRepunch).
NoAskForgotten ==
  \A c, target \in registry :
    (client[c].pending[target] # 0 /\ client[c].alive /\ client[target].alive /\ c # target) =>
      \/ Queued(c, target) \/ Queued(target, c) \/ Coming(target, c)
      \/ client[target].pending[c] = 0 /\ c \notin client[target].paired

\* An offer never names candidates older than those gathered before the ask it
\* answers (OnGathered: "so it pairs with the new ones").
OffersFresh ==
  \A c \in Clients : \A i \in DOMAIN down[c] :
    down[c][i].type = "offer" => down[c][i].version >= down[c][i].asked

\* The broker brings together all who asked for each other, and with what they
\* gathered before they asked (OnPacket(ConnectPeerPacket), the pairing thread, OnGathered).
AsksAnsweredFresh == NoAskForgotten /\ OffersFresh

\* What Relocate() asks for again is asked with candidates gathered after the
\* move (OnGathered: "now that the fresh candidates are on their way").
AsksFresh ==
  \A c \in Clients : \A i \in DOMAIN up[c] :
    up[c][i].type = "ask" => up[c][i].version >= up[c][i].asked

\* A client whose disconnect event was handled is not left in the registry.
GoneIsForgotten ==
  (queues = Empty /\ pairing = Empty) =>
    \A c \in registry : client[c].event # "gone"
=============================================================================
