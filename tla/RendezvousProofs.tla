-------------------------- MODULE RendezvousProofs --------------------------
(***************************************************************************)
(* The broker forgets nobody who asked, and what it offers was gathered    *)
(* before it was asked for: for any number of clients, however they ask,   *)
(* move and leave.                                                         *)
(***************************************************************************)
EXTENDS Rendezvous, SequenceTheorems, FiniteSetTheorems, TLAPS

Elems(s) == {s[i] : i \in DOMAIN s}

Ask == [from : Clients, target : Clients]
Queues == [clear : Seq(Clients), welcome : Seq(Clients), asks : Seq(Ask)]
Packets == [type : {"gathering", "ask", "welcome", "offer", "notfound", "repunch"},
            peer : Clients, version : Nat, asked : Nat]

ClientData ==
  [alive : BOOLEAN, event : {"none", "connected", "gone"}, named : BOOLEAN, requests : Nat,
   pending : [Clients -> Nat], paired : SUBSET Clients, candidates : Nat]

Locator ==
  [ready : BOOLEAN, gathers : Seq(Nat), repunch : Seq([peer : Clients, since : Nat]),
   connected : SUBSET Clients, address : Nat, sent : Nat]

BrokerType ==
  /\ client \in [Clients -> ClientData]
  /\ queues \in Queues /\ pairing \in Queues
  /\ registry \in SUBSET Clients
  /\ up \in [Clients -> Seq(Packets)] /\ down \in [Clients -> Seq(Packets)]
  /\ locator \in [Clients -> Locator]
  /\ \A c \in Clients : IsFiniteSet(locator[c].connected)

\* Who is alive, named and registered, and who waits for what.
Standing ==
  /\ \A c \in Clients :
       /\ client[c].alive => client[c].event = "connected"
       /\ client[c].named => client[c].event # "none"
       /\ client[c].named /\ client[c].alive => c \in registry
       /\ c \in registry => client[c].named
  /\ \A c \in Elems(queues.welcome) \cup Elems(pairing.welcome) : client[c].event # "none"
  /\ \A c \in Elems(queues.clear) \cup Elems(pairing.clear) : client[c].event = "gone"

\* An ask names the gathering it belongs to, and no gathering is number 0.
Numbered ==
  \A c \in Clients :
    /\ locator[c].address # 0
    /\ \A g \in Elems(locator[c].gathers) : g # 0
    /\ locator[c].ready => locator[c].sent # 0
    /\ \A p \in Elems(up[c]) : p.type = "ask" => p.version # 0
    /\ \A t \in Clients : client[c].pending[t] # 0 => client[c].named

Waits(c, t) == [from |-> c, target |-> t] \in Elems(queues.asks) \cup Elems(pairing.asks)

\* t is about to ask for c, or to be nudged to.
WillAsk(t, c) ==
  \/ locator[t].gathers # <<>> /\ \E r \in Elems(locator[t].repunch) : r.peer = c
  \/ \E p \in Elems(down[t]) : p.type = "repunch" /\ p.peer = c
  \/ \E p \in Elems(up[t]) : p.type = "ask" /\ p.peer = c

\* What keeps c's ask for t alive.
Kept(c, t) ==
  \/ Waits(c, t)
  \/ /\ t \in registry
     /\ \/ Waits(t, c) /\ client[t].pending[c] # 0
        \/ WillAsk(t, c)
        \/ client[t].pending[c] = 0 /\ c \notin client[t].paired

AsksKept ==
  \A c, t \in Clients :
    (/\ c # t /\ client[c].alive /\ client[c].pending[t] # 0
     /\ client[t].alive \/ client[t].event = "none") => Kept(c, t)

\* Of a link's packets q, with a gathering of version got arrived: a gathering of
\* at least this version is ahead of position i.
Ahead(q, got, i, version) ==
  \/ version <= got
  \/ \E j \in DOMAIN q : j < i /\ q[j].type = "gathering" /\ version <= q[j].version

\* The gatherings of a link come in the order of their versions, up to the last one sent.
InOrder(q, got, sent) ==
  /\ got <= sent
  /\ \A i \in DOMAIN q : q[i].type = "gathering" =>
       /\ got <= q[i].version /\ q[i].version <= sent
       /\ \A j \in DOMAIN q : j < i /\ q[j].type = "gathering" => q[j].version <= q[i].version

\* What an ask relies on is ahead of it.
ReliedOn(q, got, sent) ==
  /\ Ahead(q, got, Len(q) + 1, sent)
  /\ \A i \in DOMAIN q : q[i].type = "ask" => Ahead(q, got, i, q[i].version)

\* What a client gathered reaches the broker in order, ahead of the asks that rely on it.
Ordered(c) ==
  /\ \A t \in Clients : client[c].pending[t] <= client[c].candidates
  /\ client[c].event = "none" => up[c] = <<>> /\ locator[c].sent = 0
  /\ InOrder(up[c], client[c].candidates, locator[c].sent)
  /\ client[c].alive => ReliedOn(up[c], client[c].candidates, locator[c].sent)

GatheringsOrdered == \A c \in Clients : Ordered(c)

OffersOK == \A c \in Clients : \A p \in Elems(down[c]) : p.type = "offer" => p.version >= p.asked

BrokerInv == BrokerType /\ Standing /\ Numbered /\ AsksKept /\ GatheringsOrdered /\ OffersOK

-----------------------------------------------------------------------------
\* The elements of a queue or a link that carries nothing.
LEMMA ElemsEmpty == Elems(<<>>) = {}
BY DEF Elems

\* The elements of a queue are of the kind it holds, and an empty one has none.
LEMMA ElemsIn ==
  ASSUME NEW S, NEW s \in Seq(S)
  PROVE  Elems(s) \subseteq S /\ (s = <<>> <=> Elems(s) = {})
BY DEF Elems

\* A gather that begins is the last of those under way (BeginRepunch).
LEMMA ElemsAppend ==
  ASSUME NEW S, NEW s \in Seq(S), NEW x \in S
  PROVE  Append(s, x) \in Seq(S) /\ Elems(Append(s, x)) = Elems(s) \cup {x}
<1>1. Append(s, x) \in Seq(S) /\ DOMAIN Append(s, x) = 1..(Len(s) + 1) /\ DOMAIN s = 1..Len(s)
  OBVIOUS
<1>2. \A i \in 1..(Len(s) + 1) : Append(s, x)[i] = IF i = Len(s) + 1 THEN x ELSE s[i]
  OBVIOUS
<1>3. Len(s) + 1 \in 1..(Len(s) + 1) /\ 1..Len(s) = (1..(Len(s) + 1)) \ {Len(s) + 1}
  OBVIOUS
<1> QED BY <1>1, <1>2, <1>3 DEF Elems

\* A link carries what it carried and what is sent on it (SendPacket).
LEMMA ElemsConcat ==
  ASSUME NEW S, NEW s \in Seq(S), NEW t \in Seq(S)
  PROVE  s \o t \in Seq(S) /\ Elems(s \o t) = Elems(s) \cup Elems(t)
<1>1. s \o t \in Seq(S) /\ DOMAIN (s \o t) = 1..(Len(s) + Len(t)) /\ DOMAIN s = 1..Len(s)
      /\ DOMAIN t = 1..Len(t) /\ Len(s) \in Nat /\ Len(t) \in Nat
  OBVIOUS
<1>2. \A i \in 1..(Len(s) + Len(t)) : (s \o t)[i] = IF i <= Len(s) THEN s[i] ELSE t[i - Len(s)]
  OBVIOUS
<1>3. \A i \in 1..(Len(s) + Len(t)) : (s \o t)[i] \in Elems(s) \cup Elems(t)
  BY <1>1, <1>2 DEF Elems
<1>4. \A i \in 1..Len(s) : i \in 1..(Len(s) + Len(t)) /\ (s \o t)[i] = s[i]
  BY <1>1, <1>2
<1>5. \A i \in 1..Len(t) : i + Len(s) \in 1..(Len(s) + Len(t)) /\ (s \o t)[i + Len(s)] = t[i]
  BY <1>1, <1>2
<1>6. Elems(s \o t) \subseteq Elems(s) \cup Elems(t)
  BY <1>1, <1>3 DEF Elems
<1>7. Elems(s) \subseteq Elems(s \o t)
  BY <1>1, <1>4 DEF Elems
<1>8. Elems(t) \subseteq Elems(s \o t)
  <2>1. SUFFICES ASSUME NEW i \in 1..Len(t) PROVE t[i] \in Elems(s \o t)
    BY <1>1 DEF Elems
  <2> QED BY Zenon, <1>1, <1>5 DEF Elems
<1> QED BY <1>1, <1>6, <1>7, <1>8

\* The broker's queues are filled at the front (OnConnectEvent, OnPacket).
LEMMA ElemsPrepend ==
  ASSUME NEW S, NEW s \in Seq(S), NEW x \in S
  PROVE  <<x>> \o s \in Seq(S) /\ Elems(<<x>> \o s) = {x} \cup Elems(s)
<1>1. <<x>> \in Seq(S) /\ Elems(<<x>>) = {x}
  BY DEF Elems
<1>2. \A t \in Seq(S) : t \o s \in Seq(S) /\ Elems(t \o s) = Elems(t) \cup Elems(s)
  BY ElemsConcat
<1> QED BY Zenon, <1>1, <1>2

\* Taking the head leaves the rest (PairingLoop, and a link's reader).
LEMMA ElemsTail ==
  ASSUME NEW S, NEW s \in Seq(S), s # <<>>
  PROVE  /\ Head(s) \in S /\ Tail(s) \in Seq(S)
         /\ Elems(s) = {Head(s)} \cup Elems(Tail(s))
<1>1. Head(s) \in S /\ Tail(s) \in Seq(S) /\ Len(s) \in Nat /\ Len(s) >= 1 /\ DOMAIN s = 1..Len(s)
      /\ DOMAIN Tail(s) = 1..(Len(s) - 1) /\ Head(s) = s[1]
  OBVIOUS
<1>2. \A i \in 1..(Len(s) - 1) : Tail(s)[i] = s[i + 1] /\ i + 1 \in 1..Len(s)
  BY <1>1
<1>3. \A i \in 1..Len(s) : i = 1 \/ (i - 1 \in 1..(Len(s) - 1) /\ Tail(s)[i - 1] = s[i])
  BY <1>1, <1>2
<1>4. 1 \in 1..Len(s)
  BY <1>1
<1>5. Elems(s) \subseteq {Head(s)} \cup Elems(Tail(s))
  <2>1. SUFFICES ASSUME NEW i \in 1..Len(s) PROVE s[i] \in {Head(s)} \cup Elems(Tail(s))
    BY Zenon, <1>1 DEF Elems
  <2>2. CASE i = 1
    BY Zenon, <1>1, <2>2
  <2>3. CASE i # 1
    <3>1. i - 1 \in 1..(Len(s) - 1) /\ Tail(s)[i - 1] = s[i]
      BY Zenon, <1>3, <2>3
    <3> QED BY Zenon, <1>1, <3>1 DEF Elems
  <2> QED BY <2>2, <2>3
<1>6. Elems(Tail(s)) \subseteq Elems(s)
  <2>1. SUFFICES ASSUME NEW i \in 1..(Len(s) - 1) PROVE Tail(s)[i] \in Elems(s)
    BY <1>1 DEF Elems
  <2> QED BY <1>1, <1>2 DEF Elems
<1>7. Head(s) \in Elems(s)
  BY <1>1, <1>4 DEF Elems
<1> QED BY <1>1, <1>5, <1>6, <1>7

\* SendPacket adds packets to one link, and only while its session is up.
LEMMA SendsElems ==
  ASSUME BrokerType, NEW link \in [Clients -> Seq(Packets)], NEW c \in Clients,
         NEW packets \in Seq(Packets)
  PROVE  /\ Sends(link, c, packets) \in [Clients -> Seq(Packets)]
         /\ \A u \in Clients :
              /\ u = c /\ client[c].alive => Sends(link, c, packets)[u] = link[u] \o packets
              /\ u # c \/ ~client[c].alive => Sends(link, c, packets)[u] = link[u]
              /\ Elems(Sends(link, c, packets)[u]) =
                   IF u = c /\ client[c].alive THEN Elems(link[u]) \cup Elems(packets)
                   ELSE Elems(link[u])
<1>1. link[c] \o packets \in Seq(Packets) /\ Elems(link[c] \o packets) = Elems(link[c]) \cup Elems(packets)
  BY ElemsConcat
<1> QED BY Zenon, <1>1 DEF Sends

-----------------------------------------------------------------------------
\* Nobody is connected at first, and nothing is asked.
LEMMA BrokerStarts == BrokerInit => BrokerInv
<1> SUFFICES ASSUME BrokerInit PROVE BrokerInv
  OBVIOUS
<1>1. BrokerType
  <2>1. \A c \in Clients : client[c] \in ClientData /\ locator[c] \in Locator
    BY DEF BrokerInit, ClientData, Locator
  <2>2. \A c \in Clients : locator[c].connected = {}
    BY DEF BrokerInit
  <2>3. queues \in Queues /\ pairing \in Queues
    BY DEF BrokerInit, Empty, Queues
  <2>4. client \in [Clients -> ClientData] /\ locator \in [Clients -> Locator]
    BY Zenon, <2>1 DEF BrokerInit
  <2>5. registry = {} /\ up \in [Clients -> Seq(Packets)] /\ down \in [Clients -> Seq(Packets)]
    BY DEF BrokerInit
  <2>6. \A c \in Clients : IsFiniteSet(locator[c].connected)
    BY <2>2, FS_EmptySet
  <2> QED BY Zenon, <2>3, <2>4, <2>5, <2>6 DEF BrokerType
<1>2. \A c \in Clients : up[c] = <<>> /\ down[c] = <<>> /\ Elems(up[c]) = {} /\ Elems(down[c]) = {}
                         /\ locator[c].gathers = <<>>
  BY ElemsEmpty DEF BrokerInit
<1>3. \A c \in Clients : /\ ~client[c].alive /\ client[c].event = "none" /\ ~client[c].named
                         /\ client[c].candidates = 0 /\ \A t \in Clients : client[c].pending[t] = 0
                         /\ locator[c].address = 1 /\ ~locator[c].ready /\ locator[c].sent = 0
  BY DEF BrokerInit
<1>4. Elems(queues.welcome) = {} /\ Elems(pairing.welcome) = {} /\ Elems(queues.clear) = {}
      /\ Elems(pairing.clear) = {} /\ registry = {}
  BY ElemsEmpty DEF BrokerInit, Empty
<1>5. Standing
  BY <1>3, <1>4 DEF Standing
<1>6. Numbered
  BY <1>2, <1>3, ElemsEmpty DEF Numbered
<1>7. AsksKept
  BY <1>3 DEF AsksKept
<1>8. GatheringsOrdered
  BY <1>2, <1>3 DEF GatheringsOrdered, Ordered, InOrder
<1>9. OffersOK
  BY <1>2 DEF OffersOK
<1> QED BY <1>1, <1>5, <1>6, <1>7, <1>8, <1>9 DEF BrokerInv

\* A step that takes away none of what keeps an ask keeps it.
LEMMA AsksStay ==
  ASSUME BrokerType, AsksKept,
         \A c \in Clients : /\ client'[c].pending = client[c].pending
                            /\ client'[c].paired = client[c].paired,
         \A c, t \in Clients : client'[c].alive /\ client[c].pending[t] # 0 => client[c].alive,
         \A c \in Clients : client'[c].alive \/ client'[c].event = "none" =>
                               /\ client[c].alive \/ client[c].event = "none"
                               /\ c \in registry => c \in registry',
         \A c, t \in Clients : Waits(c, t) => Waits(c, t)',
         \A t, c \in Clients : (/\ client'[t].alive \/ client'[t].event = "none"
                                /\ t \in registry /\ WillAsk(t, c)) => WillAsk(t, c)'
  PROVE  AsksKept'
<1> SUFFICES ASSUME NEW c \in Clients, NEW t \in Clients, c # t, client'[c].alive,
                    client'[c].pending[t] # 0, client'[t].alive \/ client'[t].event = "none"
             PROVE  Kept(c, t)'
  BY DEF AsksKept
<1>1. client[c].alive /\ client[c].pending[t] # 0 /\ (client[t].alive \/ client[t].event = "none")
  OBVIOUS
<1>2. Kept(c, t)
  BY <1>1 DEF AsksKept
<1> QED BY <1>2 DEF Kept

\* A step that leaves the links to the broker, and what it knows from them, alone.
LEMMA GatheringsStay ==
  ASSUME GatheringsOrdered, up' = up,
         \A c \in Clients : /\ client'[c].pending = client[c].pending
                            /\ client'[c].candidates = client[c].candidates
                            /\ locator'[c].sent = locator[c].sent
                            /\ client'[c].alive => client[c].alive
                            /\ client'[c].event = "none" => client[c].event = "none"
  PROVE  GatheringsOrdered'
<1> SUFFICES ASSUME NEW c \in Clients
             PROVE  Ordered(c)'
  BY DEF GatheringsOrdered
<1>1. Ordered(c)
  BY DEF GatheringsOrdered
<1> QED BY <1>1 DEF Ordered

\* The same of the connections: nothing a step sent, named or numbered changed.
LEMMA NumbersStay ==
  ASSUME Numbered, up' = up, locator' = locator,
         \A c \in Clients : /\ client'[c].pending = client[c].pending
                            /\ client[c].named => client'[c].named
  PROVE  Numbered'
BY DEF Numbered

\* Those who wait in a queue are clients.
LEMMA QueuesIn ==
  ASSUME BrokerType
  PROVE  /\ Elems(queues.welcome) \cup Elems(pairing.welcome) \subseteq Clients
         /\ Elems(queues.clear) \cup Elems(pairing.clear) \subseteq Clients
<1>1. queues.welcome \in Seq(Clients) /\ pairing.welcome \in Seq(Clients)
      /\ queues.clear \in Seq(Clients) /\ pairing.clear \in Seq(Clients)
  BY DEF BrokerType, Queues
<1> QED BY <1>1, ElemsIn

-----------------------------------------------------------------------------

\* One client's data is replaced.
LEMMA Changed ==
  ASSUME BrokerType, NEW c \in Clients, NEW d \in ClientData, client' = [client EXCEPT ![c] = d]
  PROVE  /\ client' \in [Clients -> ClientData]
         /\ client'[c] = d /\ \A u \in Clients : u # c => client'[u] = client[u]
BY DEF BrokerType

\* The link is lost, or the window of requests passes: nothing but the client's
\* standing changes.
LEMMA QuietKeeps ==
  ASSUME BrokerInv, NEW c \in Clients, Leave(c) \/ WindowPasses(c)
  PROVE  BrokerInv'
<1> USE DEF BrokerInv
<1>0. PICK d \in ClientData :
        /\ client' = [client EXCEPT ![c] = d]
        /\ d.event = client[c].event /\ d.named = client[c].named
        /\ d.pending = client[c].pending /\ d.paired = client[c].paired
        /\ d.candidates = client[c].candidates /\ (d.alive => client[c].alive)
  <2>1. client[c] \in ClientData /\ client \in [Clients -> ClientData]
    BY DEF BrokerType
  <2>2. CASE Leave(c)
    <3>1. client' = [client EXCEPT ![c] = [client[c] EXCEPT !.alive = FALSE]]
      BY <2>1, <2>2 DEF Leave
    <3> DEFINE e == [client[c] EXCEPT !.alive = FALSE]
    <3>2. /\ e \in ClientData /\ e.event = client[c].event /\ e.named = client[c].named
          /\ e.pending = client[c].pending /\ e.paired = client[c].paired
          /\ e.candidates = client[c].candidates /\ (e.alive => client[c].alive)
      BY Zenon, <2>1 DEF ClientData
    <3> QED BY Zenon, <3>1, <3>2
  <2>3. CASE WindowPasses(c)
    <3>1. client' = [client EXCEPT ![c] = [client[c] EXCEPT !.requests = 0]]
      BY <2>1, <2>3 DEF WindowPasses
    <3> DEFINE e == [client[c] EXCEPT !.requests = 0]
    <3>2. /\ e \in ClientData /\ e.event = client[c].event /\ e.named = client[c].named
          /\ e.pending = client[c].pending /\ e.paired = client[c].paired
          /\ e.candidates = client[c].candidates /\ (e.alive => client[c].alive)
      BY Zenon, <2>1 DEF ClientData
    <3> QED BY Zenon, <3>1, <3>2
  <2> QED BY <2>2, <2>3
<1>1. /\ client' \in [Clients -> ClientData]
      /\ client'[c] = d /\ \A u \in Clients : u # c => client'[u] = client[u]
  BY Zenon, <1>0, Changed
<1>2. queues' = queues /\ pairing' = pairing /\ registry' = registry /\ up' = up /\ down' = down
      /\ locator' = locator
  BY DEF Leave, WindowPasses
<1>3. BrokerType'
  BY Zenon, <1>1, <1>2 DEF BrokerType
<1>4. \A u \in Clients : /\ client'[u].event = client[u].event
                         /\ client'[u].named = client[u].named
                         /\ client'[u].pending = client[u].pending
                         /\ client'[u].paired = client[u].paired
                         /\ client'[u].candidates = client[u].candidates
                         /\ client'[u].alive => client[u].alive
  BY <1>0, <1>1
<1>5. Standing'
  BY <1>2, <1>4, QueuesIn DEF Standing
<1>6. Numbered'
  BY <1>2, <1>4, NumbersStay
<1>7. AsksKept'
  BY <1>2, <1>4, AsksStay DEF Waits, WillAsk
<1>8. GatheringsOrdered'
  BY Zenon, <1>2, <1>4, GatheringsStay
<1>9. OffersOK'
  BY <1>2 DEF OffersOK
<1> QED BY <1>3, <1>5, <1>6, <1>7, <1>8, <1>9

\* OnDisconnectEvent queues the name of a client that is gone to be cleared.
LEMMA DisconnectKeeps ==
  ASSUME BrokerInv, NEW c \in Clients, OnDisconnectEvent(c)
  PROVE  BrokerInv'
<1> USE DEF BrokerInv
<1>0. PICK d \in ClientData :
        /\ client' = [client EXCEPT ![c] = d]
        /\ d.event = "gone" /\ d.named = client[c].named
        /\ d.pending = client[c].pending /\ d.paired = client[c].paired
        /\ d.candidates = client[c].candidates /\ d.alive = client[c].alive
  <2>1. client[c] \in ClientData /\ client \in [Clients -> ClientData]
    BY DEF BrokerType
  <2>2. client' = [client EXCEPT ![c] = [client[c] EXCEPT !.event = "gone"]]
    BY <2>1 DEF OnDisconnectEvent
  <2> DEFINE e == [client[c] EXCEPT !.event = "gone"]
  <2>3. /\ e \in ClientData /\ e.event = "gone" /\ e.named = client[c].named
        /\ e.pending = client[c].pending /\ e.paired = client[c].paired
        /\ e.candidates = client[c].candidates /\ e.alive = client[c].alive
    BY Zenon, <2>1 DEF ClientData
  <2> QED BY Zenon, <2>2, <2>3
<1>1. /\ client' \in [Clients -> ClientData]
      /\ client'[c] = d /\ \A u \in Clients : u # c => client'[u] = client[u]
  BY Zenon, <1>0, Changed
<1>2. pairing' = pairing /\ registry' = registry /\ up' = up /\ down' = down /\ locator' = locator
  BY DEF OnDisconnectEvent
<1>3. queues' \in Queues /\ Elems(queues'.clear) \subseteq Elems(queues.clear) \cup {c}
      /\ queues'.welcome = queues.welcome /\ queues'.asks = queues.asks
  <2>1. queues.clear \in Seq(Clients)
    BY DEF BrokerType, Queues
  <2>2. <<c>> \o queues.clear \in Seq(Clients)
        /\ Elems(<<c>> \o queues.clear) = {c} \cup Elems(queues.clear)
    BY <2>1, ElemsPrepend
  <2> QED BY Zenon, <2>2 DEF OnDisconnectEvent, BrokerType, Queues
<1>4. BrokerType'
  BY <1>1, <1>2, <1>3 DEF BrokerType
<1>5. /\ \A u \in Clients : /\ client'[u].named = client[u].named
                            /\ client'[u].pending = client[u].pending
                            /\ client'[u].paired = client[u].paired
                            /\ client'[u].candidates = client[u].candidates
                            /\ client'[u].alive = client[u].alive
                            /\ u # c => client'[u].event = client[u].event
      /\ client'[c].event = "gone" /\ ~client[c].alive /\ client[c].event = "connected"
  BY Zenon, <1>0, <1>1 DEF OnDisconnectEvent
<1>6. Standing'
  BY <1>2, <1>3, <1>5, QueuesIn DEF Standing
<1>7. Numbered'
  BY Zenon, <1>2, <1>5, NumbersStay
<1>8. AsksKept'
  BY Zenon, <1>2, <1>3, <1>5, AsksStay DEF Waits, WillAsk
<1>9. GatheringsOrdered'
  BY Zenon, <1>2, <1>5, GatheringsStay
<1>10. OffersOK'
  BY Zenon, <1>2 DEF OffersOK
<1> QED BY <1>4, <1>6, <1>7, <1>8, <1>9, <1>10

\* OnConnectEvent queues a client that has asked nothing to be welcomed.
LEMMA ConnectKeeps ==
  ASSUME BrokerInv, NEW c \in Clients, OnConnectEvent(c)
  PROVE  BrokerInv'
<1> USE DEF BrokerInv
<1>0. PICK d \in ClientData :
        /\ client' = [client EXCEPT ![c] = d]
        /\ d.event = "connected" /\ d.named = client[c].named
        /\ d.pending = client[c].pending /\ d.paired = client[c].paired
        /\ d.candidates = client[c].candidates /\ d.alive
  <2>1. client[c] \in ClientData /\ client \in [Clients -> ClientData]
    BY DEF BrokerType
  <2>2. client' = [client EXCEPT ![c] = [client[c] EXCEPT !.alive = TRUE, !.event = "connected"]]
    BY Zenon, <2>1 DEF OnConnectEvent
  <2> DEFINE e == [client[c] EXCEPT !.alive = TRUE, !.event = "connected"]
  <2>3. /\ e \in ClientData /\ e.event = "connected" /\ e.named = client[c].named
        /\ e.pending = client[c].pending /\ e.paired = client[c].paired
        /\ e.candidates = client[c].candidates /\ e.alive
    BY Zenon, <2>1 DEF ClientData
  <2> QED BY Zenon, <2>2, <2>3
<1>1. /\ client' \in [Clients -> ClientData]
      /\ client'[c] = d /\ \A u \in Clients : u # c => client'[u] = client[u]
  BY Zenon, <1>0, Changed
<1>2. pairing' = pairing /\ registry' = registry /\ up' = up /\ down' = down /\ locator' = locator
  BY DEF OnConnectEvent
<1>3. queues' \in Queues /\ Elems(queues'.welcome) = Elems(queues.welcome) \cup {c}
      /\ queues'.clear = queues.clear /\ queues'.asks = queues.asks
  <2>1. queues.welcome \in Seq(Clients)
    BY DEF BrokerType, Queues
  <2>2. <<c>> \o queues.welcome \in Seq(Clients)
        /\ Elems(<<c>> \o queues.welcome) = {c} \cup Elems(queues.welcome)
    BY <2>1, ElemsPrepend
  <2> QED BY Zenon, <2>2 DEF OnConnectEvent, BrokerType, Queues
<1>4. BrokerType'
  BY Zenon, <1>1, <1>2, <1>3 DEF BrokerType
<1>5. /\ \A u \in Clients : /\ client'[u].named = client[u].named
                            /\ client'[u].pending = client[u].pending
                            /\ client'[u].paired = client[u].paired
                            /\ client'[u].candidates = client[u].candidates
                            /\ u # c => client'[u].event = client[u].event
                                        /\ client'[u].alive = client[u].alive
      /\ client'[c].event = "connected" /\ client[c].event = "none" /\ client'[c].alive
  BY Zenon, <1>0, <1>1 DEF OnConnectEvent
<1>6. ~client[c].named /\ c \notin registry /\ \A t \in Clients : client[c].pending[t] = 0
  BY <1>5 DEF Standing, Numbered
<1>7. Standing'
  BY <1>2, <1>3, <1>5, <1>6, QueuesIn DEF Standing
<1>8. Numbered'
  BY Zenon, <1>2, <1>5, NumbersStay
<1>9. AsksKept'
  BY <1>2, <1>3, <1>5, <1>6, AsksStay DEF Waits, WillAsk
<1>10. GatheringsOrdered'
  <2> SUFFICES ASSUME NEW u \in Clients PROVE Ordered(u)'
    BY DEF GatheringsOrdered
  <2>1. Ordered(u)
    BY DEF GatheringsOrdered
  <2>3. CASE u # c
    BY Zenon, <1>2, <1>5, <2>1, <2>3 DEF Ordered
  <2>4. CASE u = c
    <3>1. up[c] = <<>> /\ locator[c].sent = 0 /\ up'[c] = <<>> /\ locator'[c].sent = 0
      BY Zenon, <1>2, <1>5, <2>1, <2>4 DEF Ordered
    <3>2. client'[c].candidates = client[c].candidates /\ client[c].candidates \in Nat
      BY <1>5 DEF BrokerType, ClientData
    <3>3. ReliedOn(<<>>, client[c].candidates, 0)
      BY <3>2 DEF ReliedOn, Ahead
    <3> QED BY <1>2, <1>5, <2>1, <2>4, <3>1, <3>2, <3>3 DEF Ordered
  <2> QED BY <2>3, <2>4
<1>11. OffersOK'
  BY <1>2 DEF OffersOK
<1> QED BY <1>4, <1>7, <1>8, <1>9, <1>10, <1>11

-----------------------------------------------------------------------------
\* What BeginRepunch adds to a peer's plans.
LEMMA BeginsRepunch ==
  ASSUME BrokerType, NEW c \in Clients, NEW targets \in Seq(Clients), NEW address \in Nat,
         BeginRepunch(c, targets, address)
  PROVE  /\ locator' \in [Clients -> Locator]
         /\ \A u \in Clients : u # c => locator'[u] = locator[u]
         /\ locator'[c].sent = locator[c].sent /\ locator'[c].ready = locator[c].ready
         /\ locator'[c].connected = locator[c].connected /\ locator'[c].address = address
         /\ locator'[c].gathers # <<>>
         /\ Elems(locator'[c].gathers) = Elems(locator[c].gathers) \cup {address}
         /\ Elems(locator[c].repunch) \subseteq Elems(locator'[c].repunch)
         /\ \A i \in DOMAIN targets : \E r \in Elems(locator'[c].repunch) : r.peer = targets[i]
<1> DEFINE more == [i \in DOMAIN targets |-> [peer |-> targets[i], since |-> address]]
           l == locator[c]
           e == [l EXCEPT !.address = address, !.gathers = Append(l.gathers, address),
                          !.repunch = l.repunch \o more]
<1>1. l \in Locator /\ locator \in [Clients -> Locator]
  BY DEF BrokerType
<1>2. l.gathers \in Seq(Nat) /\ l.repunch \in Seq([peer : Clients, since : Nat])
  BY <1>1 DEF Locator
<1>3. more \in Seq([peer : Clients, since : Nat]) /\ DOMAIN more = DOMAIN targets
  <2>1. DOMAIN targets = 1..Len(targets) /\ Len(targets) \in Nat
    OBVIOUS
  <2>2. \A i \in 1..Len(targets) : more[i] \in [peer : Clients, since : Nat]
    BY <2>1
  <2> QED BY <2>1, <2>2, SeqDef
<1>4. Append(l.gathers, address) \in Seq(Nat)
      /\ Elems(Append(l.gathers, address)) = Elems(l.gathers) \cup {address}
      /\ Append(l.gathers, address) # <<>>
  <2>1. /\ Append(l.gathers, address) \in Seq(Nat)
        /\ Elems(Append(l.gathers, address)) = Elems(l.gathers) \cup {address}
    BY <1>2, ElemsAppend
  <2> QED BY Zenon, <2>1, ElemsEmpty
<1>5. l.repunch \o more \in Seq([peer : Clients, since : Nat])
      /\ Elems(l.repunch \o more) = Elems(l.repunch) \cup Elems(more)
  BY <1>2, <1>3, ElemsConcat
<1>6. \A i \in DOMAIN targets : more[i] \in Elems(more) /\ more[i].peer = targets[i]
  BY <1>3 DEF Elems
<1>7. locator' = [locator EXCEPT ![c] = e]
  BY Zenon, <1>1 DEF BeginRepunch, Locator
<1>8. /\ e \in Locator /\ e.sent = l.sent /\ e.ready = l.ready /\ e.connected = l.connected
      /\ e.address = address /\ e.gathers = Append(l.gathers, address)
      /\ e.repunch = l.repunch \o more
  <2> HIDE DEF more
  <2> QED BY Zenon, <1>1, <1>4, <1>5 DEF Locator
<1>9. locator' \in [Clients -> Locator] /\ locator'[c] = e /\ \A u \in Clients : u # c => locator'[u] = locator[u]
  <2> HIDE DEF e
  <2> QED BY Zenon, <1>1, <1>7, <1>8
<1> HIDE DEF e, more
<1> QED BY Zenon, <1>4, <1>5, <1>6, <1>8, <1>9

\* A peer takes a packet from its link; a nudge is turned into a plan to ask.
LEMMA TakenKeeps ==
  ASSUME BrokerInv, NEW c \in Clients, NEW type, TakesFromLink(c, type),
         locator' \in [Clients -> Locator],
         \A u \in Clients :
           /\ IsFiniteSet(locator'[u].connected)
           /\ locator'[u].sent = locator[u].sent /\ locator'[u].ready = locator[u].ready
           /\ locator'[u].address # 0 /\ \A g \in Elems(locator'[u].gathers) : g # 0
           /\ locator[u].gathers # <<>> => locator'[u].gathers # <<>>
           /\ Elems(locator[u].repunch) \subseteq Elems(locator'[u].repunch),
         type = "repunch" => /\ locator'[c].gathers # <<>>
                             /\ \E r \in Elems(locator'[c].repunch) : r.peer = Head(down[c]).peer
  PROVE  BrokerInv'
<1> USE DEF BrokerInv
<1>1. client' = client /\ queues' = queues /\ pairing' = pairing /\ registry' = registry /\ up' = up
  BY DEF TakesFromLink
<1>2. down[c] \in Seq(Packets) /\ down[c] # <<>> /\ Head(down[c]).type = type
      /\ down \in [Clients -> Seq(Packets)] /\ down' = [down EXCEPT ![c] = Tail(down[c])]
  BY DEF TakesFromLink, BrokerType
<1>3. Tail(down[c]) \in Seq(Packets) /\ Elems(down[c]) = {Head(down[c])} \cup Elems(Tail(down[c]))
  BY Zenon, <1>2, ElemsTail
<1>4. /\ down' \in [Clients -> Seq(Packets)] /\ down'[c] = Tail(down[c])
      /\ \A u \in Clients : u # c => down'[u] = down[u]
  BY Zenon, <1>2, <1>3
<1>5. BrokerType'
  BY Zenon, <1>1, <1>4 DEF BrokerType
<1>6. Standing'
  BY <1>1 DEF Standing
<1>7. Numbered'
  BY Zenon, <1>1 DEF Numbered
<1>8. AsksKept'
  <2>1. ASSUME NEW t \in Clients, NEW a \in Clients, WillAsk(t, a) PROVE WillAsk(t, a)'
    <3>1. CASE locator[t].gathers # <<>> /\ \E r \in Elems(locator[t].repunch) : r.peer = a
      BY Zenon, <3>1 DEF WillAsk
    <3>2. CASE \E p \in Elems(down[t]) : p.type = "repunch" /\ p.peer = a
      <4>1. PICK p \in Elems(down[t]) : p.type = "repunch" /\ p.peer = a
        BY <3>2
      <4>2. CASE p \in Elems(down'[t])
        BY <4>1, <4>2 DEF WillAsk
      <4>3. CASE p \notin Elems(down'[t])
        <5>1. t = c /\ p = Head(down[c])
          BY Zenon, <1>3, <1>4, <4>1, <4>3
        <5> QED BY <1>2, <4>1, <5>1 DEF WillAsk
      <4> QED BY <4>2, <4>3
    <3>3. CASE \E p \in Elems(up[t]) : p.type = "ask" /\ p.peer = a
      BY <1>1, <3>3 DEF WillAsk
    <3> QED BY Zenon, <2>1, <3>1, <3>2, <3>3 DEF WillAsk
  <2>2. \A a, t \in Clients : Waits(a, t) => Waits(a, t)'
    BY <1>1 DEF Waits
  <2> QED BY Zenon, <1>1, <2>1, <2>2, AsksStay
<1>9. GatheringsOrdered'
  BY <1>1, GatheringsStay
<1>10. OffersOK'
  BY Zenon, <1>3, <1>4 DEF OffersOK
<1> QED BY <1>5, <1>6, <1>7, <1>8, <1>9, <1>10

\* BeginRepunch takes back none of a peer's plans, whoever the peer is.
LEMMA RepunchPlans ==
  ASSUME BrokerType, Numbered, NEW c \in Clients, NEW targets \in Seq(Clients),
         NEW address \in Nat, address # 0, BeginRepunch(c, targets, address)
  PROVE  \A u \in Clients :
           /\ IsFiniteSet(locator'[u].connected)
           /\ locator'[u].sent = locator[u].sent /\ locator'[u].ready = locator[u].ready
           /\ locator'[u].address # 0 /\ \A g \in Elems(locator'[u].gathers) : g # 0
           /\ locator[u].gathers # <<>> => locator'[u].gathers # <<>>
           /\ Elems(locator[u].repunch) \subseteq Elems(locator'[u].repunch)
<1>1. \A u \in Clients : /\ IsFiniteSet(locator[u].connected) /\ locator[u].address # 0
                         /\ \A g \in Elems(locator[u].gathers) : g # 0
  BY DEF BrokerType, Numbered
<1>2. /\ \A u \in Clients : u # c => locator'[u] = locator[u]
      /\ locator'[c].sent = locator[c].sent /\ locator'[c].ready = locator[c].ready
      /\ locator'[c].connected = locator[c].connected /\ locator'[c].address = address
      /\ locator'[c].gathers # <<>>
      /\ Elems(locator'[c].gathers) = Elems(locator[c].gathers) \cup {address}
      /\ Elems(locator[c].repunch) \subseteq Elems(locator'[c].repunch)
  BY Zenon, BeginsRepunch
<1> QED BY <1>1, <1>2

\* The peer's handlers: OnWelcome, OnPeerNotFound, OnPunchOffer, OnRepunchRequest.
LEMMA PeerTakesKeeps ==
  ASSUME BrokerInv, NEW c \in Clients,
         OnWelcome(c) \/ OnPeerNotFound(c) \/ OnPunchOffer(c) \/ OnRepunchRequest(c)
  PROVE  BrokerInv'
<1>0. BrokerType /\ Numbered
  BY DEF BrokerInv
<1>1. /\ locator \in [Clients -> Locator] /\ locator[c] \in Locator
      /\ locator[c].address \in Nat /\ locator[c].address # 0
      /\ \A u \in Clients : /\ IsFiniteSet(locator[u].connected) /\ locator[u].address # 0
                            /\ \A g \in Elems(locator[u].gathers) : g # 0
  BY Zenon, <1>0 DEF BrokerType, Locator, Numbered
<1>2. CASE OnWelcome(c)
  <2>1. TakesFromLink(c, "welcome") /\ BeginRepunch(c, <<>>, locator[c].address) /\ <<>> \in Seq(Clients)
    BY <1>2 DEF OnWelcome
  <2>2. locator' \in [Clients -> Locator]
    BY Zenon, <1>0, <1>1, <2>1, BeginsRepunch
  <2> QED BY Zenon, <1>0, <1>1, <2>1, <2>2, RepunchPlans, TakenKeeps
<1>3. CASE OnRepunchRequest(c)
  <2>1. TakesFromLink(c, "repunch") /\ BeginRepunch(c, <<Head(down[c]).peer>>, locator[c].address)
    BY <1>3 DEF OnRepunchRequest
  <2>2. down[c] \in Seq(Packets) /\ down[c] # <<>>
    BY Zenon, <1>0, <2>1 DEF TakesFromLink, BrokerType
  <2>3. Head(down[c]) \in Packets
    BY <2>2, ElemsTail
  <2>4. Head(down[c]).peer \in Clients
    BY <2>3 DEF Packets
  <2> DEFINE targets == <<Head(down[c]).peer>>
  <2>5. targets \in Seq(Clients) /\ 1 \in DOMAIN targets /\ targets[1] = Head(down[c]).peer
    BY <2>4
  <2>6. BeginRepunch(c, targets, locator[c].address)
    BY Zenon, <2>1
  <2> HIDE DEF targets
  <2>7. /\ locator' \in [Clients -> Locator] /\ locator'[c].gathers # <<>>
        /\ \E r \in Elems(locator'[c].repunch) : r.peer = Head(down[c]).peer
    BY <1>0, <1>1, <2>5, <2>6, BeginsRepunch
  <2> QED BY Zenon, <1>0, <1>1, <2>1, <2>5, <2>6, <2>7, RepunchPlans, TakenKeeps
<1>4. CASE OnPeerNotFound(c)
  <2>1. TakesFromLink(c, "notfound") /\ locator' = locator
    BY <1>4 DEF OnPeerNotFound
  <2> QED BY <1>1, <2>1, TakenKeeps
<1>5. CASE OnPunchOffer(c)
  <2>1. TakesFromLink(c, "offer")
    BY <1>5 DEF OnPunchOffer
  <2>2. down[c] \in Seq(Packets) /\ down[c] # <<>>
    BY Zenon, <1>0, <2>1 DEF TakesFromLink, BrokerType
  <2>3. Head(down[c]) \in Packets
    BY <2>2, ElemsTail
  <2>4. Head(down[c]).peer \in Clients
    BY <2>3 DEF Packets
  <2>5. CASE locator' = locator
    BY <1>1, <2>1, <2>5, TakenKeeps
  <2>6. CASE locator' = [locator EXCEPT ![c].connected = @ \cup {Head(down[c]).peer}]
    <3> DEFINE now == locator[c].connected \cup {Head(down[c]).peer}
               e == [locator[c] EXCEPT !.connected = now]
    <3>1. now \subseteq Clients /\ IsFiniteSet(now)
      BY Zenon, <1>1, <2>4, FS_AddElement DEF Locator
    <3>2. locator' = [locator EXCEPT ![c] = e]
      BY <1>1, <2>6
    <3> HIDE DEF now
    <3>3. /\ e \in Locator /\ e.connected = now /\ e.sent = locator[c].sent /\ e.ready = locator[c].ready
          /\ e.address = locator[c].address /\ e.gathers = locator[c].gathers
          /\ e.repunch = locator[c].repunch
      BY Zenon, <1>1, <3>1 DEF Locator
    <3> HIDE DEF e
    <3>4. locator' \in [Clients -> Locator] /\ locator'[c] = e
          /\ \A u \in Clients : u # c => locator'[u] = locator[u]
      BY <1>1, <3>2, <3>3
    <3>5. \A u \in Clients :
           /\ IsFiniteSet(locator'[u].connected)
           /\ locator'[u].sent = locator[u].sent /\ locator'[u].ready = locator[u].ready
           /\ locator'[u].address # 0 /\ \A g \in Elems(locator'[u].gathers) : g # 0
           /\ locator[u].gathers # <<>> => locator'[u].gathers # <<>>
           /\ Elems(locator[u].repunch) \subseteq Elems(locator'[u].repunch)
      BY <1>1, <3>1, <3>3, <3>4
    <3> QED BY Zenon, <2>1, <3>4, <3>5, TakenKeeps
  <2> QED BY <1>5, <2>5, <2>6 DEF OnPunchOffer
<1> QED BY <1>2, <1>3, <1>4, <1>5

-----------------------------------------------------------------------------
\* SendPacket of one packet.
LEMMA SendsOne ==
  ASSUME BrokerType, NEW link \in [Clients -> Seq(Packets)], NEW c \in Clients,
         NEW packet \in Packets
  PROVE  /\ Sends(link, c, <<packet>>) \in [Clients -> Seq(Packets)]
         /\ \A u \in Clients :
              /\ Elems(link[u]) \subseteq Elems(Sends(link, c, <<packet>>)[u])
              /\ \A p \in Elems(Sends(link, c, <<packet>>)[u]) : p = packet \/ p \in Elems(link[u])
         /\ client[c].alive => packet \in Elems(Sends(link, c, <<packet>>)[c])
<1> DEFINE packets == <<packet>>
<1>1. packets \in Seq(Packets) /\ Elems(packets) = {packet}
  BY DEF Elems
<1> HIDE DEF packets
<1>2. /\ Sends(link, c, packets) \in [Clients -> Seq(Packets)]
      /\ \A u \in Clients : Elems(Sends(link, c, packets)[u]) =
                   IF u = c /\ client[c].alive THEN Elems(link[u]) \cup Elems(packets)
                   ELSE Elems(link[u])
  BY ZenonT(60), <1>1, SendsElems
<1>3. /\ Sends(link, c, packets) \in [Clients -> Seq(Packets)]
      /\ \A u \in Clients :
              /\ Elems(link[u]) \subseteq Elems(Sends(link, c, packets)[u])
              /\ \A p \in Elems(Sends(link, c, packets)[u]) : p = packet \/ p \in Elems(link[u])
      /\ client[c].alive => packet \in Elems(Sends(link, c, packets)[c])
  BY <1>1, <1>2
<1> QED BY Zenon, <1>3 DEF packets

\* PairingLoop swaps the queues out: who waited still waits.
LEMMA TakesKeep ==
  ASSUME BrokerInv, PairingTakes
  PROVE  BrokerInv'
<1> USE DEF BrokerInv
<1>1. /\ pairing = Empty /\ pairing' = queues /\ queues' = Empty
      /\ client' = client /\ registry' = registry /\ up' = up /\ down' = down /\ locator' = locator
  BY DEF PairingTakes
<1>2. BrokerType'
  BY <1>1 DEF BrokerType
<1>3. Standing'
  BY <1>1 DEF Standing
<1>4. Numbered'
  BY <1>1, NumbersStay
<1>5. \A a, t \in Clients : Waits(a, t) => Waits(a, t)'
  BY <1>1 DEF Waits
<1>6. \A a, t \in Clients : WillAsk(t, a) => WillAsk(t, a)'
  BY <1>1 DEF WillAsk
<1>7. AsksKept'
  BY Zenon, <1>1, <1>5, <1>6, AsksStay
<1>8. GatheringsOrdered'
  BY <1>1, GatheringsStay
<1>9. OffersOK'
  BY Zenon, <1>1 DEF OffersOK
<1> QED BY <1>2, <1>3, <1>4, <1>7, <1>8, <1>9

\* The pairing thread forgets a name only of a client that is gone.
LEMMA ClearsKeep ==
  ASSUME BrokerInv, PairingClears
  PROVE  BrokerInv'
<1> USE DEF BrokerInv
<1> DEFINE h == Head(pairing.clear)
<1>0. pairing \in Queues /\ pairing.clear \in Seq(Clients) /\ pairing.clear # <<>>
  BY DEF BrokerType, Queues, PairingClears
<1>1. /\ queues' = queues /\ client' = client /\ up' = up /\ down' = down /\ locator' = locator
      /\ registry' = registry \ {h} /\ pairing' = [pairing EXCEPT !.clear = Tail(pairing.clear)]
  BY <1>0 DEF PairingClears, Queues
<1>2. /\ h \in Clients /\ Tail(pairing.clear) \in Seq(Clients)
      /\ Elems(pairing.clear) = {h} \cup Elems(Tail(pairing.clear))
  BY <1>0, ElemsTail
<1> HIDE DEF h
<1>3. /\ pairing' \in Queues /\ pairing'.clear = Tail(pairing.clear)
      /\ pairing'.welcome = pairing.welcome /\ pairing'.asks = pairing.asks
  BY Zenon, <1>0, <1>1, <1>2 DEF Queues
<1>4. client[h].event = "gone" /\ ~client[h].alive
  BY <1>2 DEF Standing
<1>5. BrokerType'
  BY <1>1, <1>3 DEF BrokerType
<1>6. Standing'
  BY Zenon, <1>1, <1>2, <1>3, <1>4 DEF Standing
<1>7. Numbered'
  BY <1>1, NumbersStay
<1>8. \A a, t \in Clients : Waits(a, t) => Waits(a, t)'
  BY <1>1, <1>3 DEF Waits
<1>9. \A a, t \in Clients : WillAsk(t, a) => WillAsk(t, a)'
  BY <1>1 DEF WillAsk
<1>10. AsksKept'
  BY <1>1, <1>4, <1>8, <1>9, AsksStay
<1>11. GatheringsOrdered'
  BY <1>1, GatheringsStay
<1>12. OffersOK'
  BY Zenon, <1>1 DEF OffersOK
<1> QED BY <1>5, <1>6, <1>7, <1>10, <1>11, <1>12

\* Welcome names and registers a client.
LEMMA WelcomeKeeps ==
  ASSUME BrokerInv, Welcome
  PROVE  BrokerInv'
<1> USE DEF BrokerInv
<1> DEFINE c == Head(pairing.welcome)
           packet == Packet("welcome", c, 0, 0)
<1>0. pairing \in Queues /\ pairing.welcome \in Seq(Clients) /\ pairing.welcome # <<>>
  BY DEF BrokerType, Queues, Welcome
<1>1. /\ c \in Clients /\ Tail(pairing.welcome) \in Seq(Clients)
      /\ Elems(pairing.welcome) = {c} \cup Elems(Tail(pairing.welcome))
  BY <1>0, ElemsTail
<1>2. /\ queues' = queues /\ up' = up /\ locator' = locator
      /\ client' = [client EXCEPT ![c].named = TRUE]
      /\ registry' = registry \cup {c} /\ pairing' = [pairing EXCEPT !.welcome = Tail(pairing.welcome)]
      /\ down' = Sends(down, c, <<packet>>)
  BY <1>0 DEF Welcome, Queues
<1>3. packet \in Packets /\ packet.type = "welcome"
  BY <1>1 DEF Packet, Packets
<1> HIDE DEF c, packet
<1>4. /\ pairing' \in Queues /\ pairing'.welcome = Tail(pairing.welcome)
      /\ pairing'.clear = pairing.clear /\ pairing'.asks = pairing.asks
  BY Zenon, <1>0, <1>1, <1>2 DEF Queues
<1>5. down \in [Clients -> Seq(Packets)]
  BY DEF BrokerType
<1>6. /\ down' \in [Clients -> Seq(Packets)]
      /\ \A u \in Clients : /\ Elems(down[u]) \subseteq Elems(down'[u])
                            /\ \A p \in Elems(down'[u]) : p = packet \/ p \in Elems(down[u])
  BY Zenon, <1>1, <1>2, <1>3, <1>5, SendsOne
<1>7. /\ client' \in [Clients -> ClientData]
      /\ \A u \in Clients : /\ client'[u].alive = client[u].alive
                            /\ client'[u].event = client[u].event
                            /\ client'[u].pending = client[u].pending
                            /\ client'[u].paired = client[u].paired
                            /\ client'[u].candidates = client[u].candidates
                            /\ u # c => client'[u].named = client[u].named
      /\ client'[c].named
  <2>1. client[c] \in ClientData /\ client \in [Clients -> ClientData]
    BY <1>1 DEF BrokerType
  <2> DEFINE e == [client[c] EXCEPT !.named = TRUE]
  <2>2. client' = [client EXCEPT ![c] = e]
    BY <1>1, <1>2, <2>1
  <2>3. /\ e \in ClientData /\ e.event = client[c].event /\ e.named
        /\ e.pending = client[c].pending /\ e.paired = client[c].paired
        /\ e.candidates = client[c].candidates /\ e.alive = client[c].alive
    BY Zenon, <2>1 DEF ClientData
  <2> HIDE DEF e
  <2>4. /\ client' \in [Clients -> ClientData]
        /\ client'[c] = e /\ \A u \in Clients : u # c => client'[u] = client[u]
    BY Zenon, <1>1, <2>2, <2>3, Changed
  <2> QED BY <2>3, <2>4
<1>8. client[c].event # "none"
  BY Zenon, <1>1 DEF Standing
<1>9. BrokerType'
  BY Zenon, <1>1, <1>2, <1>4, <1>6, <1>7 DEF BrokerType
<1>10. Standing'
  BY <1>1, <1>2, <1>4, <1>7, <1>8, QueuesIn DEF Standing
<1>11. Numbered'
  BY Zenon, <1>2, <1>7, NumbersStay
<1>12. \A a, t \in Clients : Waits(a, t) => Waits(a, t)'
  BY Zenon, <1>2, <1>4 DEF Waits
<1>13. \A a, t \in Clients : WillAsk(t, a) => WillAsk(t, a)'
  BY Zenon, <1>2, <1>6 DEF WillAsk
<1>14. AsksKept'
  BY <1>2, <1>7, <1>12, <1>13, AsksStay
<1>15. GatheringsOrdered'
  BY Zenon, <1>2, <1>7, GatheringsStay
<1>16. OffersOK'
  BY <1>3, <1>6 DEF OffersOK
<1> QED BY <1>9, <1>10, <1>11, <1>14, <1>15, <1>16

\* Relocate plans to ask for every peer it is connected to again.
LEMMA RelocateKeeps ==
  ASSUME BrokerInv, NEW c \in Clients, Relocate(c)
  PROVE  BrokerInv'
<1> USE DEF BrokerInv
<1> DEFINE peers == locator[c].connected
           targets == CHOOSE f \in Bijection(1..Cardinality(peers), peers) : TRUE
           address == locator[c].address + 1
<1>1. locator \in [Clients -> Locator] /\ locator[c] \in Locator /\ IsFiniteSet(locator[c].connected)
      /\ locator[c].connected \subseteq Clients /\ address \in Nat /\ address # 0
  <2>1. locator \in [Clients -> Locator] /\ locator[c] \in Locator /\ IsFiniteSet(locator[c].connected)
    BY DEF BrokerType
  <2>2. locator[c].connected \subseteq Clients
    BY <2>1 DEF Locator
  <2>3. locator[c].address \in Nat
    BY <2>1 DEF Locator
  <2>4. address \in Nat /\ address # 0
    BY ONLY <2>3
  <2> QED BY Zenon, <2>1, <2>2, <2>4
<1>2. targets \in Seq(Clients)
  <2> DEFINE S == locator[c].connected
             n == Cardinality(S)
  <2>1. n \in Nat /\ ExistsBijection(1..n, S)
    BY <1>1, FS_CardinalityType
  <2>2. targets \in Bijection(1..n, S)
    BY Zenon, <2>1 DEF ExistsBijection
  <2>3. targets \in [1..n -> S]
    BY Zenon, <2>2 DEF Bijection, Injection
  <2> HIDE DEF targets, n
  <2> QED BY <1>1, <2>1, <2>3
<1>3. /\ client' = client /\ queues' = queues /\ pairing' = pairing /\ registry' = registry
      /\ up' = up /\ down' = down /\ BeginRepunch(c, targets, address)
  BY DEF Relocate
<1> HIDE DEF targets, address
<1>4. locator' \in [Clients -> Locator]
  BY Zenon, <1>1, <1>2, <1>3, BeginsRepunch
<1>5. \A u \in Clients :
           /\ IsFiniteSet(locator'[u].connected)
           /\ locator'[u].sent = locator[u].sent /\ locator'[u].ready = locator[u].ready
           /\ locator'[u].address # 0 /\ \A g \in Elems(locator'[u].gathers) : g # 0
           /\ locator[u].gathers # <<>> => locator'[u].gathers # <<>>
           /\ Elems(locator[u].repunch) \subseteq Elems(locator'[u].repunch)
  BY Zenon, <1>1, <1>2, <1>3, RepunchPlans
<1>6. BrokerType'
  BY <1>3, <1>4, <1>5 DEF BrokerType
<1>7. Standing'
  BY Zenon, <1>3 DEF Standing
<1>8. Numbered'
  BY Zenon, <1>3, <1>5 DEF Numbered
<1>9. \A a, t \in Clients : Waits(a, t) => Waits(a, t)'
  BY Zenon, <1>3 DEF Waits
<1>10. \A a, t \in Clients : WillAsk(t, a) => WillAsk(t, a)'
  BY Zenon, <1>3, <1>5 DEF WillAsk
<1>11. AsksKept'
  BY <1>3, <1>9, <1>10, AsksStay
<1>12. GatheringsOrdered'
  BY Zenon, <1>3, <1>5, GatheringsStay
<1>13. OffersOK'
  BY <1>3 DEF OffersOK
<1> QED BY <1>6, <1>7, <1>8, <1>11, <1>12, <1>13

-----------------------------------------------------------------------------
\* What a peer sends is numbered by what it last gathered, the gathering first
\* (OnGathered, AskPeer): it is in order and relied on behind what was sent before.
LEMMA SentInOrder ==
  ASSUME NEW q \in Seq(Packets), NEW ps \in Seq(Packets), ps # <<>>,
         NEW got \in Nat, NEW sent \in Nat, NEW v \in Nat, sent <= v,
         \A i \in DOMAIN ps : ps[i].version = v /\ (ps[i].type = "gathering" => i = 1),
         ps[1].type = "gathering" \/ v = sent,
         InOrder(q, got, sent), ReliedOn(q, got, sent)
  PROVE  InOrder(q \o ps, got, v) /\ ReliedOn(q \o ps, got, v)
<1> DEFINE n == Len(q)
           m == Len(ps)
           r == q \o ps
<1>1. n \in Nat /\ m \in Nat /\ m >= 1 /\ DOMAIN q = 1..n /\ DOMAIN ps = 1..m
  OBVIOUS
<1>2. Len(r) = n + m /\ DOMAIN r = 1..(n + m)
  BY <1>1
<1>3. \A i \in 1..n : r[i] = q[i]
  BY <1>1
<1>4. \A i \in 1..(n + m) : i <= n \/ (i - n \in 1..m /\ r[i] = ps[i - n])
  BY <1>1
<1>5. \A i \in 1..(n + m) : i > n => r[i].version = v /\ (r[i].type = "gathering" => i = n + 1)
  <2> SUFFICES ASSUME NEW i \in 1..(n + m), i > n
               PROVE  r[i].version = v /\ (r[i].type = "gathering" => i = n + 1)
    OBVIOUS
  <2>1. i - n \in DOMAIN ps /\ r[i] = ps[i - n]
    BY ONLY <1>1, <1>4, i \in 1..(n + m), i > n
  <2>2. ps[i - n].version = v /\ (ps[i - n].type = "gathering" => i - n = 1)
    BY <2>1
  <2>3. i - n = 1 => i = n + 1
    BY ONLY <1>1, i \in 1..(n + m)
  <2> QED BY Zenon, <2>1, <2>2, <2>3
<1>6. r[n + 1] = ps[1] /\ n + 1 \in 1..(n + m) /\ r[n + 1].version = v
  <2>1. n + 1 \in 1..(n + m) /\ n + 1 > n /\ (n + 1) - n = 1 /\ ~(n + 1 <= n)
    BY ONLY <1>1
  <2> HIDE DEF r
  <2>2. r[n + 1].version = v
    BY Zenon, <1>5, <2>1
  <2>3. r[n + 1] = ps[(n + 1) - n]
    BY Zenon, <1>4, <2>1
  <2> QED BY Zenon, <2>1, <2>2, <2>3
<1>7. \A i \in DOMAIN q : q[i].version \in Nat
  <2>1. \A i \in DOMAIN q : q[i] \in Packets
    OBVIOUS
  <2> QED BY <2>1 DEF Packets
<1> HIDE DEF n, m, r
<1>8. \A i \in 1..n, w \in Nat : Ahead(q, got, i, w) => Ahead(r, got, i, w)
  BY <1>1, <1>2, <1>3 DEF Ahead
<1>9. ASSUME NEW i \in (n + 1)..(n + m + 1), v = sent \/ (ps[1].type = "gathering" /\ i # n + 1)
      PROVE  Ahead(r, got, i, v)
  <2>1. CASE v = sent
    <3>1. Ahead(q, got, n + 1, v)
      BY <2>1 DEF ReliedOn, n
    <3> QED BY <1>1, <1>2, <1>3, <3>1 DEF Ahead
  <2>2. CASE ps[1].type = "gathering" /\ i # n + 1
    <3>1. n + 1 < i /\ n + 1 \in DOMAIN r /\ r[n + 1].type = "gathering" /\ v <= r[n + 1].version
      BY <1>1, <1>2, <1>6, <2>2
    <3> QED BY Zenon, <3>1 DEF Ahead
  <2> QED BY Zenon, <1>9, <2>1, <2>2
<1>10. got <= v
  BY DEF InOrder
<1>11. ASSUME NEW i \in DOMAIN r, r[i].type = "gathering"
       PROVE  /\ got <= r[i].version /\ r[i].version <= v
              /\ \A j \in DOMAIN r : j < i /\ r[j].type = "gathering" => r[j].version <= r[i].version
  <2>1. \A j \in 1..n : q[j].type = "gathering" => q[j].version <= v
    BY <1>1, <1>7 DEF InOrder
  <2>2. CASE i <= n
    <3>1. i \in 1..n /\ r[i] = q[i]
      BY <1>1, <1>2, <1>3, <2>2
    <3>2. /\ got <= q[i].version
          /\ \A j \in 1..n : j < i /\ q[j].type = "gathering" => q[j].version <= q[i].version
      BY Zenon, <1>1, <1>11, <3>1 DEF InOrder
    <3>3. \A j \in DOMAIN r : j < i => j \in 1..n /\ r[j] = q[j]
      BY <1>1, <1>2, <1>3, <3>1
    <3> QED BY <1>11, <2>1, <3>1, <3>2, <3>3
  <2>3. CASE i > n
    <3>1. i = n + 1 /\ r[i].version = v
      BY Zenon, <1>2, <1>5, <1>11, <2>3
    <3>2. \A j \in DOMAIN r : j < i => j \in 1..n /\ r[j] = q[j]
      BY <1>1, <1>2, <1>3, <3>1
    <3> QED BY <1>10, <2>1, <3>1, <3>2
  <2> QED BY <1>1, <1>2, <2>2, <2>3
<1>12. InOrder(r, got, v)
  BY Zenon, <1>10, <1>11 DEF InOrder
<1>13. Ahead(r, got, Len(r) + 1, v)
  <2>1. n + m + 1 \in (n + 1)..(n + m + 1) /\ n + m + 1 # n + 1
    BY <1>1
  <2> QED BY Zenon, <1>2, <1>9, <2>1
<1>14. ASSUME NEW i \in DOMAIN r, r[i].type = "ask"
       PROVE  Ahead(r, got, i, r[i].version)
  <2>1. CASE i <= n
    <3>1. i \in 1..n /\ r[i] = q[i] /\ q[i].version \in Nat
      BY <1>1, <1>2, <1>3, <1>7, <2>1
    <3>2. Ahead(q, got, i, q[i].version)
      BY Zenon, <1>1, <1>14, <3>1 DEF ReliedOn
    <3> QED BY Zenon, <1>8, <3>1, <3>2
  <2>2. CASE i > n
    <3>1. i \in (n + 1)..(n + m + 1) /\ r[i].version = v
      BY <1>1, <1>2, <1>5, <2>2
    <3>2. i # n + 1 \/ ps[1].type # "gathering"
      BY Zenon, <1>6, <1>14
    <3> QED BY Zenon, <1>9, <3>1, <3>2
  <2> QED BY <1>1, <1>2, <2>1, <2>2
<1> QED BY Zenon, <1>12, <1>13, <1>14 DEF ReliedOn, r

\* The broker takes a packet (OnPacket): what is left is in order and relied on.
LEMMA TakenInOrder ==
  ASSUME NEW q \in Seq(Packets), q # <<>>, NEW got \in Nat, NEW sent \in Nat, NEW now \in Nat,
         now = got \/ (Head(q).type = "gathering" /\ now = Head(q).version),
         InOrder(q, got, sent)
  PROVE  /\ got <= now /\ InOrder(Tail(q), now, sent)
         /\ (Head(q).type = "gathering" => now = Head(q).version) /\ ReliedOn(q, got, sent)
              => ReliedOn(Tail(q), now, sent)
<1> DEFINE n == Len(q)
           r == Tail(q)
<1>1. /\ n \in Nat /\ n >= 1 /\ DOMAIN q = 1..n /\ DOMAIN r = 1..(n - 1) /\ Len(r) = n - 1
      /\ Head(q) = q[1]
  OBVIOUS
<1>2. \A i \in 1..(n - 1) : r[i] = q[i + 1] /\ i + 1 \in 1..n
  BY <1>1
<1>3. \A i \in 1..n : q[i].version \in Nat
  <2>1. \A i \in 1..n : q[i] \in Packets
    BY <1>1
  <2> QED BY <2>1 DEF Packets
<1> HIDE DEF n, r
<1>4. got <= now /\ now <= sent
  BY <1>1 DEF InOrder
<1>5. ASSUME NEW i \in DOMAIN r, r[i].type = "gathering"
      PROVE  /\ now <= r[i].version /\ r[i].version <= sent
             /\ \A j \in DOMAIN r : j < i /\ r[j].type = "gathering" => r[j].version <= r[i].version
  <2>1. i + 1 \in DOMAIN q /\ q[i + 1] = r[i] /\ 1 < i + 1 /\ 1 \in DOMAIN q
    BY <1>1, <1>2
  <2>2. /\ got <= q[i + 1].version /\ q[i + 1].version <= sent
        /\ \A j \in DOMAIN q : j < i + 1 /\ q[j].type = "gathering" => q[j].version <= q[i + 1].version
    BY <1>5, <2>1 DEF InOrder
  <2>3. \A j \in DOMAIN r : j < i => j + 1 \in DOMAIN q /\ j + 1 < i + 1 /\ r[j] = q[j + 1]
    BY <1>1, <1>2
  <2> QED BY <1>1, <2>1, <2>2, <2>3
<1>6. InOrder(r, now, sent)
  BY Zenon, <1>4, <1>5 DEF InOrder
<1>7. ASSUME Head(q).type = "gathering" => now = Head(q).version,
             NEW i \in 1..n, NEW w \in Nat, Ahead(q, got, i + 1, w)
      PROVE  Ahead(r, now, i, w)
  <2>1. CASE w <= got
    BY <1>4, <2>1 DEF Ahead
  <2>2. CASE \E j \in DOMAIN q : j < i + 1 /\ q[j].type = "gathering" /\ w <= q[j].version
    <3>1. PICK j \in DOMAIN q : j < i + 1 /\ q[j].type = "gathering" /\ w <= q[j].version
      BY Zenon, <2>2
    <3>2. CASE j = 1
      BY <1>1, <1>7, <3>1, <3>2 DEF Ahead
    <3>3. CASE j # 1
      <4>1. j - 1 \in DOMAIN r /\ j - 1 < i /\ r[j - 1] = q[j]
        BY <1>1, <1>2, <3>1, <3>3
      <4> QED BY Zenon, <3>1, <4>1 DEF Ahead
    <3> QED BY Zenon, <3>2, <3>3
  <2> QED BY Zenon, <1>7, <2>1, <2>2 DEF Ahead
<1>8. ASSUME Head(q).type = "gathering" => now = Head(q).version, ReliedOn(q, got, sent)
      PROVE  ReliedOn(r, now, sent)
  <2>1. Ahead(r, now, Len(r) + 1, sent)
    <3>1. Ahead(q, got, n + 1, sent) /\ Len(r) + 1 = n /\ n \in 1..n
      BY <1>1, <1>8 DEF ReliedOn, n
    <3> QED BY Zenon, <1>7, <1>8, <3>1
  <2>2. ASSUME NEW i \in DOMAIN r, r[i].type = "ask"
        PROVE  Ahead(r, now, i, r[i].version)
    <3>1. i + 1 \in DOMAIN q /\ q[i + 1] = r[i] /\ i \in 1..n /\ r[i].version \in Nat
      BY <1>1, <1>2, <1>3
    <3>2. Ahead(q, got, i + 1, r[i].version)
      BY Zenon, <1>8, <2>2, <3>1 DEF ReliedOn
    <3> QED BY <1>7, <1>8, <3>1, <3>2
  <2> QED BY Zenon, <2>1, <2>2 DEF ReliedOn
<1> QED BY Zenon, <1>4, <1>6, <1>8 DEF r

\* A peer sends what it gathered and the asks that waited for it, or one ask of
\* the application: the lemma both steps use.
LEMMA SendKeeps ==
  ASSUME BrokerInv, NEW c \in Clients, client[c].alive,
         client' = client, queues' = queues, pairing' = pairing, registry' = registry, down' = down,
         NEW ps \in Seq(Packets), ps # <<>>, up' = Sends(up, c, ps),
         locator' \in [Clients -> Locator],
         \A u \in Clients : /\ IsFiniteSet(locator'[u].connected) /\ locator'[u].address # 0
                            /\ \A g \in Elems(locator'[u].gathers) : g # 0
                            /\ u # c => locator'[u] = locator[u],
         locator[c].sent <= locator'[c].sent, locator'[c].sent # 0,
         \A i \in DOMAIN ps : /\ ps[i].version = locator'[c].sent
                              /\ ps[i].type = "gathering" => i = 1,
         ps[1].type = "gathering" \/ locator'[c].sent = locator[c].sent,
         \/ locator'[c].gathers = locator[c].gathers /\ locator'[c].repunch = locator[c].repunch
         \/ \A r \in Elems(locator[c].repunch) :
               \E p \in Elems(ps) : p.type = "ask" /\ p.peer = r.peer
  PROVE  BrokerInv'
<1> USE DEF BrokerInv
<1>1. up \in [Clients -> Seq(Packets)] /\ up[c] \in Seq(Packets)
  BY Zenon DEF BrokerType
<1>2. up' \in [Clients -> Seq(Packets)]
      /\ \A u \in Clients : /\ u # c => up'[u] = up[u]
                            /\ Elems(up'[u]) = IF u = c THEN Elems(up[u]) \cup Elems(ps) ELSE Elems(up[u])
  <2> DEFINE sent == Sends(up, c, ps)
  <2>0. BrokerType
    OBVIOUS
  <2>1. /\ sent \in [Clients -> Seq(Packets)]
        /\ \A u \in Clients :
              /\ u # c \/ ~client[c].alive => sent[u] = up[u]
              /\ Elems(sent[u]) = IF u = c /\ client[c].alive THEN Elems(up[u]) \cup Elems(ps)
                                 ELSE Elems(up[u])
    BY ONLY Zenon, <1>1, <2>0, c \in Clients, ps \in Seq(Packets), SendsElems
  <2> HIDE DEF sent
  <2>2. up' = sent
    BY DEF sent
  <2> QED BY Zenon, <2>1, <2>2
<1>3. up'[c] = up[c] \o ps
  BY Zenon, <1>1, SendsElems
<1>4. BrokerType'
  BY <1>2 DEF BrokerType
<1>5. Standing'
  BY Zenon DEF Standing
<1>6. Numbered'
  <2>1. \A p \in Elems(ps) : p.version # 0
    BY DEF Elems
  <2> QED BY <1>2, <2>1 DEF Numbered
<1>7. \A a, t \in Clients : Waits(a, t) => Waits(a, t)'
  BY Zenon DEF Waits
<1>8. ASSUME NEW t \in Clients, NEW a \in Clients, WillAsk(t, a)
      PROVE  WillAsk(t, a)'
  <2>1. CASE \E p \in Elems(down[t]) : p.type = "repunch" /\ p.peer = a
    BY Zenon, <2>1 DEF WillAsk
  <2>2. CASE \E p \in Elems(up[t]) : p.type = "ask" /\ p.peer = a
    BY Zenon, <1>2, <2>2 DEF WillAsk
  <2>3. CASE locator[t].gathers # <<>> /\ \E r \in Elems(locator[t].repunch) : r.peer = a
    <3>1. CASE locator'[t].gathers = locator[t].gathers /\ locator'[t].repunch = locator[t].repunch
      BY Zenon, <2>3, <3>1 DEF WillAsk
    <3>2. CASE t = c /\ \E p \in Elems(ps) : p.type = "ask" /\ p.peer = a
      BY Zenon, <1>2, <3>2 DEF WillAsk
    <3> QED BY <2>3, <3>1, <3>2
  <2> QED BY Zenon, <1>8, <2>1, <2>2, <2>3 DEF WillAsk
<1>9. AsksKept'
  BY Zenon, <1>7, <1>8, AsksStay
<1>10. GatheringsOrdered'
  <2>1. client[c].candidates \in Nat /\ locator[c].sent \in Nat /\ locator'[c].sent \in Nat
    BY Zenon DEF BrokerType, ClientData, Locator
  <2>2. Ordered(c) /\ client[c].event = "connected"
    BY Zenon DEF GatheringsOrdered, Standing
  <2>3. InOrder(up[c], client[c].candidates, locator[c].sent)
        /\ ReliedOn(up[c], client[c].candidates, locator[c].sent)
    BY Zenon, <2>2 DEF Ordered
  <2>4. InOrder(up[c] \o ps, client[c].candidates, locator'[c].sent)
        /\ ReliedOn(up[c] \o ps, client[c].candidates, locator'[c].sent)
    BY Zenon, <1>1, <2>1, <2>3, SentInOrder
  <2>5. Ordered(c)'
    BY <1>3, <2>2, <2>4 DEF Ordered
  <2>6. \A u \in Clients : u # c => Ordered(u)'
    BY Zenon, <1>2 DEF GatheringsOrdered, Ordered
  <2> QED BY Zenon, <2>5, <2>6 DEF GatheringsOrdered
<1>11. OffersOK'
  BY DEF OffersOK
<1> QED BY <1>4, <1>5, <1>6, <1>9, <1>10, <1>11

\* AskPeer.
LEMMA AskKeeps ==
  ASSUME BrokerInv, NEW c \in Clients, NEW target \in Clients, AskPeer(c, target)
  PROVE  BrokerInv'
<1> DEFINE packet == Packet("ask", target, locator[c].sent, 0)
           ps == <<packet>>
<1>0. BrokerType /\ Numbered
  BY DEF BrokerInv
<1>1. /\ client[c].alive /\ client' = client /\ queues' = queues /\ pairing' = pairing
      /\ registry' = registry /\ down' = down /\ locator' = locator /\ up' = Sends(up, c, ps)
      /\ locator[c].ready
  BY DEF AskPeer
<1>2. locator \in [Clients -> Locator] /\ locator[c] \in Locator
  BY Zenon, <1>0 DEF BrokerType
<1>3. locator[c].sent \in Nat
  BY Zenon, <1>2 DEF Locator
<1>4. packet \in Packets /\ packet.type = "ask" /\ packet.version = locator[c].sent
  BY Zenon, <1>3 DEF Packet, Packets
<1> HIDE DEF packet
<1>5. /\ ps \in Seq(Packets) /\ ps # <<>>
      /\ \A i \in DOMAIN ps : ps[i].version = locator[c].sent /\ ps[i].type # "gathering"
  BY <1>4
<1> HIDE DEF ps
<1>6. /\ locator[c].sent # 0 /\ locator[c].sent <= locator[c].sent
      /\ \A u \in Clients : /\ IsFiniteSet(locator[u].connected) /\ locator[u].address # 0
                            /\ \A g \in Elems(locator[u].gathers) : g # 0
  BY <1>0, <1>1, <1>3 DEF BrokerType, Numbered
<1> QED BY <1>1, <1>2, <1>5, <1>6, SendKeeps

\* The asks of a gathering, one for every peer that waits for it.
LEMMA AsksOut ==
  ASSUME NEW c \in Clients, NEW version \in Nat,
         locator[c].repunch \in Seq([peer : Clients, since : Nat])
  PROVE  /\ Asks(c, version) \in Seq(Packets) /\ DOMAIN Asks(c, version) = DOMAIN locator[c].repunch
         /\ \A i \in DOMAIN locator[c].repunch :
              /\ Asks(c, version)[i].type = "ask" /\ Asks(c, version)[i].version = version
              /\ Asks(c, version)[i].peer = locator[c].repunch[i].peer
<1> DEFINE t == locator[c].repunch
           R == [peer : Clients, since : Nat]
           asks == Asks(c, version)
           ask(i) == [type |-> "ask", peer |-> t[i].peer, version |-> version, asked |-> t[i].since]
<1>1. asks = [i \in DOMAIN t |-> ask(i)]
  BY DEF Asks, Packet
<1>2. t \in Seq(R)
  OBVIOUS
<1> HIDE DEF R, t
<1>3. DOMAIN t = 1..Len(t) /\ Len(t) \in Nat /\ \A i \in DOMAIN t : t[i] \in R
  BY <1>2
<1>4. \A i \in DOMAIN t : t[i].peer \in Clients /\ t[i].since \in Nat
  BY Zenon, <1>3 DEF R
<1>5. \A i \in DOMAIN t : ask(i) \in Packets
  BY Zenon, <1>4 DEF Packets
<1>6. \A i \in DOMAIN t : ask(i).type = "ask" /\ ask(i).version = version /\ ask(i).peer = t[i].peer
  OBVIOUS
<1> HIDE DEF ask, asks
<1>7. asks \in [1..Len(t) -> Packets] /\ \A i \in DOMAIN t : asks[i] = ask(i)
  BY Zenon, <1>1, <1>3, <1>5
<1>8. asks \in Seq(Packets) /\ DOMAIN asks = DOMAIN t
  BY <1>3, <1>7, SeqDef
<1> QED BY Zenon, <1>6, <1>7, <1>8 DEF t, asks

\* OnGathered: the gathering goes out, and every ask that waited for it behind it.
LEMMA GatheredKeeps ==
  ASSUME BrokerInv, NEW c \in Clients, OnGathered(c)
  PROVE  BrokerInv'
<1> DEFINE here == locator[c]
<1>0. BrokerType /\ Numbered
  BY DEF BrokerInv
<1>1. /\ client' = client /\ queues' = queues /\ pairing' = pairing
      /\ registry' = registry /\ down' = down /\ here.gathers # <<>>
  BY DEF OnGathered
<1>2. locator \in [Clients -> Locator] /\ here \in Locator
  BY Zenon, <1>0 DEF BrokerType
<1>3. here.sent \in Nat /\ here.address \in Nat /\ here.gathers \in Seq(Nat)
      /\ here.repunch \in Seq([peer : Clients, since : Nat])
  BY Zenon, <1>2 DEF Locator
<1>4. Head(here.gathers) \in Nat /\ Tail(here.gathers) \in Seq(Nat)
      /\ Elems(here.gathers) = {Head(here.gathers)} \cup Elems(Tail(here.gathers))
  BY Zenon, <1>1, <1>3, ElemsTail
<1>5. /\ Head(here.gathers) # 0
      /\ \A u \in Clients : /\ IsFiniteSet(locator[u].connected) /\ locator[u].address # 0
                            /\ \A g \in Elems(locator[u].gathers) : g # 0
  BY Zenon, <1>0, <1>4 DEF BrokerType, Numbered
<1>6. ASSUME client[c].alive,
             NEW version \in Max({Head(here.gathers), here.sent})..here.address,
             up' = Sends(up, c, Gathered(c, version)),
             locator' = [locator EXCEPT ![c].gathers = Tail(@), ![c].repunch = <<>>,
                                        ![c].ready = TRUE, ![c].sent = version]
      PROVE  BrokerInv'
  <2>1. Max({Head(here.gathers), here.sent}) >= Head(here.gathers)
        /\ Max({Head(here.gathers), here.sent}) >= here.sent
        /\ Max({Head(here.gathers), here.sent}) \in Nat
    <3>1. \A a, b \in Nat : \E x \in {a, b} : \A y \in {a, b} : x >= y
      OBVIOUS
    <3>2. \A a, b \in Nat : Max({a, b}) \in {a, b} /\ \A y \in {a, b} : Max({a, b}) >= y
      BY <3>1 DEF Max
    <3> QED BY Zenon, <1>3, <1>4, <3>2
  <2>2. version \in Nat /\ version # 0 /\ here.sent <= version
    BY <1>3, <1>4, <1>5, <2>1
  <2> DEFINE e == [here EXCEPT !.gathers = Tail(here.gathers), !.repunch = <<>>,
                               !.ready = TRUE, !.sent = version]
             asks == Asks(c, version)
             first == Packet("gathering", c, version, 0)
             ps == <<first>> \o asks
  <2>3. locator' = [locator EXCEPT ![c] = e]
    BY Zenon, <1>2, <1>6
  <2>4. /\ e \in Locator /\ e.connected = here.connected /\ e.address = here.address
        /\ e.gathers = Tail(here.gathers) /\ e.sent = version
    <3>1. e = [here EXCEPT !.gathers = Tail(here.gathers), !.repunch = <<>>,
                           !.ready = TRUE, !.sent = version]
      OBVIOUS
    <3> DEFINE gathers == Tail(here.gathers)
               none == <<>>
    <3>2. gathers \in Seq(Nat) /\ none \in Seq([peer : Clients, since : Nat])
      BY <1>4
    <3>3. e = [here EXCEPT !.gathers = gathers, !.repunch = none, !.ready = TRUE, !.sent = version]
      BY Zenon, <3>1
    <3> HIDE DEF e, here, gathers, none
    <3>4. /\ e \in Locator /\ e.connected = here.connected /\ e.address = here.address
          /\ e.gathers = gathers /\ e.sent = version
      BY ONLY Zenon, <1>2, <2>2, <3>2, <3>3 DEF Locator
    <3> QED BY <3>4 DEF gathers
  <2> HIDE DEF e
  <2>5. /\ locator' \in [Clients -> Locator] /\ locator'[c] = e
        /\ \A u \in Clients : u # c => locator'[u] = locator[u]
    BY <1>2, <2>3, <2>4
  <2>7. /\ asks \in Seq(Packets) /\ DOMAIN asks = DOMAIN here.repunch
        /\ \A i \in DOMAIN asks : /\ asks[i].type = "ask" /\ asks[i].version = version
                                  /\ asks[i].peer = here.repunch[i].peer
    <3>1. version \in Nat /\ locator[c].repunch \in Seq([peer : Clients, since : Nat])
      BY Zenon, <1>3, <2>2
    <3>2. /\ Asks(c, version) \in Seq(Packets) /\ DOMAIN Asks(c, version) = DOMAIN locator[c].repunch
          /\ \A i \in DOMAIN locator[c].repunch :
              /\ Asks(c, version)[i].type = "ask" /\ Asks(c, version)[i].version = version
              /\ Asks(c, version)[i].peer = locator[c].repunch[i].peer
      BY ONLY <3>1, c \in Clients, AsksOut, Zenon
    <3> QED BY ONLY <3>2, Zenon
  <2>8. first \in Packets /\ first.type = "gathering" /\ first.version = version
    BY <2>2 DEF Packet, Packets
  <2>9. Gathered(c, version) = ps
    BY Zenon DEF Gathered
  <2> HIDE DEF asks, first
  <2>10. ps \in Seq(Packets) /\ Elems(ps) = {first} \cup Elems(asks)
    BY Zenon, <2>7, <2>8, ElemsPrepend
  <2>11. /\ ps[1] = first /\ DOMAIN ps = 1..(1 + Len(asks)) /\ Len(asks) \in Nat
         /\ \A i \in DOMAIN ps : i # 1 => i - 1 \in DOMAIN asks /\ ps[i] = asks[i - 1]
    BY <2>7, <2>8
  <2> HIDE DEF ps
  <2>12. ps # <<>> /\ \A i \in DOMAIN ps : ps[i].version = version /\ (ps[i].type = "gathering" => i = 1)
    BY <2>7, <2>8, <2>10, <2>11, ElemsEmpty
  <2>13. \A r \in Elems(here.repunch) : \E p \in Elems(ps) : p.type = "ask" /\ p.peer = r.peer
    <3> SUFFICES ASSUME NEW i \in DOMAIN here.repunch
                 PROVE  \E p \in Elems(ps) : p.type = "ask" /\ p.peer = here.repunch[i].peer
      BY DEF Elems
    <3>1. asks[i] \in Elems(asks)
      BY Zenon, <2>7 DEF Elems
    <3> QED BY <2>7, <2>10, <3>1
  <2>14. \A u \in Clients : /\ IsFiniteSet(locator'[u].connected) /\ locator'[u].address # 0
                            /\ \A g \in Elems(locator'[u].gathers) : g # 0
    BY Zenon, <1>4, <1>5, <2>4, <2>5
  <2>15. up' = Sends(up, c, ps)
    BY Zenon, <1>6, <2>9
  <2>16. locator'[c].sent = version /\ ps[1].type = "gathering" /\ client[c].alive
    BY <1>6, <2>4, <2>5, <2>8, <2>11
  <2>17. /\ locator[c].sent <= locator'[c].sent /\ locator'[c].sent # 0
         /\ \A i \in DOMAIN ps : /\ ps[i].version = locator'[c].sent
                                 /\ ps[i].type = "gathering" => i = 1
    BY <2>2, <2>12, <2>16
  <2> QED BY Zenon, <1>1, <2>5, <2>10, <2>12, <2>13, <2>14, <2>15, <2>16, <2>17, SendKeeps
<1>7. ASSUME ~client[c].alive, locator' = [locator EXCEPT ![c].gathers = Tail(@)], up' = up
      PROVE  BrokerInv'
  <2> USE DEF BrokerInv
  <2> DEFINE e == [here EXCEPT !.gathers = Tail(here.gathers)]
  <2>1. locator' = [locator EXCEPT ![c] = e]
    BY <1>2, <1>7
  <2>2. /\ e \in Locator /\ e.connected = here.connected /\ e.address = here.address
        /\ e.gathers = Tail(here.gathers) /\ e.sent = here.sent /\ e.ready = here.ready
        /\ e.repunch = here.repunch
    BY Zenon, <1>2, <1>4 DEF Locator
  <2> HIDE DEF e
  <2>3. /\ locator' \in [Clients -> Locator] /\ locator'[c] = e
        /\ \A u \in Clients : u # c => locator'[u] = locator[u]
    BY <1>2, <2>1, <2>2
  <2>4. \A u \in Clients : /\ IsFiniteSet(locator'[u].connected) /\ locator'[u].address # 0
                           /\ \A g \in Elems(locator'[u].gathers) : g # 0
                           /\ locator'[u].sent = locator[u].sent /\ locator'[u].ready = locator[u].ready
    BY <1>4, <1>5, <2>2, <2>3
  <2>5. BrokerType'
    BY Zenon, <1>1, <1>7, <2>3, <2>4 DEF BrokerType
  <2>6. Standing'
    BY Zenon, <1>1 DEF Standing
  <2>7. Numbered'
    BY <1>1, <1>7, <2>4 DEF Numbered
  <2>8. \A a, t \in Clients : Waits(a, t) => Waits(a, t)'
    BY <1>1 DEF Waits
  <2>9. \A t, a \in Clients : t # c /\ WillAsk(t, a) => WillAsk(t, a)'
    BY Zenon, <1>1, <1>7, <2>3 DEF WillAsk
  <2>10. c \in registry => client[c].event # "none"
    BY DEF Standing
  <2>11. AsksKept'
    BY Zenon, <1>1, <1>7, <2>8, <2>9, <2>10, AsksStay
  <2>12. GatheringsOrdered'
    BY <1>1, <1>7, <2>4, GatheringsStay
  <2>13. OffersOK'
    BY Zenon, <1>1 DEF OffersOK
  <2> QED BY <2>5, <2>6, <2>7, <2>11, <2>12, <2>13
<1> QED BY Zenon, <1>6, <1>7 DEF OnGathered

-----------------------------------------------------------------------------
\* What OnPacket writes to a client's data: it counts the request and drops the
\* client, takes its candidates, or notes the gathering its ask relies on.
LEMMA PacketData ==
  ASSUME BrokerType, NEW c \in Clients, OnPacket(c)
  PROVE  \E d \in ClientData :
           /\ client' = [client EXCEPT ![c] = d]
           /\ d.event = client[c].event /\ d.named = client[c].named /\ d.paired = client[c].paired
           /\ \/ /\ ~d.alive /\ queues' = queues
                 /\ d.pending = client[c].pending /\ d.candidates = client[c].candidates
              \/ /\ d.alive /\ Head(up[c]).type = "gathering" /\ queues' = queues
                 /\ d.pending = client[c].pending /\ d.candidates = Head(up[c]).version
              \/ /\ d.alive /\ Head(up[c]).type = "ask" /\ ~client[c].named /\ queues' = queues
                 /\ d.pending = client[c].pending /\ d.candidates = client[c].candidates
              \/ /\ d.alive /\ Head(up[c]).type = "ask" /\ client[c].named
                 /\ queues' = [queues EXCEPT !.asks =
                                 <<[from |-> c, target |-> Head(up[c]).peer]>> \o queues.asks]
                 /\ d.pending = [client[c].pending EXCEPT ![Head(up[c]).peer] = Head(up[c]).version]
                 /\ d.candidates = client[c].candidates
<1> DEFINE pk == Head(up[c])
           old == client[c]
           data == [old EXCEPT !.requests = old.requests + 1]
<1>1. client \in [Clients -> ClientData] /\ old \in ClientData /\ queues \in Queues
  BY DEF BrokerType
<1>2. old.requests \in Nat /\ old.pending \in [Clients -> Nat]
  BY Zenon, <1>1 DEF ClientData
<1>3. pk \in Packets
  <2>1. up[c] \in Seq(Packets) /\ up[c] # <<>>
    BY DEF OnPacket, BrokerType
  <2> QED BY <2>1, ElemsTail
<1>4. pk.version \in Nat /\ pk.peer \in Clients
  BY Zenon, <1>3 DEF Packets
<1>5. old.alive
  BY DEF OnPacket
<1>6. /\ data \in ClientData /\ data.event = old.event /\ data.named = old.named
      /\ data.paired = old.paired /\ data.alive = old.alive /\ data.pending = old.pending
      /\ data.candidates = old.candidates
  <2> DEFINE count == old.requests + 1
  <2>1. count \in Nat /\ data = [old EXCEPT !.requests = count]
    BY <1>2
  <2> HIDE DEF old, count, data
  <2> QED BY ONLY Zenon, <1>1, <2>1 DEF ClientData
<1>7. CASE client' = [client EXCEPT ![c].alive = FALSE] /\ queues' = queues
  <2> DEFINE e == [old EXCEPT !.alive = FALSE]
  <2>1. client' = [client EXCEPT ![c] = e]
    BY <1>1, <1>7
  <2>2. /\ e \in ClientData /\ e.event = old.event /\ e.named = old.named /\ e.paired = old.paired
        /\ ~e.alive /\ e.pending = old.pending /\ e.candidates = old.candidates
    <3> HIDE DEF old
    <3> QED BY Zenon, <1>1 DEF ClientData
  <2> HIDE DEF e
  <2> QED BY Zenon, <1>7, <2>1, <2>2
<1>8. CASE /\ pk.type = "gathering" /\ queues' = queues
           /\ client' = [client EXCEPT ![c] = [data EXCEPT !.candidates = pk.version]]
  <2> DEFINE e == [data EXCEPT !.candidates = pk.version]
  <2>2. /\ e \in ClientData /\ e.event = old.event /\ e.named = old.named /\ e.paired = old.paired
        /\ e.alive /\ e.pending = old.pending /\ e.candidates = pk.version
    <3> HIDE DEF data, old, pk
    <3> QED BY Zenon, <1>4, <1>5, <1>6 DEF ClientData
  <2>3. client' = [client EXCEPT ![c] = e]
    BY Zenon, <1>8
  <2> HIDE DEF e
  <2> QED BY Zenon, <1>8, <2>2, <2>3
<1>9. CASE /\ pk.type = "ask" /\ ~client[c].named /\ queues' = queues
           /\ client' = [client EXCEPT ![c] = data]
  <2> HIDE DEF data
  <2> QED BY Zenon, <1>5, <1>6, <1>9
<1>10. CASE /\ pk.type = "ask" /\ client[c].named
            /\ queues' = [queues EXCEPT !.asks = <<[from |-> c, target |-> pk.peer]>> \o @]
            /\ client' = [client EXCEPT ![c] = [data EXCEPT !.pending[pk.peer] = pk.version]]
  <2> DEFINE e == [data EXCEPT !.pending[pk.peer] = pk.version]
             p == [old.pending EXCEPT ![pk.peer] = pk.version]
  <2>1. p \in [Clients -> Nat]
    BY <1>2, <1>4
  <2>2. e = [data EXCEPT !.pending = p]
    <3> HIDE DEF data, old, pk
    <3> QED BY <1>6 DEF ClientData
  <2>3. /\ e \in ClientData /\ e.event = old.event /\ e.named = old.named /\ e.paired = old.paired
        /\ e.alive /\ e.pending = p /\ e.candidates = old.candidates
    <3> HIDE DEF data, old, pk, e, p
    <3> QED BY Zenon, <1>5, <1>6, <2>1, <2>2 DEF ClientData
  <2>4. client' = [client EXCEPT ![c] = e]
    BY Zenon, <1>10
  <2>5. queues' = [queues EXCEPT !.asks = <<[from |-> c, target |-> pk.peer]>> \o queues.asks]
    BY Zenon, <1>1, <1>10 DEF Queues
  <2> HIDE DEF e
  <2> QED BY Zenon, <1>10, <2>3, <2>4, <2>5
<1> QED
  <2>1. data = [client[c] EXCEPT !.requests = @ + 1]
    BY Zenon, <1>1 DEF ClientData
  <2> HIDE DEF data
  <2> QED BY Zenon, <1>7, <1>8, <1>9, <1>10, <2>1 DEF OnPacket

\* OnPacket takes an ask off the link only to queue it, and what a dropped client
\* sent is nobody's hope any more.
LEMMA PacketKeeps ==
  ASSUME BrokerInv, NEW c \in Clients, OnPacket(c)
  PROVE  BrokerInv'
<1> DEFINE pk == Head(up[c])
           old == client[c]
           ask == [from |-> c, target |-> pk.peer]
           Drops(d) == /\ ~d.alive /\ queues' = queues
                       /\ d.pending = old.pending /\ d.candidates = old.candidates
           Gathers(d) == /\ d.alive /\ pk.type = "gathering" /\ queues' = queues
                         /\ d.pending = old.pending /\ d.candidates = pk.version
           Ignores(d) == /\ d.alive /\ pk.type = "ask" /\ ~old.named /\ queues' = queues
                         /\ d.pending = old.pending /\ d.candidates = old.candidates
           Notes(d) == /\ d.alive /\ pk.type = "ask" /\ old.named
                       /\ queues' = [queues EXCEPT !.asks = <<ask>> \o queues.asks]
                       /\ d.pending = [old.pending EXCEPT ![pk.peer] = pk.version]
                       /\ d.candidates = old.candidates
<1>0. BrokerType /\ Standing /\ Numbered /\ AsksKept /\ GatheringsOrdered /\ OffersOK
  BY Zenon DEF BrokerInv
<1>1. PICK d \in ClientData :
        /\ client' = [client EXCEPT ![c] = d]
        /\ d.event = old.event /\ d.named = old.named /\ d.paired = old.paired
        /\ Drops(d) \/ Gathers(d) \/ Ignores(d) \/ Notes(d)
  BY Zenon, <1>0, PacketData
<1>2. /\ client' \in [Clients -> ClientData]
      /\ client'[c] = d /\ \A u \in Clients : u # c => client'[u] = client[u]
  BY Zenon, <1>0, <1>1, Changed
<1>3. /\ old.alive /\ up[c] # <<>> /\ up' = [up EXCEPT ![c] = Tail(up[c])]
      /\ pairing' = pairing /\ registry' = registry /\ down' = down /\ locator' = locator
  BY <1>0 DEF OnPacket, BrokerType
<1>4. up \in [Clients -> Seq(Packets)] /\ up[c] \in Seq(Packets) /\ queues \in Queues
      /\ client \in [Clients -> ClientData] /\ old \in ClientData
  BY Zenon, <1>0 DEF BrokerType
<1>5. pk \in Packets /\ Tail(up[c]) \in Seq(Packets) /\ Elems(up[c]) = {pk} \cup Elems(Tail(up[c]))
  BY <1>3, <1>4, ElemsTail
<1>6. /\ up' \in [Clients -> Seq(Packets)] /\ up'[c] = Tail(up[c])
      /\ \A u \in Clients : u # c => up'[u] = up[u]
  BY Zenon, <1>3, <1>4, <1>5
<1>7. pk.version \in Nat /\ pk.peer \in Clients /\ old.pending \in [Clients -> Nat]
      /\ old.candidates \in Nat
  BY Zenon, <1>4, <1>5 DEF Packets, ClientData
<1>8. pk.type = "ask" => pk.version # 0
  BY <1>0, <1>5 DEF Numbered
<1>9. /\ queues' \in Queues /\ queues'.clear = queues.clear /\ queues'.welcome = queues.welcome
      /\ Elems(queues.asks) \subseteq Elems(queues'.asks)
      /\ Notes(d) => ask \in Elems(queues'.asks)
  <2>1. queues.asks \in Seq(Ask) /\ ask \in Ask
    BY Zenon, <1>4, <1>7 DEF Queues, Ask
  <2>2. <<ask>> \o queues.asks \in Seq(Ask) /\ Elems(<<ask>> \o queues.asks) = {ask} \cup Elems(queues.asks)
    BY Zenon, <2>1, ElemsPrepend
  <2>3. CASE queues' = queues
    <3>1. Notes(d) => queues.asks = <<ask>> \o queues.asks
      BY Zenon, <1>4, <2>3 DEF Queues
    <3> QED BY <1>4, <2>2, <2>3, <3>1
  <2>4. CASE queues' = [queues EXCEPT !.asks = <<ask>> \o queues.asks]
    <3> DEFINE more == <<ask>> \o queues.asks
    <3> HIDE DEF more
    <3>1. queues' = [queues EXCEPT !.asks = more]
      BY Zenon, <2>4 DEF more
    <3>2. queues' \in Queues /\ queues'.clear = queues.clear /\ queues'.welcome = queues.welcome
          /\ queues'.asks = more
      BY Zenon, <1>4, <2>2, <3>1 DEF Queues, more
    <3> QED BY <2>2, <3>2 DEF more
  <2> QED BY Zenon, <1>1, <2>3, <2>4
<1> HIDE DEF pk, old, ask
<1>10. BrokerType'
  BY <1>0, <1>2, <1>3, <1>6, <1>9 DEF BrokerType
<1>11. \A u \in Clients : /\ client'[u].event = client[u].event /\ client'[u].named = client[u].named
                          /\ client'[u].paired = client[u].paired
                          /\ client'[u].alive => client[u].alive
  BY Zenon, <1>1, <1>2, <1>3 DEF old
<1>12. Standing'
  BY <1>0, <1>3, <1>9, <1>11, QueuesIn DEF Standing
<1>13. Numbered'
  <2>1. \A u \in Clients : Elems(up'[u]) \subseteq Elems(up[u])
    BY Zenon, <1>5, <1>6
  <2>2. \A u, t \in Clients : client'[u].pending[t] # 0 => client'[u].named
    <3>1. \A u, t \in Clients : client[u].pending[t] # 0 => client[u].named
      BY Zenon, <1>0 DEF Numbered
    <3> QED BY <1>1, <1>2, <1>7, <1>11, <3>1 DEF old
  <2> QED BY <1>0, <1>3, <2>1, <2>2 DEF Numbered
<1>14. OffersOK'
  BY Zenon, <1>0, <1>3 DEF OffersOK
<1>15. GatheringsOrdered'
  <2>1. \A u \in Clients : u # c => Ordered(u)'
    BY <1>0, <1>2, <1>3, <1>6 DEF GatheringsOrdered, Ordered
  <2>2. Ordered(c)
    BY Zenon, <1>0 DEF GatheringsOrdered
  <2>3. /\ \A t \in Clients : old.pending[t] <= old.candidates
        /\ InOrder(up[c], old.candidates, locator[c].sent)
        /\ ReliedOn(up[c], old.candidates, locator[c].sent)
        /\ old.event # "none"
    BY Zenon, <1>0, <1>3, <2>2 DEF Ordered, old, Standing
  <2>4. locator[c].sent \in Nat /\ d.candidates \in Nat
    BY Zenon, <1>0, <1>1 DEF BrokerType, Locator, ClientData
  <2>5. d.candidates = old.candidates \/ (pk.type = "gathering" /\ d.candidates = pk.version)
    BY <1>1
  <2>6. d.alive /\ pk.type = "gathering" => d.candidates = pk.version
    BY Zenon, <1>1
  <2>7. /\ old.candidates <= d.candidates
        /\ InOrder(Tail(up[c]), d.candidates, locator[c].sent)
        /\ d.alive => ReliedOn(Tail(up[c]), d.candidates, locator[c].sent)
    BY <1>3, <1>4, <1>7, <2>3, <2>4, <2>5, <2>6, TakenInOrder DEF pk
  <2>8. \A t \in Clients : d.pending[t] <= d.candidates
    <3>1. CASE d.pending = old.pending
      BY <1>7, <2>3, <2>4, <2>7, <3>1
    <3>2. CASE Notes(d)
      <4>1. pk.version <= old.candidates
        <5>1. 1 \in DOMAIN up[c] /\ up[c][1] = pk /\ DOMAIN up[c] \subseteq Nat \ {0}
          BY <1>3, <1>4 DEF pk
        <5>2. Ahead(up[c], old.candidates, 1, pk.version)
          BY Zenon, <2>3, <3>2, <5>1 DEF ReliedOn
        <5>3. ~ \E j \in DOMAIN up[c] : j < 1
          BY <5>1
        <5> QED BY <5>2, <5>3 DEF Ahead
      <4> QED BY <1>7, <2>3, <3>2, <4>1
    <3> QED BY <1>1, <3>1, <3>2
  <2>9. Ordered(c)'
    BY Zenon, <1>1, <1>2, <1>3, <1>6, <2>3, <2>7, <2>8 DEF Ordered, old
  <2> QED BY Zenon, <2>1, <2>9 DEF GatheringsOrdered
<1>16. AsksKept'
  <2>1. \A a, t \in Clients : Waits(a, t) => Waits(a, t)'
    BY Zenon, <1>3, <1>9 DEF Waits
  <2>2. ASSUME NEW t \in Clients, NEW a \in Clients, WillAsk(t, a)
        PROVE  WillAsk(t, a)' \/ (t = c /\ pk.type = "ask" /\ pk.peer = a)
    BY <1>3, <1>5, <1>6, <2>2 DEF WillAsk
  <2>3. CASE Drops(d) \/ Gathers(d) \/ Ignores(d)
    <3>1. \A u \in Clients : client'[u].pending = client[u].pending
      BY Zenon, <1>2, <2>3 DEF old
    <3>2. ASSUME NEW t \in Clients, NEW a \in Clients, t \in registry, WillAsk(t, a),
                 client'[t].alive \/ client'[t].event = "none"
          PROVE  WillAsk(t, a)'
      <4>1. client[t].named /\ client[t].event # "none"
        BY Zenon, <1>0, <3>2 DEF Standing
      <4>2. ~(t = c /\ pk.type = "ask" /\ pk.peer = a)
        BY <1>2, <1>11, <2>3, <3>2, <4>1 DEF old
      <4> QED BY Zenon, <2>2, <3>2, <4>2
    <3> QED BY Zenon, <1>0, <1>3, <1>11, <2>1, <3>1, <3>2, AsksStay
  <2>4. CASE Notes(d)
    <3>0. PICK peer \in Clients : peer = pk.peer
      BY Zenon, <1>7
    <3>1. /\ client'[c].pending[peer] # 0 /\ Waits(c, peer)' /\ c \in registry'
      <4>1. client'[c].pending[peer] # 0
        BY <1>2, <1>7, <1>8, <2>4, <3>0
      <4>2. Waits(c, peer)'
        BY <1>9, <2>4, <3>0 DEF Waits, ask
      <4>3. c \in registry'
        BY <1>0, <1>3, <2>4 DEF Standing, old
      <4> QED BY <4>1, <4>2, <4>3
    <3>2. \A u, t \in Clients : ~(u = c /\ t = peer) => client'[u].pending[t] = client[u].pending[t]
      BY <1>2, <1>7, <2>4, <3>0 DEF old
    <3> SUFFICES ASSUME NEW a \in Clients, NEW t \in Clients, a # t, client'[a].alive,
                        client'[a].pending[t] # 0, client'[t].alive \/ client'[t].event = "none"
                 PROVE  Kept(a, t)'
      BY Zenon DEF AsksKept
    <3>3. CASE a = c /\ t = peer
      BY Zenon, <3>1, <3>3 DEF Kept
    <3>4. CASE ~(a = c /\ t = peer)
      <4>1. Kept(a, t)
        <5>1. client[a].pending[t] # 0 /\ client[a].alive /\ (client[t].alive \/ client[t].event = "none")
          BY Zenon, <1>11, <3>2, <3>4
        <5> QED BY Zenon, <1>0, <5>1 DEF AsksKept
      <4>2. CASE t = c /\ a = peer
        BY Zenon, <3>1, <4>2 DEF Kept
      <4>3. CASE ~(t = c /\ a = peer)
        <5>1. client'[t].pending[a] = client[t].pending[a]
          BY Zenon, <3>2, <4>3
        <5>2. WillAsk(t, a) => WillAsk(t, a)'
          BY Zenon, <2>2, <3>0, <4>3
        <5> QED BY <1>3, <1>11, <2>1, <4>1, <5>1, <5>2 DEF Kept
      <4> QED BY Zenon, <4>2, <4>3
    <3> QED BY Zenon, <3>3, <3>4
  <2> QED BY <1>1, <2>3, <2>4
<1> QED BY <1>10, <1>12, <1>13, <1>14, <1>15, <1>16 DEF BrokerInv

-----------------------------------------------------------------------------
\* What TryPair does with an ask of c's for target.
Settled(c, target) ==
  /\ client[c].pending[target] = 0
  /\ client' = client /\ down' = down
NotFound(c, target) ==
  /\ client[c].pending[target] # 0 /\ ~(target \in registry /\ target # c)
  /\ client' = [client EXCEPT ![c].pending[target] = 0]
  /\ down' = Sends(down, c, <<Packet("notfound", target, 0, 0)>>)
Stays(c, target) ==
  /\ client[c].pending[target] # 0 /\ target \in registry /\ target # c
  /\ client[target].pending[c] = 0
  /\ client' = client /\ down' = Nudge(c, target)
Matches(c, target) ==
  /\ client[c].pending[target] # 0 /\ target \in registry /\ target # c
  /\ client[target].pending[c] # 0
  /\ client' = [client EXCEPT ![c].pending[target] = 0, ![target].pending[c] = 0,
                              ![c].paired = @ \cup {target}, ![target].paired = @ \cup {c}]
  /\ down' = Sends(Sends(down, c, <<PunchOffer(target, c)>>), target, <<PunchOffer(c, target)>>)

\* A match clears both asks and makes the two partners; nothing else of a client's
\* data changes, nor of anybody else's.
LEMMA MatchData ==
  ASSUME BrokerType, NEW c \in Clients, NEW target \in Clients, Matches(c, target)
  PROVE  /\ client' \in [Clients -> ClientData]
         /\ \A u \in Clients :
              /\ client'[u].alive = client[u].alive /\ client'[u].event = client[u].event
              /\ client'[u].named = client[u].named /\ client'[u].candidates = client[u].candidates
              /\ \A t \in Clients : client'[u].pending[t] =
                   IF (u = c /\ t = target) \/ (u = target /\ t = c) THEN 0 ELSE client[u].pending[t]
              /\ \A t \in Clients : ~((u = c /\ t = target) \/ (u = target /\ t = c)) =>
                   (t \in client'[u].paired <=> t \in client[u].paired)
<1> DEFINE a == client[c]
           b == client[target]
           ap == [a.pending EXCEPT ![target] = 0]
           bp == [b.pending EXCEPT ![c] = 0]
           as == a.paired \cup {target}
           bs == b.paired \cup {c}
           da == [a EXCEPT !.pending = ap, !.paired = as]
           db == [b EXCEPT !.pending = bp, !.paired = bs]
<1>1. client \in [Clients -> ClientData] /\ a \in ClientData /\ b \in ClientData
  BY DEF BrokerType
<1>2. c # target /\ client' = [client EXCEPT
            ![c].pending[target] = 0, ![target].pending[c] = 0,
            ![c].paired = @ \cup {target}, ![target].paired = @ \cup {c}]
  BY DEF Matches
<1>3. a.pending \in [Clients -> Nat] /\ b.pending \in [Clients -> Nat]
      /\ a.paired \in SUBSET Clients /\ b.paired \in SUBSET Clients
  BY Zenon, <1>1 DEF ClientData
<1>4. /\ DOMAIN client' = Clients
      /\ client'[c] = [[a EXCEPT !.pending[target] = 0] EXCEPT !.paired = @ \cup {target}]
      /\ client'[target] = [[b EXCEPT !.pending[c] = 0] EXCEPT !.paired = @ \cup {c}]
      /\ \A u \in Clients : u # c /\ u # target => client'[u] = client[u]
      /\ client' = [u \in Clients |-> client'[u]]
  BY ONLY Zenon, <1>1, <1>2, c \in Clients, target \in Clients
<1>5. ap \in [Clients -> Nat] /\ bp \in [Clients -> Nat] /\ as \in SUBSET Clients /\ bs \in SUBSET Clients
  BY <1>3
<1>6. client'[c] = da /\ client'[target] = db
  BY Zenon, <1>1, <1>4 DEF ClientData
<1>7. /\ \A t \in Clients : ap[t] = IF t = target THEN 0 ELSE a.pending[t]
      /\ \A t \in Clients : bp[t] = IF t = c THEN 0 ELSE b.pending[t]
      /\ \A t \in Clients : t # target => (t \in as <=> t \in a.paired)
      /\ \A t \in Clients : t # c => (t \in bs <=> t \in b.paired)
  BY <1>3
<1> HIDE DEF ap, bp, as, bs
<1>8. /\ da \in ClientData /\ da.alive = a.alive /\ da.event = a.event /\ da.named = a.named
      /\ da.candidates = a.candidates /\ da.pending = ap /\ da.paired = as
  <2> HIDE DEF a
  <2> QED BY ONLY Zenon, <1>1, <1>5 DEF ClientData
<1>9. /\ db \in ClientData /\ db.alive = b.alive /\ db.event = b.event /\ db.named = b.named
      /\ db.candidates = b.candidates /\ db.pending = bp /\ db.paired = bs
  <2> HIDE DEF b
  <2> QED BY ONLY Zenon, <1>1, <1>5 DEF ClientData
<1> HIDE DEF da, db
<1>10. client' \in [Clients -> ClientData]
  BY <1>1, <1>4, <1>6, <1>8, <1>9
<1> DEFINE Data(u) ==
             /\ client'[u].alive = client[u].alive /\ client'[u].event = client[u].event
             /\ client'[u].named = client[u].named /\ client'[u].candidates = client[u].candidates
             /\ \A t \in Clients : client'[u].pending[t] =
                  IF (u = c /\ t = target) \/ (u = target /\ t = c) THEN 0 ELSE client[u].pending[t]
             /\ \A t \in Clients : ~((u = c /\ t = target) \/ (u = target /\ t = c)) =>
                  (t \in client'[u].paired <=> t \in client[u].paired)
<1>11. Data(c)
  BY Zenon, <1>2, <1>6, <1>7, <1>8
<1>12. Data(target)
  BY Zenon, <1>2, <1>6, <1>7, <1>9
<1>13. \A u \in Clients : u # c /\ u # target => Data(u)
  BY Zenon, <1>4
<1> HIDE DEF Data
<1>14. \A u \in Clients : Data(u)
  BY Zenon, <1>11, <1>12, <1>13
<1> QED BY Zenon, <1>10, <1>14 DEF Data

\* An ask for nobody is taken back; nothing else of anybody's data changes.
LEMMA NotFoundData ==
  ASSUME BrokerType, NEW c \in Clients, NEW target \in Clients, NotFound(c, target)
  PROVE  /\ client' \in [Clients -> ClientData]
         /\ \A u \in Clients :
              /\ client'[u].alive = client[u].alive /\ client'[u].event = client[u].event
              /\ client'[u].named = client[u].named /\ client'[u].candidates = client[u].candidates
              /\ \A t \in Clients : client'[u].pending[t] =
                   IF u = c /\ t = target THEN 0 ELSE client[u].pending[t]
              /\ client'[u].paired = client[u].paired
<1> DEFINE a == client[c]
           ap == [a.pending EXCEPT ![target] = 0]
           da == [a EXCEPT !.pending = ap]
<1>1. client \in [Clients -> ClientData] /\ a \in ClientData
  BY DEF BrokerType
<1>2. client' = [client EXCEPT ![c].pending[target] = 0]
  BY DEF NotFound
<1>3. a.pending \in [Clients -> Nat]
  BY <1>1 DEF ClientData
<1>4. client' = [client EXCEPT ![c] = da]
  BY Zenon, <1>1, <1>2 DEF ClientData
<1>5. ap \in [Clients -> Nat] /\ \A t \in Clients : ap[t] = IF t = target THEN 0 ELSE a.pending[t]
  BY <1>3
<1> HIDE DEF ap
<1>6. /\ da \in ClientData /\ da.alive = a.alive /\ da.event = a.event /\ da.named = a.named
      /\ da.candidates = a.candidates /\ da.pending = ap /\ da.paired = a.paired
  <2> HIDE DEF a
  <2> QED BY ONLY Zenon, <1>1, <1>5 DEF ClientData
<1> HIDE DEF da
<1>7. client' \in [Clients -> ClientData] /\ client'[c] = da
      /\ \A u \in Clients : u # c => client'[u] = client[u]
  BY Zenon, <1>4, <1>6, Changed
<1> QED BY <1>5, <1>6, <1>7

\* The packets TryPair sends: none is lost that was there, and an offer it adds
\* names candidates at least as new as the ask.
LEMMA PairSends ==
  ASSUME BrokerInv, NEW c \in Clients, NEW target \in Clients,
         Settled(c, target) \/ NotFound(c, target) \/ Stays(c, target) \/ Matches(c, target)
  PROVE  /\ down' \in [Clients -> Seq(Packets)]
         /\ \A u \in Clients :
              /\ Elems(down[u]) \subseteq Elems(down'[u])
              /\ \A p \in Elems(down'[u]) :
                   p \in Elems(down[u]) \/ p.type # "offer" \/ p.version >= p.asked
         /\ Stays(c, target) /\ client[target].alive /\ c \in client[target].paired =>
              \E p \in Elems(down'[target]) : p.type = "repunch" /\ p.peer = c
<1>0. BrokerType /\ GatheringsOrdered /\ down \in [Clients -> Seq(Packets)]
      /\ client \in [Clients -> ClientData]
  BY Zenon DEF BrokerInv, BrokerType
<1>1. CASE Settled(c, target)
  BY Zenon, <1>0, <1>1 DEF Settled, Stays, Nudge
<1>2. CASE NotFound(c, target)
  <2> DEFINE p == Packet("notfound", target, 0, 0)
  <2>1. p \in Packets /\ p.type = "notfound"
    BY DEF Packet, Packets
  <2>2. down' = Sends(down, c, <<p>>) /\ ~Stays(c, target)
    BY Zenon, <1>2 DEF NotFound, Stays
  <2> HIDE DEF p
  <2>3. /\ Sends(down, c, <<p>>) \in [Clients -> Seq(Packets)]
        /\ \A u \in Clients :
              /\ Elems(down[u]) \subseteq Elems(Sends(down, c, <<p>>)[u])
              /\ \A q \in Elems(Sends(down, c, <<p>>)[u]) : q = p \/ q \in Elems(down[u])
    BY Zenon, <1>0, <2>1, SendsOne
  <2> QED BY Zenon, <2>1, <2>2, <2>3
<1>3. CASE Stays(c, target)
  <2>1. CASE c \notin client[target].paired
    BY Zenon, <1>0, <1>3, <2>1 DEF Stays, Nudge
  <2>2. CASE c \in client[target].paired
    <3> DEFINE p == Packet("repunch", c, 0, 0)
    <3>1. p \in Packets /\ p.type = "repunch" /\ p.peer = c
      BY DEF Packet, Packets
    <3>2. down' = Sends(down, target, <<p>>)
      BY Zenon, <1>3, <2>2 DEF Stays, Nudge
    <3> HIDE DEF p
    <3>3. /\ Sends(down, target, <<p>>) \in [Clients -> Seq(Packets)]
          /\ \A u \in Clients :
              /\ Elems(down[u]) \subseteq Elems(Sends(down, target, <<p>>)[u])
              /\ \A q \in Elems(Sends(down, target, <<p>>)[u]) : q = p \/ q \in Elems(down[u])
          /\ client[target].alive => p \in Elems(Sends(down, target, <<p>>)[target])
      BY Zenon, <1>0, <3>1, SendsOne
    <3> QED BY Zenon, <3>1, <3>2, <3>3
  <2> QED BY Zenon, <2>1, <2>2
<1>4. CASE Matches(c, target)
  <2> DEFINE p == PunchOffer(target, c)
             q == PunchOffer(c, target)
             first == Sends(down, c, <<p>>)
  <2>1. \A u, t \in Clients : /\ client[u].candidates \in Nat /\ client[u].pending[t] \in Nat
                              /\ client[u].pending[t] <= client[u].candidates
    BY Zenon, <1>0 DEF ClientData, GatheringsOrdered, Ordered
  <2>2. p \in Packets /\ p.version >= p.asked /\ q \in Packets /\ q.version >= q.asked
    BY Zenon, <2>1 DEF PunchOffer, Packet, Packets
  <2>3. down' = Sends(first, target, <<q>>) /\ ~Stays(c, target)
    BY Zenon, <1>4 DEF Matches, Stays
  <2> HIDE DEF p, q
  <2>4. /\ first \in [Clients -> Seq(Packets)]
        /\ \A u \in Clients :
              /\ Elems(down[u]) \subseteq Elems(first[u])
              /\ \A x \in Elems(first[u]) : x = p \/ x \in Elems(down[u])
    BY Zenon, <1>0, <2>2, SendsOne
  <2> HIDE DEF first
  <2>5. /\ Sends(first, target, <<q>>) \in [Clients -> Seq(Packets)]
        /\ \A u \in Clients :
              /\ Elems(first[u]) \subseteq Elems(Sends(first, target, <<q>>)[u])
              /\ \A x \in Elems(Sends(first, target, <<q>>)[u]) : x = q \/ x \in Elems(first[u])
    BY Zenon, <1>0, <2>2, <2>4, SendsOne
  <2> QED BY Zenon, <2>2, <2>3, <2>4, <2>5
<1> QED BY Zenon, <1>1, <1>2, <1>3, <1>4

\* What TryPair may do to a client's data.
LEMMA PairData ==
  ASSUME BrokerType, NEW c \in Clients, NEW target \in Clients,
         Settled(c, target) \/ NotFound(c, target) \/ Stays(c, target) \/ Matches(c, target)
  PROVE  /\ client' \in [Clients -> ClientData]
         /\ \A u \in Clients :
              /\ client'[u].alive = client[u].alive /\ client'[u].event = client[u].event
              /\ client'[u].named = client[u].named /\ client'[u].candidates = client[u].candidates
              /\ \A t \in Clients : client'[u].pending[t] \in {client[u].pending[t], 0}
<1>1. CASE Settled(c, target) \/ Stays(c, target)
  BY Zenon, <1>1 DEF Settled, Stays, BrokerType
<1>2. CASE NotFound(c, target)
  BY <1>2, NotFoundData
<1>3. CASE Matches(c, target)
  BY <1>3, MatchData
<1> QED BY Zenon, <1>1, <1>2, <1>3

\* No ask is forgotten by TryPair: of the pair it looks at, either both asks are
\* answered, or the one that stays has the target's registration to wait for.
LEMMA PairAsks ==
  ASSUME BrokerInv, NEW c \in Clients, NEW target \in Clients,
         Settled(c, target) \/ NotFound(c, target) \/ Stays(c, target) \/ Matches(c, target),
         registry' = registry, up' = up, locator' = locator,
         \A a, t \in Clients : ~(a = c /\ t = target) /\ Waits(a, t) => Waits(a, t)'
  PROVE  AsksKept'
<1>0. BrokerType /\ Standing /\ Numbered /\ AsksKept
  BY Zenon DEF BrokerInv
<1>1. \A u \in Clients : Elems(down[u]) \subseteq Elems(down'[u])
  BY Zenon, PairSends
<1>2. \A u, t \in Clients : WillAsk(u, t) => WillAsk(u, t)'
  BY Zenon, <1>1 DEF WillAsk
<1>3. \A u \in Clients :
        /\ client'[u].alive = client[u].alive /\ client'[u].event = client[u].event
        /\ \A t \in Clients : client'[u].pending[t] \in {client[u].pending[t], 0}
  BY Zenon, <1>0, PairData
<1> SUFFICES ASSUME NEW a \in Clients, NEW t \in Clients, a # t, client'[a].alive,
                    client'[a].pending[t] # 0, client'[t].alive \/ client'[t].event = "none"
             PROVE  Kept(a, t)'
  BY Zenon DEF AsksKept
<1>4. client[a].pending[t] # 0 /\ client[a].alive /\ (client[t].alive \/ client[t].event = "none")
  BY Zenon, <1>3
<1>5. Kept(a, t)
  BY Zenon, <1>0, <1>4 DEF AsksKept
<1>6. a \in registry
  BY Zenon, <1>0, <1>4 DEF Standing, Numbered
<1>7. CASE Settled(c, target)
  <2>1. ~(a = c /\ t = target) /\ client' = client
    BY Zenon, <1>4, <1>7 DEF Settled
  <2>2. CASE a = target /\ t = c
    BY Zenon, <1>2, <1>5, <1>7, <2>1, <2>2 DEF Kept, Settled
  <2>3. CASE ~(a = target /\ t = c)
    BY Zenon, <1>2, <1>5, <2>1, <2>3 DEF Kept
  <2> QED BY Zenon, <2>2, <2>3
<1>8. CASE NotFound(c, target)
  <2>1. \A u, v \in Clients : client'[u].pending[v] =
            IF u = c /\ v = target THEN 0 ELSE client[u].pending[v]
    BY <1>0, <1>8, NotFoundData
  <2>2. \A u \in Clients : client'[u].paired = client[u].paired
    BY Zenon, <1>0, <1>8, NotFoundData
  <2>3. ~(a = c /\ t = target)
    BY Zenon, <2>1
  <2>4. ~(t = c /\ a = target)
    BY Zenon, <1>6, <1>8 DEF NotFound
  <2>5. client'[t].pending[a] = client[t].pending[a]
    BY Zenon, <2>1, <2>4
  <2> QED BY Zenon, <1>2, <1>5, <2>2, <2>3, <2>4, <2>5 DEF Kept
<1>9. CASE Stays(c, target)
  <2>1. client' = client
    BY Zenon, <1>9 DEF Stays
  <2>2. CASE a = c /\ t = target
    <3>1. t \in registry /\ client[t].pending[a] = 0
      BY Zenon, <1>9, <2>2 DEF Stays
    <3>2. client[t].alive
      BY Zenon, <1>0, <1>4, <3>1 DEF Standing
    <3>3. CASE a \in client[t].paired
      <4>1. WillAsk(t, a)'
        BY Zenon, <1>9, <2>2, <3>2, <3>3, PairSends DEF WillAsk
      <4> QED BY Zenon, <3>1, <4>1 DEF Kept
    <3>4. CASE a \notin client[t].paired
      BY Zenon, <2>1, <3>1, <3>4 DEF Kept
    <3> QED BY Zenon, <3>3, <3>4
  <2>3. CASE ~(a = c /\ t = target)
    <3>1. ~(t = c /\ a = target)
      BY Zenon, <1>4, <1>9 DEF Stays
    <3> QED BY Zenon, <1>2, <1>5, <2>1, <2>3, <3>1 DEF Kept
  <2> QED BY Zenon, <2>2, <2>3
<1>10. CASE Matches(c, target)
  <2>1. \A u, v \in Clients : client'[u].pending[v] =
            IF (u = c /\ v = target) \/ (u = target /\ v = c) THEN 0 ELSE client[u].pending[v]
    BY <1>0, <1>10, MatchData
  <2>2. \A u, v \in Clients : ~((u = c /\ v = target) \/ (u = target /\ v = c)) =>
            (v \in client'[u].paired <=> v \in client[u].paired)
    BY <1>0, <1>10, MatchData
  <2>3. ~(a = c /\ t = target) /\ ~(a = target /\ t = c)
    BY Zenon, <2>1
  <2>4. client'[t].pending[a] = client[t].pending[a] /\ (a \in client'[t].paired <=> a \in client[t].paired)
    BY Zenon, <2>1, <2>2, <2>3
  <2> QED BY Zenon, <1>2, <1>5, <2>3, <2>4 DEF Kept
<1> QED BY <1>7, <1>8, <1>9, <1>10

\* TryPair takes one ask and settles it, answers it, or lets it wait.
LEMMA PairKeeps ==
  ASSUME BrokerInv, TryPair
  PROVE  BrokerInv'
<1>0. BrokerType /\ Standing /\ Numbered /\ AsksKept /\ GatheringsOrdered /\ OffersOK
  BY Zenon DEF BrokerInv
<1>1. pairing \in Queues /\ pairing.asks \in Seq(Ask) /\ pairing.asks # <<>>
  BY Zenon, <1>0 DEF BrokerType, Queues, TryPair
<1>2. /\ Head(pairing.asks) \in Ask /\ Tail(pairing.asks) \in Seq(Ask)
      /\ Elems(pairing.asks) = {Head(pairing.asks)} \cup Elems(Tail(pairing.asks))
  BY Zenon, <1>1, ElemsTail
<1>3. PICK c \in Clients, target \in Clients : Head(pairing.asks) = [from |-> c, target |-> target]
  BY Zenon, <1>2 DEF Ask
<1>4. Head(pairing.asks).from = c /\ Head(pairing.asks).target = target
  BY <1>3
<1>5. /\ queues' = queues /\ registry' = registry /\ up' = up /\ locator' = locator
      /\ pairing' = [pairing EXCEPT !.asks = Tail(pairing.asks)]
  BY Zenon, <1>1 DEF TryPair, Queues
<1>6. Settled(c, target) \/ NotFound(c, target) \/ Stays(c, target) \/ Matches(c, target)
  BY Zenon, <1>4 DEF TryPair, Settled, NotFound, Stays, Matches
<1>7. /\ pairing' \in Queues /\ pairing'.clear = pairing.clear /\ pairing'.welcome = pairing.welcome
      /\ pairing'.asks = Tail(pairing.asks)
  BY Zenon, <1>1, <1>2, <1>5 DEF Queues
<1>8. /\ client' \in [Clients -> ClientData]
      /\ \A u \in Clients :
           /\ client'[u].alive = client[u].alive /\ client'[u].event = client[u].event
           /\ client'[u].named = client[u].named /\ client'[u].candidates = client[u].candidates
           /\ \A t \in Clients : client'[u].pending[t] \in {client[u].pending[t], 0}
  BY Zenon, <1>0, <1>6, PairData
<1>9. /\ down' \in [Clients -> Seq(Packets)]
      /\ \A u \in Clients : \A p \in Elems(down'[u]) :
           p \in Elems(down[u]) \/ p.type # "offer" \/ p.version >= p.asked
  BY Zenon, <1>6, PairSends
<1>10. BrokerType'
  BY <1>0, <1>5, <1>7, <1>8, <1>9 DEF BrokerType
<1>11. Standing'
  BY <1>0, <1>5, <1>7, <1>8, QueuesIn DEF Standing
<1>12. Numbered'
  BY <1>0, <1>5, <1>8 DEF Numbered
<1>13. AsksKept'
  <2>1. \A a, t \in Clients : ~(a = c /\ t = target) /\ Waits(a, t) => Waits(a, t)'
    BY <1>2, <1>3, <1>5, <1>7 DEF Waits
  <2> QED BY <1>5, <1>6, <2>1, PairAsks
<1>14. GatheringsOrdered'
  <2> SUFFICES ASSUME NEW u \in Clients PROVE Ordered(u)'
    BY DEF GatheringsOrdered
  <2>1. Ordered(u) /\ client[u].candidates \in Nat
    BY Zenon, <1>0 DEF GatheringsOrdered, BrokerType, ClientData
  <2>2. \A t \in Clients : client'[u].pending[t] <= client'[u].candidates
    BY <1>8, <2>1 DEF Ordered
  <2> QED BY Zenon, <1>5, <1>8, <2>1, <2>2 DEF Ordered
<1>15. OffersOK'
  BY Zenon, <1>0, <1>9 DEF OffersOK
<1> QED BY Zenon, <1>10, <1>11, <1>12, <1>13, <1>14, <1>15 DEF BrokerInv

-----------------------------------------------------------------------------
\* The invariant is what is to be shown.
LEMMA BrokerInvImplies == BrokerInv => AsksAnsweredFresh
<1> SUFFICES ASSUME BrokerInv PROVE AsksAnsweredFresh
  OBVIOUS
<1>0. BrokerType /\ AsksKept /\ OffersOK
  BY Zenon DEF BrokerInv
<1>1. OffersFresh
  BY Zenon, <1>0 DEF OffersOK, OffersFresh, Elems
<1>2. ASSUME NEW c \in Clients, NEW t \in Clients, Waits(c, t)
      PROVE  Queued(c, t)
  <2> DEFINE s == queues.asks \o pairing.asks
             ask == [from |-> c, target |-> t]
  <2>1. queues.asks \in Seq(Ask) /\ pairing.asks \in Seq(Ask)
    BY <1>0 DEF BrokerType, Queues
  <2>2. s \in Seq(Ask) /\ Elems(s) = Elems(queues.asks) \cup Elems(pairing.asks)
    BY <2>1, ElemsConcat
  <2>3. ask \in Elems(s)
    BY Zenon, <1>2, <2>2 DEF Waits
  <2> QED BY Zenon, <2>3 DEF Queued, Range, Elems
<1>3. ASSUME NEW c \in Clients, NEW t \in Clients, WillAsk(t, c)
      PROVE  Coming(t, c)
  BY Zenon, <1>3 DEF WillAsk, Coming, Elems
<1>4. NoAskForgotten
  <2> SUFFICES ASSUME NEW c \in registry, NEW t \in registry, client[c].pending[t] # 0,
                      client[c].alive, client[t].alive, c # t
               PROVE  \/ Queued(c, t) \/ Queued(t, c) \/ Coming(t, c)
                      \/ client[t].pending[c] = 0 /\ c \notin client[t].paired
    BY Zenon DEF NoAskForgotten
  <2>1. c \in Clients /\ t \in Clients
    BY Zenon, <1>0 DEF BrokerType
  <2>2. Kept(c, t)
    BY Zenon, <1>0, <2>1 DEF AsksKept
  <2> QED BY <1>2, <1>3, <2>1, <2>2 DEF Kept
<1> QED BY Zenon, <1>1, <1>4 DEF AsksAnsweredFresh

\* A step of nobody changes nothing the broker or the peers rely on.
LEMMA BrokerStutters ==
  ASSUME BrokerInv, UNCHANGED brokerVars
  PROVE  BrokerInv'
<1> USE DEF BrokerInv
<1>0. client' = client /\ queues' = queues /\ pairing' = pairing /\ registry' = registry
      /\ up' = up /\ down' = down /\ locator' = locator
  BY DEF brokerVars
<1>1. BrokerType'
  BY Zenon, <1>0 DEF BrokerType
<1>2. Standing' /\ OffersOK'
  BY Zenon, <1>0 DEF Standing, OffersOK
<1>3. Numbered'
  BY Zenon, <1>0, NumbersStay
<1>4. AsksKept'
  BY Zenon, <1>0, AsksStay DEF Waits, WillAsk
<1>5. GatheringsOrdered'
  BY Zenon, <1>0, GatheringsStay
<1> QED BY <1>1, <1>2, <1>3, <1>4, <1>5

\* No ask is forgotten and no offer is stale: whatever number of peers ask, move,
\* leave and are dropped, a pending ask has something under way that will answer it
\* or a target that has yet to ask, and a match offers candidates no older than
\* those gathered before the ask (OnPacket, TryPair, BeginRepunch and OnGathered).
THEOREM AsksAreAnswered == BrokerSpec => []AsksAnsweredFresh
<1>1. BrokerInit => BrokerInv
  BY Zenon, BrokerStarts
<1>2. BrokerInv /\ [BrokerNext]_brokerVars => BrokerInv'
  <2> SUFFICES ASSUME BrokerInv, [BrokerNext]_brokerVars PROVE BrokerInv'
    OBVIOUS
  <2>1. CASE UNCHANGED brokerVars
    BY Zenon, <2>1, BrokerStutters
  <2>2. ASSUME NEW c \in Clients,
               \/ OnConnectEvent(c) \/ Leave(c) \/ OnDisconnectEvent(c) \/ WindowPasses(c)
               \/ OnPacket(c) \/ OnGathered(c) \/ Relocate(c)
        PROVE  BrokerInv'
    BY <2>2, ConnectKeeps, QuietKeeps, DisconnectKeeps, PacketKeeps, GatheredKeeps, RelocateKeeps
  <2>3. ASSUME NEW c \in Clients,
               OnWelcome(c) \/ OnPeerNotFound(c) \/ OnPunchOffer(c) \/ OnRepunchRequest(c)
        PROVE  BrokerInv'
    BY Zenon, <2>3, PeerTakesKeeps
  <2>4. ASSUME NEW c \in Clients, NEW target \in Clients, AskPeer(c, target)
        PROVE  BrokerInv'
    BY Zenon, <2>4, AskKeeps
  <2>5. CASE PairingTakes \/ PairingClears \/ Welcome \/ TryPair
    BY <2>5, TakesKeep, ClearsKeep, WelcomeKeeps, PairKeeps
  <2> QED BY <2>1, <2>2, <2>3, <2>4, <2>5 DEF BrokerNext
<1>3. BrokerInv => AsksAnsweredFresh
  BY BrokerInvImplies
<1> QED BY <1>1, <1>2, <1>3, PTL DEF BrokerSpec
=============================================================================
