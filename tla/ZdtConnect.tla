----------------------------- MODULE ZdtConnect -----------------------------
(***************************************************************************)
(* How a ZDT connection is opened and how it survives a change of address:  *)
(* ZDTClientBackend (the MTU ladder and the cookie handshake, path          *)
(* challenges, Rebind) against ZDTServerBackend (its route table, the       *)
(* stateless cookie and its rotation, path migration, reaping).  The        *)
(* network delays and reorders freely; it duplicates or loses a bounded     *)
(* number of datagrams and drops any that exceed the path's MTU.            *)
(***************************************************************************)
EXTENDS Naturals, Sequences, FiniteSets, Functions, TLC

CONSTANTS Clients, Addresses,
          Home,            \* the address each client binds first
          Ladder,          \* mtu_ladder, largest first
          PathMtu,         \* what the path to the server carries
          RetriesPerRung,  \* handshake_retries_per_rung
          MaxRetries,      \* max_retries, for the second phase
          Plans            \* settings and bounds a behaviour may start with

\* A plan: the clients that take part, max_connections of the server (room, 0 is unlimited),
\* enable_connection_migration on both ends (migrates), whether a client may
\* connect again from its address (restarts), the kinds of datagram the network
\* may lose or repeat (faulty), and how often secrets rotate, the network fails,
\* clients move and connect.
PlanFields == {"clients", "room", "migrates", "restarts", "faulty", "rotations", "faults", "moves", "connects"}

ASSUME ConnectAssumption ==
  /\ Len(Ladder) > 0 /\ \A i \in 1..(Len(Ladder) - 1) : Ladder[i] > Ladder[i + 1]
  /\ RetriesPerRung > 0 /\ MaxRetries > 0
  /\ \A p \in Plans : DOMAIN p = PlanFields

VARIABLES client,    \* per client: its backend
          net,       \* datagrams in flight
          routes,    \* the server's routes_: address to session
          sessions,  \* every session the server created, in order
          pending,   \* pending_accept_
          epoch,     \* CookieSecret: rotations so far
          faults, moves, connects,  \* what the bounds count
          plan       \* settings and bounds, never changed

vars == <<client, net, routes, sessions, pending, epoch, faults, moves, connects, plan>>
serverVars == <<routes, sessions, pending, epoch>>

None == <<>>

-----------------------------------------------------------------------------
\* Cookies. A secret is named by the rotation that made it; ComputeCookie is
\* one-to-one on what it is computed from.

Compute_AnyEpoch(now, key, e) == <<e, key, e>>

Compute(now, key, e) ==
  IF e + 1 = now THEN <<now - 1, key, e>> ELSE <<now, key, e>>

PathCookieKey(a, cid) == <<"path", a, cid>>

MakePathChallenge(now, a, cid) ==
  [t |-> "challenge", to |-> a, cid |-> cid, epoch |-> now,
   cookie |-> Compute(now, PathCookieKey(a, cid), now)]

VerifyPathResponse(now, a, response) ==
  response.cookie = Compute(now, PathCookieKey(a, response.cid), response.epoch)

-----------------------------------------------------------------------------
\* The client.

\* What a Request1 padded to a rung becomes on the path.
Probe(a, rung) ==
  IF Ladder[rung] <= PathMtu THEN {[t |-> "request1", from |-> a, size |-> Ladder[rung]]} ELSE {}

Request2(c) ==
  [t |-> "request2", from |-> c.addr, cookie |-> c.cookie, epoch |-> c.epoch,
   mtu |-> c.mtu, guid |-> c.guid, migrates |-> plan.migrates]

\* Connect, also by a restarted process that binds the port it had before.
Connect(c) ==
  /\ client[c].phase \in {"idle"} \cup (IF plan.restarts THEN {"failed", "connected"} ELSE {})
  /\ connects < plan.connects
  /\ connects' = connects + 1
  /\ client' = [client EXCEPT ![c] = [@ EXCEPT !.phase = "request1", !.guid = connects + 1,
                                               !.rung = 1, !.attempt = 1]]
  /\ net' = net \cup Probe(client[c].addr, 1)
  /\ UNCHANGED <<serverVars, faults, moves, plan>>

\* handshake_retransmit passed without the answer: again, a smaller probe, or
\* Result::Timeout.
RequestTimeout(c) ==
  LET k == client[c]
      lastTry == k.attempt = IF k.phase = "request1" THEN RetriesPerRung ELSE MaxRetries
      lastRung == k.phase = "request2" \/ k.rung = Len(Ladder)
      next == IF ~lastTry THEN [k EXCEPT !.attempt = @ + 1]
              ELSE IF ~lastRung THEN [k EXCEPT !.rung = @ + 1, !.attempt = 1]
              ELSE [k EXCEPT !.phase = "failed"]
  IN /\ k.phase \in {"request1", "request2"}
     /\ client' = [client EXCEPT ![c] = next]
     /\ net' = net \cup (CASE next.phase = "request1" -> Probe(next.addr, next.rung)
                           [] next.phase = "request2" -> {Request2(next)}
                           [] OTHER -> {})
     /\ UNCHANGED <<serverVars, faults, moves, connects, plan>>

\* What a client makes of a datagram: its new state and what it sends.
ClientReads(k, m) ==
  CASE m.t = "reply1" /\ k.phase = "request1" ->
         LET asked == [k EXCEPT !.phase = "request2", !.attempt = 1, !.mtu = m.mtu,
                                !.cookie = m.cookie, !.epoch = m.epoch]
         IN <<asked, {Request2(asked)}>>
    [] m.t = "reply2" /\ k.phase = "request2" ->
         <<[k EXCEPT !.phase = "connected", !.mtu = IF m.mtu # 0 THEN m.mtu ELSE @], {}>>
    [] m.t = "full" /\ k.phase \in {"request1", "request2"} ->
         <<[k EXCEPT !.phase = "failed"], {}>>
    [] m.t = "challenge" /\ k.phase = "connected" /\ plan.migrates /\ m.cid = k.guid ->
         <<k, {[t |-> "response", from |-> k.addr, cid |-> m.cid, epoch |-> m.epoch, cookie |-> m.cookie]}>>
    [] OTHER -> <<k, {}>>

\* Online traffic; without migration it changes nothing here.
SendOnline(c) ==
  LET m == [t |-> "online", from |-> client[c].addr, cid |-> client[c].guid]
  IN /\ client[c].phase = "connected" /\ plan.migrates
     /\ net' = net \cup {m}
     /\ UNCHANGED <<client, serverVars, faults, moves, connects, plan>>

\* Rebind: the next datagram leaves from the new address.
Rebind(c, a) ==
  /\ client[c].phase = "connected" /\ plan.migrates
  /\ moves < plan.moves
  /\ moves' = moves + 1
  /\ \A d \in Clients : client[d].addr # a
  /\ client' = [client EXCEPT ![c].addr = a]
  /\ UNCHANGED <<net, serverVars, faults, connects, plan>>

-----------------------------------------------------------------------------
\* The server. A handler maps the tables it holds under state_mutex_ to their
\* new value and to what it sends.

Live(sess, i) == sess[i].state # "gone"   \* a weak_ptr that has not expired

Reply2(m) == [t |-> "reply2", to |-> m.from, mtu |-> m.mtu]

\* The size that arrived, capped to the top rung.
MtuOf(m) == IF m.size > Ladder[1] THEN Ladder[1] ELSE m.size

OnRequest1(now, m) ==
  {[t |-> "reply1", to |-> m.from, mtu |-> MtuOf(m), epoch |-> now,
    cookie |-> Compute(now, m.from, now)]}

Full(table) == plan.room > 0 /\ Cardinality(DOMAIN table) >= plan.room

NewSession(now, m) ==
  [guid |-> m.guid, mtu |-> IF m.mtu # 0 THEN m.mtu ELSE Ladder[Len(Ladder)],
   peer |-> m.from, state |-> "live", born |-> now, issued |-> m.epoch]

Tables == [routes |-> routes, sessions |-> sessions, pending |-> pending, out |-> {}]

Opened(now, m) ==
  LET id == Len(sessions) + 1
  IN [routes |-> (m.from :> id) @@ routes, sessions |-> Append(sessions, NewSession(now, m)),
      pending |-> Append(pending, id), out |-> {Reply2(m)}]

Known(a) == a \in DOMAIN routes /\ Live(sessions, routes[a])

OnRequest2_AnswersFull(now, m) ==
  IF m.cookie # Compute(now, m.from, m.epoch) THEN Tables
  ELSE IF Known(m.from) \/ Full(routes) THEN [Tables EXCEPT !.out = {Reply2(m)}]
  ELSE Opened(now, m)

OnRequest2_Replaces(now, m) ==
  IF m.cookie # Compute(now, m.from, m.epoch) THEN Tables
  ELSE IF ~Known(m.from) /\ Full(routes) THEN [Tables EXCEPT !.out = {[t |-> "full", to |-> m.from]}]
  ELSE Opened(now, m)

OnRequest2(now, m) ==
  IF m.cookie # Compute(now, m.from, m.epoch) THEN Tables
  ELSE IF Known(m.from) THEN [Tables EXCEPT !.out = {Reply2(m)}]
  ELSE IF Full(routes) THEN [Tables EXCEPT !.out = {[t |-> "full", to |-> m.from]}]
  ELSE Opened(now, m)

\* An online datagram: to its session's inbox, or a challenge to its address.
OnOnline(now, m) ==
  IF m.from \in DOMAIN routes THEN Tables
  ELSE IF plan.migrates /\ \E b \in DOMAIN routes : /\ sessions[routes[b]].guid = m.cid
                                              /\ Live(sessions, routes[b])
  THEN [Tables EXCEPT !.out = {MakePathChallenge(now, m.from, m.cid)}]
  ELSE Tables

\* The route moves; the table is a hash map, so of several routes with one
\* guid any may come first.
Moved_Copies(b, a) == (a :> routes[b]) @@ routes

Moved_Stays(b, a) == routes

Moved(b, a) == (a :> routes[b]) @@ Restrict(routes, DOMAIN routes \ {b})

CompletePathMigration(now, m) ==
  LET first == {b \in DOMAIN routes : sessions[routes[b]].guid = m.cid}
  IN IF ~plan.migrates \/ ~VerifyPathResponse(now, m.from, m) \/ first = {} THEN {Tables}
     ELSE {IF ~Live(sessions, routes[b]) \/ b = m.from THEN Tables
           ELSE [Tables EXCEPT !.routes = Moved(b, m.from),
                               !.sessions[routes[b]].peer = m.from] : b \in first}

ServerReads(now, m) ==
  CASE m.t = "request1" -> {[Tables EXCEPT !.out = OnRequest1(now, m)]}
    [] m.t = "request2" -> {OnRequest2(now, m)}
    [] m.t = "online" -> {OnOnline(now, m)}
    [] m.t = "response" -> CompletePathMigration(now, m)

-----------------------------------------------------------------------------
\* Delivery. A datagram is taken off the network, or stays as a duplicate.

ServerKinds == {"request1", "request2", "online", "response"}

ToServer == {m \in net : m.t \in ServerKinds}

Rest(m, keep) == IF keep THEN net ELSE net \ {m}

Copies(m, keep) == /\ keep => faults < plan.faults /\ m.t \in plan.faulty
                   /\ faults' = faults + (IF keep THEN 1 ELSE 0)

\* RouteDatagram, which also rotates the cookie secret when it is time.
RouteDatagram(m, keep, now) ==
  /\ Copies(m, keep)
  /\ epoch' = now
  /\ \E r \in ServerReads(now, m) :
       /\ routes' = r.routes /\ sessions' = r.sessions /\ pending' = r.pending
       /\ net' = Rest(m, keep) \cup r.out
  /\ UNCHANGED <<client, moves, connects, plan>>

\* Handshake's read loop, or ReceiveLoop once connected.
ClientReceive(c, m, keep) ==
  LET read == ClientReads(client[c], m)
  IN /\ Copies(m, keep)
     /\ m.to = client[c].addr
     /\ client' = [client EXCEPT ![c] = read[1]]
     /\ net' = Rest(m, keep) \cup read[2]
     /\ UNCHANGED <<serverVars, moves, connects, plan>>

Lose(m) ==
  /\ faults < plan.faults /\ m.t \in plan.faulty
  /\ faults' = faults + 1
  /\ net' = net \ {m}
  /\ UNCHANGED <<client, serverVars, moves, connects, plan>>

\* Accept reaps the routes of destroyed sessions and hands one session over.
Accept ==
  /\ routes' = Restrict(routes, {a \in DOMAIN routes : Live(sessions, routes[a])})
  /\ pending' = IF pending = <<>> THEN pending ELSE Tail(pending)
  /\ <<routes', pending'>> # <<routes, pending>>
  /\ UNCHANGED <<client, net, sessions, epoch, faults, moves, connects, plan>>

\* The server lets go of a session it accepted: closed, or its peer is silent.
\* Until then pending_accept_ owns it.
SessionEnds(i) ==
  /\ Live(sessions, i) /\ \A j \in DOMAIN pending : pending[j] # i
  /\ sessions' = [sessions EXCEPT ![i].state = "gone"]
  /\ UNCHANGED <<client, net, routes, pending, epoch, faults, moves, connects, plan>>

FreshClient(c) ==
  [phase |-> "idle", addr |-> Home[c], guid |-> 0, rung |-> 1, attempt |-> 1,
   mtu |-> 0, cookie |-> None, epoch |-> 0]

Init ==
  /\ client = [c \in Clients |-> FreshClient(c)]
  /\ net = {} /\ routes = <<>> /\ sessions = <<>> /\ pending = <<>> /\ epoch = 0
  /\ faults = 0 /\ moves = 0 /\ connects = 0
  /\ plan \in Plans

Next ==
  \/ \E c \in plan.clients : \/ Connect(c) \/ RequestTimeout(c) \/ SendOnline(c)
                             \/ \E a \in Addresses : Rebind(c, a)
                             \/ \E m \in net \ ToServer, keep \in BOOLEAN : ClientReceive(c, m, keep)
  \/ \E m \in ToServer, keep \in BOOLEAN, now \in {epoch, epoch + 1} \cap (0..plan.rotations) :
       RouteDatagram(m, keep, now)
  \/ \E m \in net : Lose(m)
  \/ Accept
  \/ \E i \in DOMAIN sessions : SessionEnds(i)

Spec == Init /\ [][Next]_vars

\* The client's timers run and it keeps sending; a datagram that is neither
\* lost nor kept back arrives, however many of other kinds do.
FairSpec ==
  /\ Spec
  /\ \A c \in Clients :
       /\ WF_vars(RequestTimeout(c))
       /\ WF_vars(SendOnline(c))
       /\ \A kind \in {"reply1", "reply2", "full", "challenge"} :
            WF_vars(\E m \in net : m.t = kind /\ ClientReceive(c, m, FALSE))
  /\ \A kind \in ServerKinds :
       WF_vars(\E m \in net : m.t = kind /\ RouteDatagram(m, FALSE, epoch))

-----------------------------------------------------------------------------
SessionOf(guid) == {i \in DOMAIN sessions : sessions[i].guid = guid}

\* A client whose Connect succeeded has a session of its own on the server, made
\* for its guid, and both use an MTU that the path carries, whichever probe was
\* answered and however late (HandleOffline, "duplicate Request2 (Reply2 was
\* lost): re-answer idempotently").
ConnectedHasSession ==
  \A c \in Clients : client[c].phase = "connected" =>
    /\ client[c].mtu <= PathMtu
    /\ \E i \in SessionOf(client[c].guid) : sessions[i].mtu = client[c].mtu

\* However often a Request2 is repeated or delayed, the server holds one live
\* session per client (HandleOffline, Request2).
OneSessionPerClient ==
  \A i, j \in DOMAIN sessions :
    /\ Live(sessions, i) /\ Live(sessions, j)
    /\ sessions[i].guid = sessions[j].guid
    => i = j

\* A session is only made from a cookie of the current or the previous secret,
\* so an old handshake cannot come back to life (CookieSecret::Compute).
CookieFresh ==
  \A i \in DOMAIN sessions : sessions[i].born <= sessions[i].issued + 1

\* A live session has exactly one route, and it leads where the session sends:
\* a migration moves both together or neither.
RouteMatchesPeer ==
  \A i \in DOMAIN sessions : Live(sessions, i) =>
    {a \in DOMAIN routes : routes[a] = i} = {sessions[i].peer}

\* The server's tables and its clients agree, whatever datagrams of the handshake
\* and of migrations were lost, repeated or late: a connected client has one
\* session, made from a fresh cookie and reached by one route.
SessionsConsistent ==
  ConnectedHasSession /\ OneSessionPerClient /\ CookieFresh /\ RouteMatchesPeer

\* After a Rebind, the session's route comes to follow its client (unless the
\* server gave the session up).
RouteFollows ==
  \A c \in Clients : client[c].phase = "connected" ~>
    \/ client[c].phase # "connected"
    \/ \A i \in SessionOf(client[c].guid) : ~Live(sessions, i)
    \/ /\ client[c].addr \in DOMAIN routes
       /\ sessions[routes[client[c].addr]].guid = client[c].guid
=============================================================================
