------------------------------- MODULE Agents -------------------------------
(***************************************************************************)
(* Peers punching through to each other: p2p::Agent (agent.cc) with its     *)
(* tick thread, the punch machine of one offer (internal/zdt_punch.cc), the *)
(* probe of one gather (internal/gather.cc) and the relay and reflector     *)
(* they speak to (traversal_server.cc).                                     *)
(*                                                                          *)
(* An address is the end it belongs to, or "relay" for the traversal        *)
(* server, whose relay and reflector share one socket.  A datagram's delay  *)
(* to the traversal server is spent on the way from it.  The handshake of a *)
(* punched session (SessionCrypto) is one datagram each way here, and the   *)
(* agent's connection migration is left out.                                *)
(***************************************************************************)
EXTENDS Naturals, Sequences, FiniteSets, SequencesExt, FiniteSetsExt

CONSTANTS Ends,
          Plans    \* what a behaviour runs under: the offers, what they have and
                   \* to whom they get, whether direct paths are open, how many datagrams fit on
                   \* the network (more are lost), who gathers, who stops, and
                   \* how many sessions the application closes

ASSUME AgentsAssumption ==
  /\ "relay" \notin Ends
  /\ \A p \in Plans :
       /\ \A i \in DOMAIN p.offers : /\ {p.offers[i].ini, p.offers[i].resp} \subseteq Ends
                                     /\ p.offers[i].ini # p.offers[i].resp
                                     /\ p.offers[i].has \subseteq {"direct", "relayed"}
                                     /\ p.offers[i].to \subseteq {p.offers[i].ini, p.offers[i].resp}
       /\ p.open \in BOOLEAN /\ p.flight \in Nat /\ p.closes \in Nat
       /\ p.gathers \subseteq Ends /\ p.stops \subseteq Ends

VARIABLES plan,
          agent,     \* per end, the fields of its Agent
          relay,     \* per offer, the ends its pairing has bound, if it lives
          net,       \* datagrams on their way
          asked,     \* per end, the calls it made: offers punched, 0 for a gather
          answers,   \* per end and call, what its callback was told
          made,      \* per end, every session it ever built
          closes     \* sessions the application has closed

vars == <<plan, agent, relay, net, asked, answers, made, closes>>

Offers == DOMAIN plan.offers
Parties(p) == {plan.offers[p].ini, plan.offers[p].resp}
Initiator(e, p) == plan.offers[p].ini = e
Peer(e, p) == CHOOSE f \in Parties(p) : f # e
Has(p, kind) == kind \in plan.offers[p].has

\* RouteKey: the address, and the channel when it is the relay's.
Direct(e) == [from |-> e, channel |-> 0]
Relayed(p) == [from |-> "relay", channel |-> p]

\* The network carries what it likes of a set of datagrams.
Carries(before, datagrams) ==
  \E some \in SUBSET (datagrams \ before) :
    Cardinality(before \cup some) <= plan.flight /\ net' = before \cup some

Lose(d) ==
  /\ net' = net \ {d}
  /\ UNCHANGED <<plan, agent, relay, asked, answers, made, closes>>

NoRoutes == [k \in {} |-> 0]

Init ==
  /\ plan \in Plans
  /\ agent = [e \in Ends |->
                [running |-> TRUE, phase |-> "drain", pending |-> <<>>, punches |-> <<>>,
                 gather |-> "none", replied |-> FALSE, late |-> FALSE, routes |-> NoRoutes]]
  /\ relay = [p \in Offers |-> [live |-> Has(p, "relayed"), slots |-> {}]]
  /\ net = {}
  /\ asked = [e \in Ends |-> {}]
  /\ answers = [e \in Ends |-> [p \in Offers \cup {0} |-> <<>>]]
  /\ made = [e \in Ends |-> {}]
  /\ closes = 0

\* One callback of every request in ps.
Told(e, ps, result, alive) ==
  [answers EXCEPT ![e] = [p \in DOMAIN @ |->
     IF p \in ps THEN Append(@[p], [result |-> result, alive |-> alive]) ELSE @[p]]]

-----------------------------------------------------------------------------
\* The traversal server.

\* Relay::OnBind: the pairing takes two ends, and the same one again.
OnBind(pairing, e) ==
  IF pairing.live /\ (e \in pairing.slots \/ Cardinality(pairing.slots) < 2)
  THEN [pairing EXCEPT !.slots = @ \cup {e}]
  ELSE pairing

BuildRelayBound(e, p) ==
  [to |-> e, from |-> "relay", channel |-> 0, type |-> "bound", guid |-> p]

\* Relay::OnForward: from one bound end to the other, if there is one.
OnForward(pairing, from, to, d) ==
  IF pairing.live /\ {from, to} \subseteq pairing.slots THEN {d} ELSE {}

\* Relay::Expire, of a pairing that stayed unbound or fell silent.
Expire(p) ==
  /\ relay[p].live
  /\ relay' = [relay EXCEPT ![p] = [live |-> FALSE, slots |-> {}]]
  /\ UNCHANGED <<plan, agent, net, asked, answers, made, closes>>

\* SendDatagram from e to the other end of p, along the path its route k is.
SendDatagram(e, p, k, type, guid) ==
  LET to == Peer(e, p) IN
  IF k.channel = 0
  THEN IF plan.open
       THEN {[to |-> to, from |-> e, channel |-> 0, type |-> type, guid |-> guid]}
       ELSE {}
  ELSE OnForward(relay[k.channel], e, to,
                 [to |-> to, from |-> "relay", channel |-> k.channel,
                  type |-> type, guid |-> guid])

-----------------------------------------------------------------------------
\* Calls on the agent, from any thread.

\* ZDTPunch of an offer.  time: only direct candidates race, the relay has
\* joined them, the deadline has passed.
ZDTPunch(p) ==
  [id |-> p, time |-> IF Has(p, "relayed") THEN "direct" ELSE "relay",
   answered |-> FALSE, remote |-> 0, channel |-> 0]

\* Mutant: running_ is not looked at.
Punch_Unchecked(e, p) ==
  /\ e \in plan.offers[p].to /\ p \notin asked[e]
  /\ asked' = [asked EXCEPT ![e] = @ \cup {p}]
  /\ agent' = [agent EXCEPT ![e].pending = Append(@, ZDTPunch(p))]
  /\ UNCHANGED <<plan, relay, net, answers, made, closes>>

\* Agent::Punch
Punch(e, p) ==
  /\ e \in plan.offers[p].to /\ p \notin asked[e]
  /\ asked' = [asked EXCEPT ![e] = @ \cup {p}]
  /\ \/ /\ plan.offers[p].has = {}
        /\ answers' = Told(e, {p}, "invalid", FALSE) /\ UNCHANGED agent
     \/ /\ plan.offers[p].has # {} /\ ~agent[e].running
        /\ answers' = Told(e, {p}, "stopped", FALSE) /\ UNCHANGED agent
     \/ /\ plan.offers[p].has # {} /\ agent[e].running
        /\ agent' = [agent EXCEPT ![e].pending = Append(@, ZDTPunch(p))]
        /\ UNCHANGED answers
  /\ UNCHANGED <<plan, relay, net, made, closes>>

\* Agent::Gather, from one reflector.
Gather(e) ==
  /\ e \in plan.gathers /\ 0 \notin asked[e]
  /\ asked' = [asked EXCEPT ![e] = @ \cup {0}]
  /\ \/ /\ ~agent[e].running
        /\ answers' = Told(e, {0}, "stopped", FALSE) /\ UNCHANGED agent
     \/ /\ agent[e].running
        /\ agent' = [agent EXCEPT ![e].gather = "pending"] /\ UNCHANGED answers
  /\ UNCHANGED <<plan, relay, net, made, closes>>

\* PeerSession::Close by the application: the transport says goodbye.
Close(e, k) ==
  LET s == agent[e].routes[k] IN
  /\ closes < plan.closes /\ s.alive
  /\ agent' = [agent EXCEPT ![e].routes[k].alive = FALSE]
  /\ Carries(net, SendDatagram(e, s.punch, k, "fin", s.punch))
  /\ closes' = closes + 1
  /\ UNCHANGED <<plan, relay, asked, answers, made>>

\* A deadline or the relay's head start runs out.
Elapse(e) ==
  /\ \/ /\ agent[e].gather = "probing" /\ ~agent[e].late
        /\ agent' = [agent EXCEPT ![e].late = TRUE]
     \/ \E i \in DOMAIN agent[e].punches :
          /\ agent[e].punches[i].time # "late"
          /\ agent' = [agent EXCEPT ![e].punches[i].time =
                         IF @ = "direct" THEN "relay" ELSE "late"]
     \/ \E k \in DOMAIN agent[e].routes :
          /\ agent[e].routes[k].waiters # {} /\ ~agent[e].routes[k].late
          /\ agent' = [agent EXCEPT ![e].routes[k].late = TRUE]
  /\ UNCHANGED <<plan, relay, net, asked, answers, made, closes>>

-----------------------------------------------------------------------------
\* DrainSocket

\* ZDTPunch::Owns
Owns(machine, d) ==
  \/ d.channel = 0 /\ Has(machine.id, "direct") /\ d.from \in Parties(machine.id)
  \/ /\ Has(machine.id, "relayed") /\ d.from = "relay"
     /\ d.channel = 0 \/ d.channel = machine.channel

\* HandleOffline's attribution: the first punch that owns the source, or 0.
Owner(e, d) ==
  LET owners == {i \in DOMAIN agent[e].punches : Owns(agent[e].punches[i], d)} IN
  IF owners = {} THEN 0 ELSE Min(owners)

\* ReflectProbe::Owns
ProbeOwns(e, d) ==
  /\ agent[e].gather = "probing" /\ ~agent[e].replied
  /\ d.from = "relay" /\ d.channel = 0

\* Mutant: the route forgets the relay channel.
CompletePunch_NoChannel(a, i, k, remote, inbox) ==
  LET session == [punch |-> a.punches[i].id, remote |-> remote, ready |-> FALSE,
                  alive |-> TRUE, late |-> FALSE, inbox |-> inbox,
                  waiters |-> {a.punches[i].id}]
      key == [k EXCEPT !.channel = 0] IN
  [a EXCEPT !.punches = RemoveAt(@, i),
            !.routes = [j \in DOMAIN @ \cup {key} |-> IF j = key THEN session ELSE @[j]]]

\* CompletePunch: the machine becomes a session its caller waits on.
CompletePunch(a, i, k, remote, inbox) ==
  LET session == [punch |-> a.punches[i].id, remote |-> remote, ready |-> FALSE,
                  alive |-> TRUE, late |-> FALSE, inbox |-> inbox,
                  waiters |-> {a.punches[i].id}] IN
  [a EXCEPT !.punches = RemoveAt(@, i),
            !.routes = [j \in DOMAIN @ \cup {k} |-> IF j = k THEN session ELSE @[j]]]

\* ZDTPunch::OnDatagram, and what HandleOffline does with its outcome.
OnDatagram(e, i, d) ==
  LET a == agent[e]
      m == a.punches[i]
      k == [from |-> d.from, channel |-> d.channel]
      initiator == Initiator(e, m.id)
      Completed(remote, inbox) ==
        /\ agent' = [agent EXCEPT ![e] = CompletePunch(a, i, k, remote, inbox)]
        /\ made' = [made EXCEPT ![e] = @ \cup {[channel |-> k.channel, punch |-> m.id,
                                               remote |-> remote]}]
        /\ net' = net \ {d}
      Changed(machine, replies) ==
        /\ agent' = [agent EXCEPT ![e].punches[i] = machine]
        /\ Carries(net \ {d}, replies)
        /\ UNCHANGED made IN
  CASE d.type \in {"online", "fin"} /\ ~initiator /\ m.answered ->
         Completed(m.remote, <<d.type>>)
    [] d.type = "bound" /\ d.guid = m.id ->
         Changed([m EXCEPT !.channel = m.id], {})
    [] d.type = "request1" /\ ~initiator ->
         Changed([m EXCEPT !.remote = d.guid, !.answered = TRUE],
                 SendDatagram(e, m.id, k, "reply2", m.id))
    [] d.type = "reply2" /\ initiator -> Completed(d.guid, <<>>)
    [] OTHER -> Changed(m, {})

\* A session's inbox: what its transport will not skip, once.
Pushed(inbox, type) ==
  IF type \in {"online", "fin"} /\ ~Contains(inbox, type) THEN Append(inbox, type) ELSE inbox

Receive(e, d) ==
  LET a == agent[e]
      k == [from |-> d.from, channel |-> d.channel]
      i == Owner(e, d) IN
  /\ a.phase = "drain" /\ d \in net /\ d.to = e
  /\ \/ /\ k \in DOMAIN a.routes
        /\ agent' = [agent EXCEPT ![e].routes[k].inbox = Pushed(@, d.type)]
        /\ net' = net \ {d} /\ UNCHANGED made
     \/ /\ k \notin DOMAIN a.routes /\ ProbeOwns(e, d)
        /\ agent' = [agent EXCEPT ![e].replied = (d.type = "reflected")]
        /\ net' = net \ {d} /\ UNCHANGED made
     \/ /\ k \notin DOMAIN a.routes /\ ~ProbeOwns(e, d) /\ i = 0
        /\ net' = net \ {d} /\ UNCHANGED <<agent, made>>
     \/ /\ k \notin DOMAIN a.routes /\ ~ProbeOwns(e, d) /\ i # 0
        /\ OnDatagram(e, i, d)
  /\ UNCHANGED <<plan, relay, asked, answers, closes>>


-----------------------------------------------------------------------------
\* The rest of an iteration of TickLoop.

\* RecvFrom has nothing more, and TickGathers: a new gather starts probing, one
\* that is done is answered.
TickGathers(e) ==
  LET a == agent[e]
      probing == a.gather # "none"
      done == probing /\ (a.replied \/ a.late) IN
  /\ a.phase = "drain"
  /\ agent' = [agent EXCEPT ![e].phase = "punches",
                            ![e].gather = IF probing /\ ~done THEN "probing" ELSE "none"]
  /\ answers' = Told(e, IF done THEN {0} ELSE {},
                     IF a.replied THEN "success" ELSE "timeout", FALSE)
  /\ Carries(net, IF probing /\ ~a.replied
                  THEN {[to |-> e, from |-> "relay", channel |-> 0,
                         type |-> "reflected", guid |-> 0]}
                  ELSE {})
  /\ UNCHANGED <<plan, relay, asked, made, closes>>

\* The live route a punch is for already, if it has one: by public identity.
Routed(e, machine) ==
  Has(machine.id, "direct") /\ Direct(Peer(e, machine.id)) \in DOMAIN agent[e].routes

\* The paths SendToActive sends along.
Active(e, m) ==
  (IF Has(m.id, "direct") THEN {Direct(Peer(e, m.id))} ELSE {})
    \cup (IF m.channel # 0 /\ m.time = "relay" THEN {Relayed(m.id)} ELSE {})

\* ZDTPunch::Tick, for a machine whose deadline has not passed.
Sent(e, m) ==
  UNION {IF Initiator(e, m.id) THEN SendDatagram(e, m.id, k, "request1", m.id) ELSE {}
         : k \in Active(e, m)}

Binds(e, m) == Has(m.id, "relayed") /\ m.channel = 0

\* TickPunches: what Punch() handed over joins the race; a punch that is
\* routed already ends with that session, a late one fails, the others send.
TickPunches(e) ==
  LET a == agent[e]
      all == a.punches \o a.pending
      routed == {m \in ToSet(all) : Routed(e, m)}
      late == {m \in ToSet(all) \ routed : m.time = "late"}
      left == SelectSeq(all, LAMBDA m : m \notin routed \cup late)
      Of(m) == a.routes[Direct(Peer(e, m.id))]
      binding == {m \in ToSet(left) : Binds(e, m)} IN
  /\ a.phase = "punches"
  /\ agent' = [agent EXCEPT
       ![e].phase = "sessions", ![e].pending = <<>>, ![e].punches = left,
       ![e].routes = [k \in DOMAIN @ |->
          [@[k] EXCEPT !.waiters = @ \cup {m.id : m \in {r \in routed :
                                     k = Direct(Peer(e, r.id)) /\ ~Of(r).ready}}]]]
  /\ answers' = [answers EXCEPT ![e] = [p \in DOMAIN @ |->
       IF \E m \in routed : m.id = p /\ Of(m).ready
       THEN Append(@[p], [result |-> "success",
                          alive |-> \E m \in routed : m.id = p /\ Of(m).alive])
       ELSE IF \E m \in late : m.id = p
       THEN Append(@[p], [result |-> "timeout", alive |-> FALSE])
       ELSE @[p]]]
  /\ relay' = [p \in Offers |-> IF \E m \in binding : m.id = p
                                THEN OnBind(relay[p], e) ELSE relay[p]]
  /\ Carries(net, UNION {Sent(e, m) : m \in ToSet(left)}
                    \cup {BuildRelayBound(e, m.id) :
                            m \in {b \in binding : e \in OnBind(relay[b.id], e).slots}})
  /\ UNCHANGED <<plan, asked, made, closes>>

\* PeerSession::Process, as far as the agent can tell.
Process(s) ==
  [s EXCEPT !.ready = @ \/ (s.inbox # <<>> /\ Head(s.inbox) = "online"),
            !.alive = ~Contains(s.inbox, "fin"),
            !.inbox = <<>>]

\* Mutant: nobody looks at ready_deadline.
Overdue_Never(s) == FALSE

\* The session's handshake has taken too long for those who wait on it.
Overdue(s) == s.waiters # {} /\ s.late

\* ProcessSessions: a dead session is dropped; a live one is processed and,
\* when it settles or its deadline has passed, its waiters are told.
ProcessSessions(e) ==
  LET a == agent[e]
      dead == {k \in DOMAIN a.routes : ~a.routes[k].alive}
      After(k) == Process(a.routes[k])
      settled == {k \in DOMAIN a.routes \ dead : After(k).ready}
      overdue == {k \in DOMAIN a.routes \ (dead \cup settled) : Overdue(a.routes[k])}
      kept == DOMAIN a.routes \ (dead \cup overdue)
      Resolved(k) == CASE k \in dead -> "refused"
                       [] k \in overdue -> "timeout"
                       [] OTHER -> "success" IN
  /\ a.phase = "sessions"
  /\ agent' = [agent EXCEPT
       ![e].phase = IF a.running THEN "drain" ELSE "exited",
       ![e].routes = [k \in kept |-> IF k \in settled
                                     THEN [After(k) EXCEPT !.waiters = {}]
                                     ELSE After(k)]]
  /\ answers' = [answers EXCEPT ![e] = [p \in DOMAIN @ |->
       LET ks == {k \in dead \cup settled \cup overdue : p \in a.routes[k].waiters} IN
       IF ks = {} THEN @[p]
       ELSE LET k == CHOOSE j \in ks : TRUE IN
            Append(@[p], [result |-> Resolved(k),
                          alive |-> k \in settled /\ After(k).alive])]]
  /\ Carries(net, UNION {SendDatagram(e, a.routes[k].punch, k,
                                      IF k \in overdue THEN "fin" ELSE "online",
                                      a.routes[k].punch)
                         : k \in {j \in DOMAIN a.routes \ dead :
                                    j \in overdue \/ After(j).alive}})
  /\ UNCHANGED <<plan, relay, asked, made, closes>>

-----------------------------------------------------------------------------
\* Agent::Stop, from an application thread.

Stop(e) ==
  /\ e \in plan.stops /\ agent[e].running
  /\ agent' = [agent EXCEPT ![e].running = FALSE]
  /\ UNCHANGED <<plan, relay, net, asked, answers, made, closes>>

\* The tick thread has been joined; what nobody picked up is picked up here.
StopTakes(e) ==
  /\ agent[e].phase = "exited"
  /\ agent' = [agent EXCEPT ![e].phase = "taken",
                            ![e].punches = @ \o agent[e].pending, ![e].pending = <<>>]
  /\ UNCHANGED <<plan, relay, net, asked, answers, made, closes>>

\* Everyone still waiting is told, and the sessions are closed.
StopEnds(e) ==
  LET a == agent[e]
      waiting == {m.id : m \in ToSet(a.punches)}
                   \cup UNION {a.routes[k].waiters : k \in DOMAIN a.routes}
                   \cup (IF a.gather # "none" THEN {0} ELSE {}) IN
  /\ a.phase = "taken"
  /\ answers' = Told(e, waiting, "stopped", FALSE)
  /\ Carries(net, UNION {SendDatagram(e, a.routes[k].punch, k, "fin", a.routes[k].punch)
                         : k \in {j \in DOMAIN a.routes : a.routes[j].alive}})
  /\ agent' = [agent EXCEPT ![e].phase = "stopped", ![e].punches = <<>>,
                            ![e].gather = "none", ![e].routes = NoRoutes]
  /\ UNCHANGED <<plan, relay, asked, made, closes>>

\* The tick thread, and the thread in Stop() once that has ended.
Tick(e) ==
  TickGathers(e) \/ TickPunches(e) \/ ProcessSessions(e) \/ StopTakes(e) \/ StopEnds(e)

Next ==
  \/ \E e \in Ends :
       \/ \E p \in Offers : Punch(e, p)
       \/ Gather(e) \/ Elapse(e) \/ Stop(e)
       \/ \E k \in DOMAIN agent[e].routes : Close(e, k)
       \/ \E d \in net : Receive(e, d)
       \/ Tick(e)
  \/ \E p \in Offers : Expire(p)
  \/ \E d \in net : Lose(d)

Spec == Init /\ [][Next]_vars

\* Both threads run and time passes.
AgentsFair == \A e \in Ends : WF_vars(Tick(e)) /\ WF_vars(Elapse(e))

FairSpec == Spec /\ AgentsFair
-----------------------------------------------------------------------------
\* Properties.

Calls == UNION {{<<e, p>> : p \in asked[e]} : e \in Ends}

\* Every Gather() and Punch() is answered at most once, and none that Stop()
\* raced with is forgotten: once it has returned, everything asked of the agent
\* has been told something and no session is left (the handoff under
\* pending_mutex_ between Gather, Punch, the tick thread and Stop).
AnsweredOnce ==
  /\ \A c \in Calls : Len(answers[c[1]][c[2]]) <= 1
  /\ \A e \in Ends : agent[e].phase = "stopped" =>
       /\ agent[e].routes = NoRoutes /\ agent[e].pending = <<>>
       /\ \A p \in asked[e] : answers[e][p] # <<>>

OfferedOnce(p) ==
  \A q \in Offers : Parties(q) = Parties(p) /\ plan.offers[q].to = Parties(q) => q = p

\* A session that becomes ready has a counterpart: the peer built one on the
\* same path, and each holds the connection id the other stamps (Request1 and
\* Reply2 answered on every path at once, first answer wins, lost and repeated
\* datagrams), if the two were offered to each other once.
SessionsMatch ==
  \A e \in Ends : \A k \in DOMAIN agent[e].routes :
    LET s == agent[e].routes[k] IN
    s.ready /\ OfferedOnce(s.punch) => \E m \in made[Peer(e, s.punch)] :
                 m.channel = k.channel /\ m.punch = s.remote /\ m.remote = s.punch

\* A call of Punch() is answered at most once, and a session it is answered with
\* has its counterpart at the peer (CompletePunch, ResolveWaiters).
AnsweredTruly == AnsweredOnce /\ SessionsMatch

\* However the network, the relay, the peer or Stop() behaves, no call waits for
\* ever: again and again none is unanswered, and calls are few (deadline_ and
\* ready_deadline).
AnsweredEventually == []<>(\A c \in Calls : answers[c[1]][c[2]] # <<>>)

\* The same, however often the two were offered to each other.
IdsMatch ==
  \A e \in Ends : \A k \in DOMAIN agent[e].routes :
    LET s == agent[e].routes[k] IN
    s.ready => \E m \in made[Peer(e, s.punch)] :
                 m.channel = k.channel /\ m.punch = s.remote /\ m.remote = s.punch

\* A RelayBound that arrives for a punch in flight tells that punch its channel
\* (HandleOffline's attribution, OnRelayBound).
BoundIsHeard ==
  [][\A e \in Ends : \A d \in net :
       (Receive(e, d) /\ d.type = "bound") =>
         \A m \in ToSet(agent[e].punches) : m.id = d.guid =>
           \E n \in ToSet(agent'[e].punches) : n.id = d.guid /\ n.channel = d.guid]_vars

\* A punch that succeeds hands its caller a session that is alive (TickPunches,
\* ProcessSessions).
SuccessIsLive ==
  \A c \in Calls : \A n \in DOMAIN answers[c[1]][c[2]] :
    LET told == answers[c[1]][c[2]][n] IN
    (c[2] # 0 /\ told.result = "success") => told.alive
=============================================================================
