------------------------------- MODULE Gather -------------------------------
(***************************************************************************)
(* How an agent learns the addresses it can be reached at: ReflectProbe    *)
(* and the rest of p2p/internal/gather.cc, CollectGather of p2p/agent.cc,  *)
(* and the Reflector of p2p/traversal_server.cc that answers.  Between the *)
(* agent's socket and the reflectors stands a NAT, which is not the code's *)
(* and is modelled as such devices behave: it gives a flow the next        *)
(* external port of its sequence, once per destination as its kind says.   *)
(* Datagrams may be lost, repeated, overtaken or late.                     *)
(***************************************************************************)
EXTENDS Admission

CONSTANTS
    GatherPlans,            \* the surroundings and bounds of a gather
    MaxLocal,               \* the addresses GetLocalAddresses reports
    MaxCandidates,          \* kMaxCandidates
    PredictedPortCount,     \* kPredictedPortCount
    MaxPortStride,          \* kMaxPortStride
    MaxPort,                \* 65535
    ReflectInterval,        \* kReflectInterval
    ReflectSize             \* kZDTReflectSize

\* nat: "none", "independent", "address" or "port"; first, stride: its ports;
\* reflectors: whom to ask; size: the probe's length; timeout: of the gather;
\* throttle: rules of each reflector; interfaces: the agent's; losses, flows:
\* bounds on lost datagrams and on other flows through the NAT; late: an
\* answer of an earlier gather still on its way.
ASSUME GatherAssumption ==
    /\ {MaxLocal, MaxCandidates, PredictedPortCount, MaxPortStride, MaxPort,
        ReflectInterval, ReflectSize} \subseteq Nat
    /\ \A p \in GatherPlans : p.nat \in {"none", "independent", "address", "port"}

VARIABLES
    surroundings,           \* the plan
    probe,                  \* ReflectProbe: [targets, reflexive]
    nat,                    \* [ports, next]: external port by flow, and the next one
    air,                    \* datagrams on their way
    throttles,              \* per reflector, Reflector::throttle_
    gatherClock,
    spent,                  \* [losses, between, after]: losses, and other flows' ports
                            \* between two mappings of this socket and since the last
    collected               \* what the callback was given: [done, result, nat, candidates]

gatherVars == <<surroundings, probe, nat, air, throttles, gatherClock, spent, collected>>

Socket == InetAddressIPv4(<<10, 0, 0, 2>>, 7)

ExternalHost == <<9, 9, 9, 9>>

Host(address) == [type |-> "Host", address |-> address]

Reflexive(address) == [type |-> "Reflexive", address |-> address]

ContainsAddress(candidates, address) ==
    \E i \in 1..Len(candidates) : SameAddress(candidates[i].address, address)

-----------------------------------------------------------------------------
(* Pure helpers of gather.cc *)

LocalCandidates(interfaces, port) ==
    LET hosts == GetLocalAddresses(interfaces, "IPv4", MaxLocal)
    IN  [i \in 1..Min({Len(hosts), MaxCandidates}) |-> Host(InetAddressIPv4(hosts[i], port))]

\* The ports of the mappings on the first one's host, in ascending order.
PortsOf(reflexive) ==
    LET shared == SelectSeq(reflexive, LAMBDA c :
                      /\ c.type = "Reflexive"
                      /\ HostKey(c.address) = HostKey(reflexive[1].address))
    IN  SortSeq([i \in 1..Len(shared) |-> shared[i].address.port], LAMBDA a, b : a < b)

\* The first prediction is the last port seen.
PredictedPorts_FromLast(reflexive, count) ==
    LET ports  == PortsOf(reflexive)
        last   == ports[Len(ports)]
        stride == last - ports[Len(ports) - 1]
    IN  IF Len(ports) < 2 \/ stride <= 0 \/ stride > MaxPortStride THEN <<>>
        ELSE [i \in 1..count |-> Reflexive(WithPort(reflexive[1].address, last + (i - 1) * stride))]

PredictedPorts(reflexive, count) ==
    LET ports  == PortsOf(reflexive)
        last   == ports[Len(ports)]
        stride == last - ports[Len(ports) - 1]
        fits   == {i \in 1..count : last + i * stride <= MaxPort}
    IN  IF Len(ports) < 2 \/ stride <= 0 \/ stride > MaxPortStride THEN <<>>
        ELSE [i \in 1..Cardinality(fits) |->
                 Reflexive(WithPort(reflexive[1].address, last + i * stride))]

\* reflections are the answered targets, in order.  Any two are compared.
ClassifyNat_AnyTwo(reflections) ==
    IF Len(reflections) < 2 THEN "Unknown"
    ELSE IF SameAddress(reflections[1].observed, reflections[2].observed)
         THEN "EndpointIndependent" ELSE "AddressDependent"

\* Only another host's report says something new.
ClassifyNat(reflections) ==
    LET elsewhere == SelectSeq(reflections, LAMBDA r :
                        HostKey(r.reflector) # HostKey(reflections[1].reflector))
    IN  IF elsewhere = <<>> THEN "Unknown"
        ELSE IF SameAddress(reflections[1].observed, elsewhere[1].observed)
             THEN "EndpointIndependent" ELSE "AddressDependent"

-----------------------------------------------------------------------------
(* ReflectProbe *)

NewProbe(reflectors) ==
    LET asked == SelectSeq(reflectors, LAMBDA r : r.valid)
    IN  [targets |-> [i \in 1..Len(asked) |->
                        [reflector |-> asked[i], nonce |-> i, answered |-> FALSE,
                         sent |-> -ReflectInterval, observed |-> Invalid("IPv4")]],
         reflexive |-> <<>>]

\* GenerateGuid makes the nonces of two gathers differ.
StaleNonce == 0

Owns(from) ==
    \E i \in 1..Len(probe.targets) :
        ~probe.targets[i].answered /\ SameAddress(probe.targets[i].reflector, from)

Due(i) ==
    /\ ~probe.targets[i].answered
    /\ gatherClock - probe.targets[i].sent >= ReflectInterval

Done ==
    \/ gatherClock >= surroundings.timeout
    \/ \A i \in 1..Len(probe.targets) : probe.targets[i].answered

NatType ==
    ClassifyNat(SelectSeq(probe.targets, LAMBDA t : t.answered))

\* Agent::CollectGather: reflexive first, then the host's own addresses, then
\* guesses, without repetition and up to the limit.
CollectGather ==
    LET AddNew(cs, c) == IF Len(cs) < MaxCandidates /\ ~ContainsAddress(cs, c.address)
                         THEN Append(cs, c) ELSE cs
        guesses == IF NatType = "AddressDependent"
                   THEN PredictedPorts(probe.reflexive, PredictedPortCount) ELSE <<>>
    IN  [done   |-> TRUE,
         result |-> IF probe.targets = <<>> \/ probe.reflexive # <<>> THEN "Success" ELSE "Timeout",
         nat    |-> NatType,
         candidates |-> FoldLeft(AddNew, probe.reflexive,
                            LocalCandidates(surroundings.interfaces, Socket.port) \o guesses)]

-----------------------------------------------------------------------------
GatherInit ==
    /\ surroundings \in GatherPlans
    /\ probe = NewProbe(surroundings.reflectors)
    /\ nat = [ports |-> <<>>, next |-> surroundings.first]
    /\ air = surroundings.late
    /\ throttles = [r \in ToSet(surroundings.reflectors) |-> <<>>]
    /\ gatherClock = 0
    /\ spent = [losses |-> 0, between |-> 0, after |-> 0]
    /\ collected = [done |-> FALSE]

\* Agent::TickGathers: the probe sends what is due; a finished one is answered.
TickGather ==
    LET due == {i \in 1..Len(probe.targets) : Due(i)}
    IN  /\ ~collected.done
        /\ due # {} \/ Done
        /\ air' = air \cup {[kind |-> "Reflect", peer |-> probe.targets[i].reflector,
                             nonce |-> probe.targets[i].nonce] : i \in due}
        /\ probe' = [probe EXCEPT !.targets = [i \in DOMAIN @ |->
                        IF i \in due THEN [@[i] EXCEPT !.sent = gatherClock] ELSE @[i]]]
        /\ collected' = IF Done THEN CollectGather ELSE collected
        /\ UNCHANGED <<surroundings, nat, throttles, gatherClock, spent>>

\* The key under which the NAT holds a flow of this socket.
Flow(to) ==
    CASE surroundings.nat = "independent" -> <<>>
      [] surroundings.nat = "address"     -> HostKey(to)
      [] surroundings.nat = "port"        -> Append(HostKey(to), to.port)

\* Once the callback ran, what is still on its way concerns no probe.
\*
\* A probe passes the NAT and reaches its reflector; Reflector::OnReflect
\* answers with the source it saw, unless the probe is short or one too many.
OnReflect(d) ==
    LET through == surroundings.nat # "none"
        new     == through /\ Flow(d.peer) \notin DOMAIN nat.ports
        port    == IF new THEN nat.next ELSE nat.ports[Flow(d.peer)]
        seen    == IF through THEN InetAddressIPv4(ExternalHost, port) ELSE Socket
        answer  == Admit(surroundings.throttle, throttles[d.peer], seen, gatherClock)
        heard   == surroundings.size >= ReflectSize
    IN  /\ ~collected.done
        /\ d \in air /\ d.kind = "Reflect"
        /\ nat' = IF new THEN [ports |-> [f \in DOMAIN nat.ports \cup {Flow(d.peer)} |->
                                             IF f \in DOMAIN nat.ports THEN nat.ports[f] ELSE port],
                               next  |-> nat.next + surroundings.stride]
                  ELSE nat
        /\ spent' = IF new THEN [spent EXCEPT !.between = @ + spent.after, !.after = 0] ELSE spent
        /\ throttles' = IF heard THEN [throttles EXCEPT ![d.peer] = answer.sources] ELSE throttles
        /\ air' = (air \ {d}) \cup
                  (IF heard /\ answer.verdict = "Allow"
                   THEN {[kind |-> "Reflected", peer |-> d.peer, nonce |-> d.nonce, observed |-> seen]}
                   ELSE {})
        /\ UNCHANGED <<surroundings, probe, gatherClock, collected>>

\* Whatever comes from a reflector still asked is taken for its answer.
Answers_AnyNonce(i, d) ==
    /\ ~probe.targets[i].answered
    /\ SameAddress(probe.targets[i].reflector, d.peer)

Answers(i, d) ==
    /\ ~probe.targets[i].answered
    /\ probe.targets[i].nonce = d.nonce
    /\ SameAddress(probe.targets[i].reflector, d.peer)

\* DrainSocket, HandleOffline and ReflectProbe::OnDatagram: the first target
\* the answer fits.  The datagram may arrive again.
OnReflected(d) ==
    LET fits == {i \in 1..Len(probe.targets) : Answers(i, d)}
    IN  /\ d \in air /\ d.kind = "Reflected"
        /\ ~collected.done
        /\ Owns(d.peer) /\ d.observed.valid /\ fits # {}
        /\ probe' =
             [targets   |-> [probe.targets EXCEPT ![Min(fits)].answered = TRUE,
                                                  ![Min(fits)].observed = d.observed],
              reflexive |-> IF ContainsAddress(probe.reflexive, d.observed) THEN probe.reflexive
                            ELSE Append(probe.reflexive, Reflexive(d.observed))]
        /\ UNCHANGED <<surroundings, nat, air, throttles, gatherClock, spent, collected>>

DropDatagram(d) ==
    /\ ~collected.done
    /\ spent.losses < surroundings.losses
    /\ air' = air \ {d}
    /\ spent' = [spent EXCEPT !.losses = @ + 1]
    /\ UNCHANGED <<surroundings, probe, nat, throttles, gatherClock, collected>>

\* Another flow of the same NAT takes its next port.
OtherFlow ==
    /\ nat.ports # <<>>
    /\ spent.between + spent.after < surroundings.flows
    /\ nat' = [nat EXCEPT !.next = @ + surroundings.stride]
    /\ spent' = [spent EXCEPT !.after = @ + 1]
    /\ UNCHANGED <<surroundings, probe, air, throttles, gatherClock, collected>>

\* The agent's thread ticks more often than anything here falls due.
GatherElapse ==
    /\ ~collected.done /\ ~Done
    /\ \A i \in 1..Len(probe.targets) : ~Due(i)
    /\ gatherClock' = gatherClock + 1
    /\ UNCHANGED <<surroundings, probe, nat, air, throttles, spent, collected>>

GatherNext ==
    \/ TickGather
    \/ \E d \in air : OnReflect(d) \/ OnReflected(d) \/ DropDatagram(d)
    \/ OtherFlow \/ GatherElapse

-----------------------------------------------------------------------------
(* "EndpointIndependent", "AddressDependent" or "Unknown" (gather.h:63): the
   verdict a gather reports is the truth about the NAT in front of the
   socket, whichever answers were lost, repeated, late or from an earlier
   gather; it is Unknown only when no two hosts answered. *)
VerdictTrue ==
    collected.done =>
        /\ collected.nat = "EndpointIndependent" => surroundings.nat \in {"none", "independent"}
        /\ collected.nat = "AddressDependent"    => surroundings.nat \in {"address", "port"}
        /\ collected.nat = "Unknown" =>
             Cardinality({HostKey(t.reflector) : t \in {u \in ToSet(probe.targets) : u.answered}}) < 2

(* Every reflexive candidate a reflector reported is a mapping the NAT holds
   for this socket, and no candidate is offered twice or past the limit; the
   ones without a NAT in between collapse into the socket's own address. *)
CandidatesHold ==
    collected.done =>
        LET cs    == collected.candidates
            held  == IF surroundings.nat = "none" THEN {Socket}
                     ELSE {InetAddressIPv4(ExternalHost, nat.ports[f]) : f \in DOMAIN nat.ports}
        IN  /\ ToSet(probe.reflexive) \subseteq {Reflexive(a) : a \in held}
            /\ Len(cs) <= MaxCandidates
            /\ \A i, j \in 1..Len(cs) : SameAddress(cs[i].address, cs[j].address) => i = j
            /\ cs # <<>>

(* "if its mapping advances sequentially the next ports are guessable, so
   offer those too" (agent.cc:313): behind a NAT that gives every destination
   the next port, a gather in which every reflector answered offers the port
   the next destination will get, although up to PredictedPortCount - 1 other
   flows took ports since. *)
PredictionMeetsNext ==
    (/\ collected.done /\ collected.nat = "AddressDependent"
     /\ \A t \in ToSet(probe.targets) : t.answered
     /\ spent.between = 0 /\ spent.after < PredictedPortCount
     /\ surroundings.stride <= MaxPortStride /\ nat.next <= MaxPort
     /\ Len(collected.candidates) < MaxCandidates)
    => ContainsAddress(collected.candidates, InetAddressIPv4(ExternalHost, nat.next))

(* What a gather reports of the socket's surroundings is true: its candidates,
   the verdict on the NAT and the ports it predicts (ClassifyNat and
   PredictedPorts of gather.cc, CollectGather of agent.cc). *)
GatheredTruth == VerdictTrue /\ CandidatesHold /\ PredictionMeetsNext
=============================================================================
