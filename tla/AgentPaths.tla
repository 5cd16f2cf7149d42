----------------------------- MODULE AgentPaths -----------------------------
(***************************************************************************)
(* How the sessions of p2p agents survive a change of address              *)
(* (p2p/agent.cc: Rebind, ApplyPendingRebind, DrainSocket, ChallengeNewPath,*)
(* AnswerPathChallenge, CompletePathMigration; the transport's             *)
(* MigratePeer, MigrateSocket and ApplyPendingMigration).  A hub has one   *)
(* direct session with each peer; enable_connection_migration is on at     *)
(* both ends.  Every end has one socket, and an address is one end's at a  *)
(* time, but may become another's later.  The network delays, reorders and *)
(* repeats datagrams, and loses those to an address nobody has.            *)
(***************************************************************************)
EXTENDS Integers, FiniteSets, FiniteSetsExt

CONSTANTS
    Hub, Peers,
    Places,                 \* the addresses, numbers
    StartsAt,               \* where each end is when the sessions are up
    Movers,                 \* the plans: sets of ends that may move
    MaxMoves

Everybody == {Hub} \cup Peers

ASSUME PathsAssumption ==
    /\ Hub \notin Peers /\ IsFiniteSet(Peers) /\ MaxMoves \in Nat
    /\ StartsAt \in [Everybody -> Places]
    /\ \A a, b \in Everybody : StartsAt[a] = StartsAt[b] => a = b

VARIABLES
    movers,                 \* the plan
    at,                     \* socket_ of each end, as its address
    rebind,                 \* pending_rebind_: a set of at most one address
    table,                  \* routes_: per end, address -> the end whose session it is
    sends,                  \* transports: <<end, remote>> -> [to, next, from, nextFrom]
    flying,                 \* datagrams in flight: [kind, from, to, cid, path]
    moved                   \* how often somebody moved

pathsVars == <<movers, at, rebind, table, sends, flying, moved>>

Links == {<<Hub, p>> : p \in Peers} \cup {<<p, Hub>> : p \in Peers}

PathsInit ==
    /\ movers \in Movers
    /\ at = StartsAt
    /\ rebind = [e \in Everybody |-> {}]
    /\ table = [e \in Everybody |-> LET others == {l[2] : l \in {k \in Links : k[1] = e}}
                               IN  [a \in {StartsAt[o] : o \in others} |->
                                       CHOOSE o \in others : StartsAt[o] = a]]
    /\ sends = [l \in Links |-> [to |-> StartsAt[l[2]], next |-> {},
                                 from |-> StartsAt[l[1]], nextFrom |-> {}]]
    /\ flying = {} /\ moved = 0

\* Agent::Rebind, on a caller's thread: a bound socket waits for the agent's.
Rebind(e, a) ==
    /\ e \in movers /\ moved < MaxMoves
    /\ a \notin {at[f] : f \in Everybody} \cup UNION {rebind[f] : f \in Everybody}
    /\ rebind' = [rebind EXCEPT ![e] = {a}]
    /\ moved' = moved + 1
    /\ UNCHANGED <<movers, at, table, sends, flying>>

\* Only the socket changes hands.
ApplyPendingRebind_SocketOnly(e) ==
    /\ rebind[e] # {}
    /\ rebind' = [rebind EXCEPT ![e] = {}]
    /\ at' = [at EXCEPT ![e] = Max(rebind[e])]
    /\ UNCHANGED <<movers, table, sends, flying, moved>>

\* Every session's transport is given the new socket, and the agent reads it.
ApplyPendingRebind(e) ==
    /\ rebind[e] # {}
    /\ rebind' = [rebind EXCEPT ![e] = {}]
    /\ at' = [at EXCEPT ![e] = Max(rebind[e])]
    /\ sends' = [l \in Links |-> IF l[1] = e THEN [sends[l] EXCEPT !.nextFrom = rebind[e]] ELSE sends[l]]
    /\ UNCHANGED <<movers, table, flying, moved>>

\* ProcessSessions: the transport applies what was handed to it, then sends.
ProcessSession(l) ==
    LET s   == sends[l]
        now == [to   |-> IF s.next = {} THEN s.to ELSE Max(s.next), next |-> {},
                from |-> IF s.nextFrom = {} THEN s.from ELSE Max(s.nextFrom), nextFrom |-> {}]
    IN  /\ sends' = [sends EXCEPT ![l] = now]
        /\ flying' = flying \cup {[kind |-> "data", from |-> now.from, to |-> now.to,
                                   cid |-> l[1], path |-> now.from]}
        /\ UNCHANGED <<movers, at, rebind, table, moved>>

\* ChallengeNewPath: the cookie is computed over the address it is sent to.
Challenge(e, d) ==
    IF \E a \in DOMAIN table[e] : table[e][a] = d.cid
    THEN {[kind |-> "challenge", from |-> at[e], to |-> d.from, cid |-> d.cid, path |-> d.from]}
    ELSE {}

\* AnswerPathChallenge: of a connection of this end's, as it came.
Answer(e, d) ==
    IF d.cid = e
    THEN {[kind |-> "response", from |-> at[e], to |-> d.from, cid |-> d.cid, path |-> d.path]}
    ELSE {}

\* The cookie is the one made for the address the response comes from.
Proven(d) == d.path = d.from

\* CompletePathMigration: the route moves, and the transport will follow.
Migrates(e, d) ==
    /\ Proven(d)
    /\ \E a \in DOMAIN table[e] : table[e][a] = d.cid

\* One datagram of DrainSocket.  One from a route is the session's, except a
\* challenge; from elsewhere a response or a known connection id counts, and
\* what remains is HandleOffline's and concerns no session.
DrainSocket(e, d) ==
    LET known == d.from \in DOMAIN table[e]
        old   == CHOOSE a \in DOMAIN table[e] : table[e][a] = d.cid
        moves == ~known /\ d.kind = "response" /\ Migrates(e, d)
    IN  /\ d.to = at[e]
        /\ flying' = flying \cup
             (CASE known /\ d.kind = "challenge" -> Answer(e, d)
                [] ~known /\ d.kind = "data"     -> Challenge(e, d)
                [] OTHER                         -> {})
        /\ table' = IF moves
                    THEN [table EXCEPT ![e] = [a \in (DOMAIN @ \ {old}) \cup {d.from} |->
                                                  IF a = d.from THEN d.cid ELSE @[a]]]
                    ELSE table
        /\ sends' = IF moves THEN [sends EXCEPT ![<<e, d.cid>>].next = {d.from}] ELSE sends
        /\ UNCHANGED <<movers, at, rebind, moved>>

\* A datagram leaves the network: to nobody, or for good.
Vanish(d) ==
    /\ flying' = flying \ {d}
    /\ UNCHANGED <<movers, at, rebind, table, sends, moved>>

PathsNext ==
    \/ \E e \in Everybody : ApplyPendingRebind(e) \/ \E a \in Places : Rebind(e, a)
    \/ \E l \in Links : ProcessSession(l)
    \/ \E d \in flying : Vanish(d) \/ \E e \in Everybody : DrainSocket(e, d)

\* The datagrams of each kind that were sent from where an end is now.
Current(kind) == {d \in flying : d.kind = kind /\ \E e \in Everybody : at[e] = d.from}

Stale == {d \in flying : \A e \in Everybody : at[e] # d.from}

\* The agents' threads keep ticking; a datagram sent again and again arrives
\* again and again; one sent from an abandoned address is not repeated forever.
PathsFair ==
    /\ \A e \in Everybody : WF_pathsVars(ApplyPendingRebind(e))
    /\ \A l \in Links : WF_pathsVars(ProcessSession(l))
    /\ WF_pathsVars(\E d \in Stale : Vanish(d))
    /\ \A kind \in {"data", "challenge", "response"} :
           SF_pathsVars(\E d \in Current(kind), e \in Everybody : DrainSocket(e, d))

-----------------------------------------------------------------------------
(* "it binds a fresh socket and lets each peer re-path by the connection id"
   (agent.h:146): when one side of a session moves, any number of times and
   back to an address it has left, every route ends up at the place where
   its peer is, and every transport sends from and to the right sockets. *)
SessionsFollow ==
    <>[](\A l \in Links : /\ sends[l].to = at[l[2]] /\ sends[l].from = at[l[1]]
                          /\ at[l[2]] \in DOMAIN table[l[1]] /\ table[l[1]][at[l[2]]] = l[2])
=============================================================================
