-------------------------------- MODULE Relay --------------------------------
(***************************************************************************)
(* The relay half of a traversal server and the server's life around it    *)
(* (p2p/traversal_server.h, traversal_server.cc).  A broker's threads      *)
(* allocate and free pairings, the server's loop binds, forwards and       *)
(* expires, and another thread stops and starts the server; relay.mutex_   *)
(* makes each of their steps atomic.  Datagrams of any peer reach the loop *)
(* in any order and any number of times.  The loop's receive times out     *)
(* once per unit of time.                                                  *)
(***************************************************************************)
EXTENDS Integers, FiniteSets, FiniteSetsExt

CONSTANTS
    Endpoints,              \* the addresses datagrams come from
    MaxAllocations,         \* RelayConfig::max_allocations
    MaxRelayChannel,        \* kZDTMaxRelayChannel
    BindTimeout, IdleTimeout,
    MaxTokens,              \* bound on allocations
    MaxRelayStarts, MaxRelayClock

None == "none"              \* a slot nobody bound

ASSUME RelayAssumption ==
    /\ None \notin Endpoints
    /\ MaxAllocations \in Nat /\ MaxRelayChannel \in Nat
    /\ MaxAllocations < MaxRelayChannel
    /\ {BindTimeout, IdleTimeout, MaxTokens, MaxRelayStarts, MaxRelayClock} \subseteq Nat

VARIABLES
    relay,                  \* [running, pairings, byToken, next]
    server,                 \* [running, stop, starts]: TraversalServer, and where Stop() is
    loop,                   \* [on, swept, fresh]: the thread, last_sweep, whether it ran
                            \* since time last moved
    relayClock,
    issued,                 \* tokens handed out
    binds,                  \* <<token, endpoint>> of every bind accepted
    forwarded               \* the datagram the last step passed on: [from, to, token]

relayVars == <<relay, server, loop, relayClock, issued, binds, forwarded>>

Channels == DOMAIN relay.pairings

FullyBound(p) == p.slots[1] # None /\ p.slots[2] # None

RelayInit ==
    /\ relay = [running |-> FALSE, pairings |-> <<>>, byToken |-> <<>>, next |-> 1]
    /\ server = [running |-> FALSE, stop |-> "idle", starts |-> 0]
    /\ loop = [on |-> FALSE, swept |-> 0, fresh |-> TRUE]
    /\ relayClock = 0 /\ issued = 0 /\ binds = {} /\ forwarded = {}

Put(f, x, y) == [z \in DOMAIN f \cup {x} |-> IF z = x THEN y ELSE f[z]]

Without(f, S) == [z \in DOMAIN f \ S |-> f[z]]

-----------------------------------------------------------------------------
(* Relay *)

After(channel) == IF channel = MaxRelayChannel THEN 1 ELSE channel + 1

\* The walk to the next free channel; the limit on pairings leaves one.
FreeFrom(channel) ==
    LET Distance(c) == (c - channel) % MaxRelayChannel
    IN  CHOOSE c \in 1..MaxRelayChannel :
            /\ c \notin Channels
            /\ \A d \in (1..MaxRelayChannel) \ Channels : Distance(c) <= Distance(d)

\* Relay::Allocate.  GenerateGuid gives a token never used before.
Allocate ==
    LET channel == FreeFrom(relay.next)
        token   == issued + 1
    IN  /\ issued < MaxTokens
        /\ relay.running
        /\ Cardinality(Channels) < MaxAllocations
        /\ relay' = [relay EXCEPT
               !.next = After(channel),
               !.byToken = Put(@, token, channel),
               !.pairings = Put(@, channel, [token |-> token, slots |-> <<None, None>>,
                                             created |-> relayClock, last |-> relayClock])]
        /\ issued' = token
        /\ forwarded' = {} /\ UNCHANGED <<server, loop, relayClock, binds>>

\* Release: both tables forget the pairings.  The mutant leaves the tokens.
Release_KeepsToken(r, channels) == [r EXCEPT !.pairings = Without(@, channels)]

Release(r, channels) ==
    [r EXCEPT !.byToken  = Without(@, {r.pairings[c].token : c \in channels}),
              !.pairings = Without(@, channels)]

\* Relay::Free.
FreePairing(channel) ==
    /\ channel \in Channels
    /\ relay' = Release(relay, {channel})
    /\ forwarded' = {} /\ UNCHANGED <<server, loop, relayClock, issued, binds>>

\* The slot a source holds, or 0.
SlotOf(p, from) ==
    IF p.slots[1] = from THEN 1 ELSE IF p.slots[2] = from THEN 2 ELSE 0

\* The slot a bind gets: the one it holds, else a free one, else none.
BindSlot(p, from) ==
    IF SlotOf(p, from) # 0 THEN SlotOf(p, from)
    ELSE IF p.slots[1] = None THEN 1 ELSE IF p.slots[2] = None THEN 2 ELSE 0

\* Relay::OnBind: what a bind with this token leaves of the relay.
Bound(r, token, from) ==
    LET channel == r.byToken[token]
        pairing == r.pairings[channel]
        slot    == BindSlot(pairing, from)
    IN  IF token \notin DOMAIN r.byToken THEN r
        ELSE IF slot = 0 THEN r
        ELSE [r EXCEPT !.pairings[channel] = [pairing EXCEPT !.slots[slot] = from,
                                                             !.last = relayClock]]

\* Relay::OnForward finds somebody to forward to.
Forwards(r, channel, from) ==
    /\ channel \in DOMAIN r.pairings
    /\ SlotOf(r.pairings[channel], from) # 0
    /\ FullyBound(r.pairings[channel])

\* Any traffic keeps a pairing.
Expired_AnyTraffic(p, now) ==
    now - p.last > IF FullyBound(p) THEN IdleTimeout ELSE BindTimeout

\* Bound pairings end idle, the others on their age.
Expired(p, now) ==
    IF FullyBound(p) THEN now - p.last > IdleTimeout ELSE now - p.created > BindTimeout

Expire(r, now) == Release(r, {c \in DOMAIN r.pairings : Expired(r.pairings[c], now)})

-----------------------------------------------------------------------------
(* TraversalServer *)

\* Start: the relay accepts allocations before the loop's thread runs.
StartServer ==
    /\ ~server.running /\ server.stop = "idle"
    /\ server.starts < MaxRelayStarts
    /\ relay' = [relay EXCEPT !.running = TRUE]
    /\ server' = [server EXCEPT !.running = TRUE, !.starts = @ + 1]
    /\ loop' = [on |-> TRUE, swept |-> relayClock, fresh |-> FALSE]
    /\ forwarded' = {} /\ UNCHANGED <<relayClock, issued, binds>>

\* The end of an iteration of Loop: the sweep, when one is due.
Sweeps(r) ==
    /\ relay' = IF relayClock - loop.swept >= 1 THEN Expire(r, relayClock) ELSE r
    /\ loop' = [loop EXCEPT !.swept = IF relayClock - @ >= 1 THEN relayClock ELSE @, !.fresh = TRUE]
    /\ UNCHANGED <<server, relayClock, issued>>

\* Loop receives nothing, a probe for the reflector, or what nobody knows.
LoopOther ==
    /\ loop.on
    /\ Sweeps(relay)
    /\ forwarded' = {} /\ UNCHANGED binds

\* A third address takes the place of the first.
LoopBind_Evicts(token, from) ==
    /\ loop.on
    /\ token \in DOMAIN relay.byToken
    /\ Sweeps([relay EXCEPT !.pairings[relay.byToken[token]].slots[1] = from])
    /\ binds' = binds \cup {<<token, from>>}
    /\ forwarded' = {}

LoopBind(token, from) ==
    /\ loop.on
    /\ Sweeps(Bound(relay, token, from))
    /\ binds' = IF token \in DOMAIN relay.byToken
                   /\ BindSlot(relay.pairings[relay.byToken[token]], from) # 0
                THEN binds \cup {<<token, from>>} ELSE binds
    /\ forwarded' = {}

LoopForward(channel, from) ==
    LET pairing == relay.pairings[channel]
    IN  /\ loop.on
        /\ Forwards(relay, channel, from)
        /\ forwarded' = {[from |-> from, to |-> pairing.slots[3 - SlotOf(pairing, from)],
                          token |-> pairing.token]}
        /\ Sweeps([relay EXCEPT !.pairings[channel].last = relayClock])
        /\ UNCHANGED binds

\* Stop: the flag, the loop joined, then Relay::Stop in its two steps, then
\* the socket.
StopServer ==
    /\ server.running
    /\ server' = [server EXCEPT !.running = FALSE, !.stop = "join"]
    /\ forwarded' = {} /\ UNCHANGED <<relay, loop, relayClock, issued, binds>>

StopJoined ==
    /\ server.stop = "join"
    /\ loop' = [loop EXCEPT !.on = FALSE]
    /\ server' = [server EXCEPT !.stop = "relay"]
    /\ forwarded' = {} /\ UNCHANGED <<relay, relayClock, issued, binds>>

\* The relay goes on handing out pairings until it is empty.
RelayStops_Late ==
    /\ server.stop = "relay"
    /\ server' = [server EXCEPT !.stop = "clear"]
    /\ forwarded' = {} /\ UNCHANGED <<relay, loop, relayClock, issued, binds>>

RelayStops ==
    /\ server.stop = "relay"
    /\ relay' = [relay EXCEPT !.running = FALSE]
    /\ server' = [server EXCEPT !.stop = "clear"]
    /\ forwarded' = {} /\ UNCHANGED <<loop, relayClock, issued, binds>>

RelayClears ==
    /\ server.stop = "clear"
    /\ relay' = [relay EXCEPT !.pairings = <<>>, !.byToken = <<>>]
    /\ server' = [server EXCEPT !.stop = "idle"]
    /\ forwarded' = {} /\ UNCHANGED <<loop, relayClock, issued, binds>>

RelayElapse ==
    /\ relayClock < MaxRelayClock
    /\ loop.on => loop.fresh
    /\ relayClock' = relayClock + 1
    /\ loop' = [loop EXCEPT !.fresh = FALSE]
    /\ forwarded' = {} /\ UNCHANGED <<relay, server, issued, binds>>

RelayNext ==
    \/ Allocate \/ \E channel \in Channels : FreePairing(channel)
    \/ StartServer \/ StopServer \/ StopJoined \/ RelayStops \/ RelayClears
    \/ LoopOther \/ RelayElapse
    \/ \E from \in Endpoints :
           \/ \E token \in 1..issued : LoopBind(token, from)
           \/ \E channel \in Channels : LoopForward(channel, from)

RelaySpec == RelayInit /\ [][RelayNext]_relayVars

-----------------------------------------------------------------------------
(* "exactly two sources per pairing (a third is refused), nothing forwarded
   from a source that did not bind that pairing" (traversal_server.h:144):
   whatever is forwarded goes from one address that bound a token to the other
   that bound the same one, across expiry, Free(), restarts and a channel
   number that is given out again, and no token is ever bound by three. *)
RelayedToPartner ==
    /\ \A f \in forwarded : f.from # f.to /\ {<<f.token, f.from>>, <<f.token, f.to>>} \subseteq binds
    /\ \A token \in 1..issued : Cardinality({e \in Endpoints : <<token, e>> \in binds}) <= 2

(* The two tables name each other, never hold more than max_allocations, and
   are empty once Stop() returned, although Allocate() may be called from any
   thread at any moment of it: OnBind indexes one table by what it finds in
   the other. *)
RelayTables ==
    /\ Channels = {relay.byToken[t] : t \in DOMAIN relay.byToken}
    /\ \A t \in DOMAIN relay.byToken : relay.pairings[relay.byToken[t]].token = t
    /\ Cardinality(Channels) <= MaxAllocations
    /\ ~server.running /\ server.stop = "idle" => Channels = {}

(* "allocations that nobody binds or that go idle freed on their timers"
   (traversal_server.h:147): while the loop runs no pairing outlives its timer
   by more than one sweep, however often one side alone repeats its bind. *)
FreedOnTime ==
    server.running =>
        \A c \in Channels :
            LET p == relay.pairings[c]
            IN  IF FullyBound(p) THEN relayClock - p.last <= IdleTimeout + 1
                ELSE relayClock - p.created <= BindTimeout + 1

(* A pairing is of two, in step in both tables, and ends on time
   (traversal_server.cc's Allocate, OnBind, OnForward, Expire, Free and Stop). *)
PairingsSound == RelayedToPartner /\ RelayTables /\ FreedOnTime
=============================================================================
