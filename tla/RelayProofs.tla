----------------------------- MODULE RelayProofs -----------------------------
(***************************************************************************)
(* What the relay forwards, holds and frees, proved for any endpoints,      *)
(* limits and timers.                                                       *)
(***************************************************************************)
EXTENDS Relay, FiniteSetTheorems, WellFoundedInduction, TLAPS

\* Maps from some members of S to members of T.
Tables(S, T) == UNION {[D -> T] : D \in SUBSET S}

ChannelNumbers == 1..MaxRelayChannel

Pairings == [token : Nat, slots : [1..2 -> Endpoints \cup {None}], created : Nat, last : Nat]

Relays == [running : BOOLEAN, pairings : Tables(ChannelNumbers, Pairings),
           byToken : Tables(Nat, ChannelNumbers), next : Nat]

RelayType ==
  /\ relay \in Relays
  /\ server \in [running : BOOLEAN, stop : {"idle", "join", "relay", "clear"}, starts : Nat]
  /\ loop \in [on : BOOLEAN, swept : Nat, fresh : BOOLEAN]
  /\ relayClock \in Nat /\ issued \in Nat
  /\ binds \subseteq (1..issued) \X Endpoints

\* Each table leads back from the other, and holds tokens that were handed out.
InStep(r, n) ==
  /\ \A t \in DOMAIN r.byToken :
       /\ t \in 1..n
       /\ r.byToken[t] \in DOMAIN r.pairings /\ r.pairings[r.byToken[t]].token = t
  /\ \A c \in DOMAIN r.pairings :
       r.pairings[c].token \in DOMAIN r.byToken /\ r.byToken[r.pairings[c].token] = c

\* The slots of a pairing are the addresses that bound its token, and differ.
SlotsAreBinds(r, bound) ==
  \A c \in DOMAIN r.pairings :
    LET p == r.pairings[c]
    IN  /\ p.slots[1] = p.slots[2] => p.slots[1] = None
        /\ \A e \in Endpoints : <<p.token, e>> \in bound <=> e \in {p.slots[1], p.slots[2]}

HoldsSound(r, bound, n) == r \in Relays /\ InStep(r, n) /\ SlotsAreBinds(r, bound)

\* No token has more than two.
TwoBinders(bound, n) ==
  \A t \in 1..n : \E x, y : \A e \in Endpoints : <<t, e>> \in bound => e \in {x, y}

\* What is passed on goes between two that bound one token.
BetweenPartners ==
  \A f \in forwarded : f.from # f.to /\ {<<f.token, f.from>>, <<f.token, f.to>>} \subseteq binds

\* The loop swept less than a unit of time ago, and left nothing expired.
Swept(r) ==
  loop.on =>
    /\ loop.swept <= relayClock /\ relayClock <= loop.swept + 1
    /\ loop.fresh => relayClock = loop.swept
    /\ \A c \in DOMAIN r.pairings : ~Expired(r.pairings[c], loop.swept)

\* Where Stop() is tells what runs and what is left.
Stages ==
  /\ server.running => server.stop = "idle"
  /\ loop.on <=> server.running \/ server.stop = "join"
  /\ relay.running <=> server.running \/ server.stop \in {"join", "relay"}
  /\ ~server.running /\ server.stop = "idle" => Channels = {}

RelayInv ==
  /\ RelayType
  /\ HoldsSound(relay, binds, issued) /\ TwoBinders(binds, issued)
  /\ BetweenPartners /\ Swept(relay) /\ Stages /\ Cardinality(Channels) <= MaxAllocations
-----------------------------------------------------------------------------
(* The tables *)

\* A table is a function on some of its possible keys (pairings_, by_token_).
LEMMA TableFacts ==
  ASSUME NEW S, NEW T, NEW f
  PROVE  f \in Tables(S, T) <=> f \in [DOMAIN f -> T] /\ DOMAIN f \subseteq S
<1>1. f \in Tables(S, T) => f \in [DOMAIN f -> T] /\ DOMAIN f \subseteq S
  BY DEF Tables
<1>2. f \in [DOMAIN f -> T] /\ DOMAIN f \subseteq S => f \in Tables(S, T)
  BY DEF Tables
<1> QED
  BY <1>1, <1>2

\* An empty table maps nothing (pairings_, by_token_).
LEMMA EmptyTable == \A S, T : <<>> \in Tables(S, T) /\ DOMAIN <<>> = {}
<1>1. DOMAIN <<>> = {}
  OBVIOUS
<1>2. \A S, T : <<>> \in [{} -> T] /\ {} \in SUBSET S
  OBVIOUS
<1> QED
  BY Zenon, <1>1, <1>2 DEF Tables

\* Put and Without: what they hold, and that they stay tables.
LEMMA PutFacts ==
  ASSUME NEW S, NEW T, NEW f \in Tables(S, T), NEW x \in S, NEW y \in T
  PROVE  /\ Put(f, x, y) \in Tables(S, T) /\ DOMAIN Put(f, x, y) = DOMAIN f \cup {x}
         /\ Put(f, x, y)[x] = y
         /\ \A z \in DOMAIN f \ {x} : Put(f, x, y)[z] = f[z]
<1>1. f \in [DOMAIN f -> T] /\ DOMAIN f \subseteq S
  BY TableFacts
<1>2. /\ DOMAIN Put(f, x, y) = DOMAIN f \cup {x} /\ Put(f, x, y)[x] = y
      /\ \A z \in DOMAIN f \ {x} : Put(f, x, y)[z] = f[z]
  BY DEF Put
<1>3. Put(f, x, y) \in [DOMAIN f \cup {x} -> T]
  BY <1>1 DEF Put
<1>4. DOMAIN f \cup {x} \in SUBSET S
  BY <1>1
<1> QED
  BY Zenon, <1>2, <1>3, <1>4 DEF Tables

\* Without(table, keys) is the table but for those keys (erase).
LEMMA WithoutFacts ==
  ASSUME NEW S, NEW T, NEW f \in Tables(S, T), NEW X
  PROVE  /\ Without(f, X) \in Tables(S, T) /\ DOMAIN Without(f, X) = DOMAIN f \ X
         /\ \A z \in DOMAIN f \ X : Without(f, X)[z] = f[z]
<1>1. f \in [DOMAIN f -> T] /\ DOMAIN f \subseteq S
  BY TableFacts
<1>2. /\ DOMAIN Without(f, X) = DOMAIN f \ X
      /\ \A z \in DOMAIN f \ X : Without(f, X)[z] = f[z]
      /\ Without(f, X) \in [DOMAIN f \ X -> T]
  BY <1>1 DEF Without
<1>3. DOMAIN f \ X \in SUBSET S
  BY <1>1
<1> QED
  BY Zenon, <1>2, <1>3 DEF Tables

\* The fields of a relay, and that each takes any value of its type.
LEMMA RelayFields ==
  ASSUME NEW r \in Relays
  PROVE  /\ r.running \in BOOLEAN /\ r.next \in Nat
         /\ r.pairings \in Tables(ChannelNumbers, Pairings)
         /\ r.byToken \in Tables(Nat, ChannelNumbers)
  BY DEF Relays

\* A record with another pairings_ keeps its other members.
LEMMA SetPairings ==
  ASSUME NEW r \in Relays, NEW p \in Tables(ChannelNumbers, Pairings)
  PROVE  /\ [r EXCEPT !.pairings = p] \in Relays
         /\ [r EXCEPT !.pairings = p].pairings = p
         /\ [r EXCEPT !.pairings = p].byToken = r.byToken
         /\ [r EXCEPT !.pairings = p].running = r.running
         /\ [r EXCEPT !.pairings = p].next = r.next
  BY Zenon DEF Relays

\* A record with another by_token_ keeps its other members.
LEMMA SetByToken ==
  ASSUME NEW r \in Relays, NEW b \in Tables(Nat, ChannelNumbers)
  PROVE  /\ [r EXCEPT !.byToken = b] \in Relays
         /\ [r EXCEPT !.byToken = b].pairings = r.pairings
         /\ [r EXCEPT !.byToken = b].byToken = b
         /\ [r EXCEPT !.byToken = b].running = r.running
         /\ [r EXCEPT !.byToken = b].next = r.next
  BY Zenon DEF Relays

\* A record with another next channel number keeps its other members.
LEMMA SetNext ==
  ASSUME NEW r \in Relays, NEW n \in Nat
  PROVE  /\ [r EXCEPT !.next = n] \in Relays
         /\ [r EXCEPT !.next = n].pairings = r.pairings
         /\ [r EXCEPT !.next = n].byToken = r.byToken
         /\ [r EXCEPT !.next = n].running = r.running
         /\ [r EXCEPT !.next = n].next = n
  BY DEF Relays

\* A record with another running flag keeps its other members.
LEMMA SetRunning ==
  ASSUME NEW r \in Relays, NEW b \in BOOLEAN
  PROVE  /\ [r EXCEPT !.running = b] \in Relays
         /\ [r EXCEPT !.running = b].pairings = r.pairings
         /\ [r EXCEPT !.running = b].byToken = r.byToken
         /\ [r EXCEPT !.running = b].running = b
         /\ [r EXCEPT !.running = b].next = r.next
  BY Zenon DEF Relays

\* Release takes the pairings and their tokens, and nothing else.
LEMMA ReleaseFacts ==
  ASSUME NEW r \in Relays, NEW channels
  PROVE  LET s == Release(r, channels)
             tokens == {r.pairings[c].token : c \in channels}
         IN  /\ s \in Relays /\ s.running = r.running
             /\ DOMAIN s.pairings = DOMAIN r.pairings \ channels
             /\ \A c \in DOMAIN s.pairings : s.pairings[c] = r.pairings[c]
             /\ DOMAIN s.byToken = DOMAIN r.byToken \ tokens
             /\ \A t \in DOMAIN s.byToken : s.byToken[t] = r.byToken[t]
<1> DEFINE tokens == {r.pairings[c].token : c \in channels}
           b == Without(r.byToken, tokens)
           p == Without(r.pairings, channels)
           s == Release(r, channels)
<1>1. s = [[r EXCEPT !.byToken = b] EXCEPT !.pairings = p]
  BY Zenon DEF Release
<1>2. r.byToken \in Tables(Nat, ChannelNumbers) /\ r.pairings \in Tables(ChannelNumbers, Pairings)
  BY Zenon, RelayFields
<1>3. /\ b \in Tables(Nat, ChannelNumbers) /\ DOMAIN b = DOMAIN r.byToken \ tokens
      /\ \A t \in DOMAIN r.byToken \ tokens : b[t] = r.byToken[t]
  <2>1. b \in Tables(Nat, ChannelNumbers)
    BY Zenon, <1>2, WithoutFacts
  <2> QED
    BY <2>1 DEF Without
<1>4. /\ p \in Tables(ChannelNumbers, Pairings) /\ DOMAIN p = DOMAIN r.pairings \ channels
      /\ \A c \in DOMAIN r.pairings \ channels : p[c] = r.pairings[c]
  <2>1. p \in Tables(ChannelNumbers, Pairings)
    BY Zenon, <1>2, WithoutFacts
  <2> QED
    BY <2>1 DEF Without
<1> HIDE DEF b, p, tokens, s
<1> DEFINE q == [r EXCEPT !.byToken = b]
<1>5. q \in Relays /\ q.byToken = b /\ q.running = r.running
  BY <1>3, SetByToken
<1>6. s = [q EXCEPT !.pairings = p]
  BY Zenon, <1>1
<1> HIDE DEF q
<1>7. s \in Relays /\ s.byToken = b /\ s.pairings = p /\ s.running = r.running
  BY <1>4, <1>5, <1>6, SetPairings
<1> QED
  BY <1>3, <1>4, <1>7 DEF tokens, s

\* It stays so without some of its pairings.
LEMMA ReleaseSound ==
  ASSUME NEW r, NEW bound, NEW n, HoldsSound(r, bound, n),
         NEW channels \in SUBSET DOMAIN r.pairings
  PROVE  HoldsSound(Release(r, channels), bound, n)
<1> DEFINE s == Release(r, channels)
           tokens == {r.pairings[c].token : c \in channels}
<1>1. /\ s \in Relays
      /\ DOMAIN s.pairings = DOMAIN r.pairings \ channels
      /\ \A c \in DOMAIN s.pairings : s.pairings[c] = r.pairings[c]
      /\ DOMAIN s.byToken = DOMAIN r.byToken \ tokens
      /\ \A t \in DOMAIN s.byToken : s.byToken[t] = r.byToken[t]
  BY ZenonT(60), ReleaseFacts DEF HoldsSound
<1> HIDE DEF s
<1>2. InStep(r, n) /\ SlotsAreBinds(r, bound)
  BY DEF HoldsSound
<1>3. InStep(s, n)
  <2>1. ASSUME NEW t \in DOMAIN s.byToken
        PROVE  /\ t \in 1..n
               /\ s.byToken[t] \in DOMAIN s.pairings /\ s.pairings[s.byToken[t]].token = t
    BY <1>1, <1>2 DEF InStep
  <2>2. ASSUME NEW c \in DOMAIN s.pairings
        PROVE  s.pairings[c].token \in DOMAIN s.byToken /\ s.byToken[s.pairings[c].token] = c
    <3>1. r.pairings[c].token \in DOMAIN r.byToken /\ r.byToken[r.pairings[c].token] = c
      BY <1>1, <1>2 DEF InStep
    <3>2. \A d \in channels : r.pairings[d].token # r.pairings[c].token
      BY <1>1, <1>2, <3>1 DEF InStep
    <3> QED
      BY <1>1, <3>1, <3>2
  <2> QED
    BY <2>1, <2>2 DEF InStep
<1>4. SlotsAreBinds(s, bound)
  BY <1>1, <1>2 DEF SlotsAreBinds
<1> QED
  BY <1>1, <1>3, <1>4 DEF HoldsSound, s
-----------------------------------------------------------------------------
(* The steps *)

\* The table of pairings is finite: its keys are channel numbers.
LEMMA ChannelsFinite ==
  ASSUME NEW r \in Relays
  PROVE  IsFiniteSet(DOMAIN r.pairings) /\ DOMAIN r.pairings \subseteq ChannelNumbers
<1>1. DOMAIN r.pairings \in SUBSET ChannelNumbers
  BY RelayFields, TableFacts
<1>2. IsFiniteSet(ChannelNumbers)
  BY FS_Interval, RelayAssumption DEF ChannelNumbers
<1> QED
  BY Zenon, <1>1, <1>2, FS_Subset

\* Fewer pairings are within the limit (max_allocations).
LEMMA CardinalityKeeps ==
  ASSUME NEW r \in Relays, Cardinality(DOMAIN r.pairings) <= MaxAllocations,
         NEW S \in SUBSET DOMAIN r.pairings
  PROVE  Cardinality(S) <= MaxAllocations
<1>1. IsFiniteSet(DOMAIN r.pairings)
  BY ChannelsFinite
<1>2. IsFiniteSet(S) /\ Cardinality(S) <= Cardinality(DOMAIN r.pairings)
  BY Zenon, <1>1, FS_Subset
<1>3. Cardinality(S) \in Nat /\ Cardinality(DOMAIN r.pairings) \in Nat
  BY <1>1, <1>2, FS_CardinalityType
<1> QED
  BY <1>2, <1>3, RelayAssumption

\* The end of an iteration of Loop keeps all of it, given what the iteration
\* left in r; and whatever outlived its timer is gone.
LEMMA SweepKeeps ==
  ASSUME RelayInv, loop.on, NEW r, HoldsSound(r, binds', issued), TwoBinders(binds', issued),
         binds' \subseteq (1..issued) \X Endpoints, BetweenPartners',
         r.running = relay.running, DOMAIN r.pairings \subseteq Channels,
         \A c \in DOMAIN r.pairings : ~Expired(r.pairings[c], loop.swept),
         Sweeps(r)
  PROVE  RelayInv'
<1> DEFINE due == relayClock - loop.swept >= 1
           gone == {c \in DOMAIN r.pairings : Expired(r.pairings[c], relayClock)}
<1>1. relay' = (IF due THEN Release(r, gone) ELSE r) /\ UNCHANGED <<server, relayClock, issued>>
  BY Zenon DEF Sweeps, Expire
<1>2. /\ relayClock \in Nat /\ loop.swept \in Nat
      /\ loop \in [on : BOOLEAN, swept : Nat, fresh : BOOLEAN]
      /\ loop.swept <= relayClock /\ relayClock <= loop.swept + 1
  BY DEF RelayInv, RelayType, Swept
<1>3. /\ loop' \in [on : BOOLEAN, swept : Nat, fresh : BOOLEAN]
      /\ loop'.on = loop.on /\ loop'.swept = relayClock
  <2> DEFINE now == IF relayClock - loop.swept >= 1 THEN relayClock ELSE loop.swept
  <2>1. now = relayClock /\ now \in Nat
    BY <1>2
  <2>2. loop' = [loop EXCEPT !.swept = now, !.fresh = TRUE]
    BY Zenon DEF Sweeps
  <2> HIDE DEF now
  <2>3. loop' = [on |-> loop.on, swept |-> now, fresh |-> TRUE]
    BY Zenon, <1>2, <2>2
  <2> QED
    BY Zenon, <1>2, <2>1, <2>3
<1>4. /\ HoldsSound(relay', binds', issued) /\ relay'.running = relay.running
      /\ DOMAIN relay'.pairings \subseteq Channels
      /\ \A c \in DOMAIN relay'.pairings : ~Expired(relay'.pairings[c], relayClock)
  <2>1. CASE due
    <3>1. relay' = Release(r, gone)
      BY <1>1, <2>1
    <3>2. gone \in SUBSET DOMAIN r.pairings
      OBVIOUS
    <3> HIDE DEF gone
    <3>3. HoldsSound(relay', binds', issued)
      BY <3>1, <3>2, ReleaseSound
    <3>4. /\ relay'.running = r.running /\ DOMAIN relay'.pairings = DOMAIN r.pairings \ gone
          /\ \A c \in DOMAIN relay'.pairings : relay'.pairings[c] = r.pairings[c]
      BY <3>1, ReleaseFacts DEF HoldsSound
    <3> QED
      BY <3>3, <3>4 DEF gone
  <2>2. CASE ~due
    <3>1. relay' = r /\ relayClock = loop.swept
      BY <1>1, <1>2, <2>2
    <3> QED
      BY <3>1
  <2> QED
    BY <2>1, <2>2
<1> HIDE DEF due, gone
<1>5. RelayType'
  BY <1>1, <1>3, <1>4 DEF RelayInv, RelayType, HoldsSound
<1>6. Swept(relay)'
  BY <1>1, <1>2, <1>3, <1>4 DEF Swept
<1>7. Stages'
  <2>1. Channels' \subseteq Channels
    BY <1>4 DEF Channels
  <2> QED
    BY Zenon, <1>1, <1>3, <1>4, <2>1 DEF RelayInv, Stages
<1>8. Cardinality(Channels') <= MaxAllocations
  BY <1>4, CardinalityKeeps DEF RelayInv, RelayType, Channels
<1> QED
  BY <1>1, <1>4, <1>5, <1>6, <1>7, <1>8 DEF RelayInv

\* An iteration that changes no pairing.
LEMMA OtherKeeps == ASSUME RelayInv, LoopOther PROVE RelayInv'
<1>1. loop.on /\ Sweeps(relay) /\ forwarded' = {} /\ binds' = binds
  BY DEF LoopOther
<1>2. \A c \in DOMAIN relay.pairings : ~Expired(relay.pairings[c], loop.swept)
  BY Zenon, <1>1 DEF RelayInv, Swept
<1>3. BetweenPartners'
  BY <1>1 DEF BetweenPartners
<1>4. binds \subseteq (1..issued) \X Endpoints
  BY DEF RelayInv, RelayType
<1> QED
  BY <1>1, <1>2, <1>3, <1>4, SweepKeeps DEF RelayInv, Channels

\* What a pairing in the tables is.
LEMMA PairingFacts ==
  ASSUME NEW r \in Relays, NEW c \in DOMAIN r.pairings
  PROVE  /\ c \in ChannelNumbers /\ r.pairings[c] \in Pairings
         /\ r.pairings[c].slots \in [1..2 -> Endpoints \cup {None}]
         /\ r.pairings[c].slots[1] \in Endpoints \cup {None}
         /\ r.pairings[c].slots[2] \in Endpoints \cup {None}
<1>1. r.pairings \in Tables(ChannelNumbers, Pairings)
  BY RelayFields
<1>2. c \in ChannelNumbers /\ r.pairings[c] \in Pairings
  BY <1>1, TableFacts
<1>3. r.pairings[c].slots \in [1..2 -> Endpoints \cup {None}]
  BY <1>2 DEF Pairings
<1> QED
  BY <1>2, <1>3

\* A forwarded datagram goes from one slot to the other, and keeps the pairing.
LEMMA ForwardKeeps ==
  ASSUME RelayInv, NEW channel \in Channels, NEW from \in Endpoints, LoopForward(channel, from)
  PROVE  RelayInv'
<1> DEFINE p == relay.pairings[channel]
           q == [p EXCEPT !.last = relayClock]
           t == [relay.pairings EXCEPT ![channel] = q]
           r == [relay EXCEPT !.pairings = t]
<1>1. /\ loop.on /\ Forwards(relay, channel, from) /\ binds' = binds
      /\ forwarded' = {[from |-> from, to |-> p.slots[3 - SlotOf(p, from)], token |-> p.token]}
      /\ Sweeps([relay EXCEPT !.pairings[channel].last = relayClock])
  BY Zenon DEF LoopForward
<1>2. [relay EXCEPT !.pairings[channel].last = relayClock] = r
  BY Zenon
<1>3. relay \in Relays /\ channel \in DOMAIN relay.pairings /\ relayClock \in Nat
  BY DEF RelayInv, RelayType, Channels
<1>4. /\ channel \in ChannelNumbers /\ p \in Pairings
      /\ p.slots[1] \in Endpoints \cup {None} /\ p.slots[2] \in Endpoints \cup {None}
  BY <1>3, PairingFacts
<1>5. /\ q \in Pairings /\ q.token = p.token /\ q.slots = p.slots /\ q.last = relayClock
      /\ q.created = p.created
  <2> HIDE DEF p
  <2> QED
    BY <1>3, <1>4 DEF Pairings
<1> HIDE DEF q
<1>6. relay.pairings \in [DOMAIN relay.pairings -> Pairings] /\ DOMAIN relay.pairings \subseteq ChannelNumbers
  BY <1>3, RelayFields, TableFacts
<1>7. /\ t \in [DOMAIN relay.pairings -> Pairings] /\ DOMAIN t = DOMAIN relay.pairings
      /\ t[channel] = q /\ \A c \in DOMAIN t \ {channel} : t[c] = relay.pairings[c]
  BY <1>3, <1>5, <1>6
<1> HIDE DEF t
<1>8. t \in Tables(ChannelNumbers, Pairings)
  BY <1>6, <1>7, TableFacts
<1>9. r \in Relays /\ r.pairings = t /\ r.byToken = relay.byToken /\ r.running = relay.running
  BY <1>3, <1>8, SetPairings
<1> HIDE DEF r
<1>10. HoldsSound(r, binds, issued)
  <2>1. InStep(r, issued)
    BY <1>3, <1>5, <1>7, <1>9 DEF RelayInv, HoldsSound, InStep
  <2>2. SlotsAreBinds(r, binds)
    BY <1>3, <1>5, <1>7, <1>9 DEF RelayInv, HoldsSound, SlotsAreBinds
  <2> QED
    BY <1>9, <2>1, <2>2 DEF HoldsSound
<1>11. /\ \A c \in DOMAIN relay.pairings : ~Expired(relay.pairings[c], loop.swept)
       /\ loop.swept \in Nat /\ loop.swept <= relayClock
  BY <1>1 DEF RelayInv, RelayType, Swept
<1>12. FullyBound(p) /\ SlotOf(p, from) # 0
  BY <1>1 DEF Forwards
<1>13. ~Expired(q, loop.swept)
  BY <1>3, <1>5, <1>11, <1>12, RelayAssumption DEF Expired, FullyBound
<1>14. \A c \in DOMAIN r.pairings : ~Expired(r.pairings[c], loop.swept)
  BY <1>7, <1>9, <1>11, <1>13
<1>15. BetweenPartners'
  <2> DEFINE to == p.slots[3 - SlotOf(p, from)]
  <2>1. /\ p.slots[1] # p.slots[2] /\ p.slots[1] # None /\ p.slots[2] # None
        /\ \A e \in Endpoints : <<p.token, e>> \in binds <=> e \in {p.slots[1], p.slots[2]}
    BY SMTT(30), <1>3, <1>12 DEF FullyBound, RelayInv, HoldsSound, SlotsAreBinds
  <2>2. \/ from = p.slots[1] /\ to = p.slots[2]
        \/ from = p.slots[2] /\ to = p.slots[1]
    BY SMTT(30), <1>12, <2>1 DEF SlotOf
  <2>3. from # to /\ to \in Endpoints /\ <<p.token, from>> \in binds /\ <<p.token, to>> \in binds
    BY <1>4, <2>1, <2>2
  <2> QED
    BY <1>1, <2>3 DEF BetweenPartners
<1>16. binds \subseteq (1..issued) \X Endpoints
  BY DEF RelayInv, RelayType
<1>17. Sweeps(r)
  BY <1>1, <1>2 DEF r, t, q
<1> QED
  BY <1>1, <1>7, <1>9, <1>10, <1>14, <1>15, <1>16, <1>17, SweepKeeps DEF RelayInv, Channels

\* A bind takes the slot it holds or a free one, and is refused otherwise: no
\* third address gets in.
LEMMA BindKeeps ==
  ASSUME RelayInv, NEW token \in 1..issued, NEW from \in Endpoints, LoopBind(token, from)
  PROVE  RelayInv'
<1> DEFINE c == relay.byToken[token]
           p == relay.pairings[c]
           slot == BindSlot(p, from)
           taken == token \in DOMAIN relay.byToken /\ slot # 0
<1>1. /\ loop.on /\ Sweeps(Bound(relay, token, from)) /\ forwarded' = {}
      /\ binds' = IF taken THEN binds \cup {<<token, from>>} ELSE binds
  BY Zenon DEF LoopBind
<1>2. BetweenPartners'
  BY <1>1 DEF BetweenPartners
<1>3. /\ binds \subseteq (1..issued) \X Endpoints /\ relay \in Relays /\ relayClock \in Nat
      /\ loop.swept \in Nat
  BY DEF RelayInv, RelayType
<1>4. /\ \A d \in DOMAIN relay.pairings : ~Expired(relay.pairings[d], loop.swept)
      /\ loop.swept <= relayClock
  BY <1>1 DEF RelayInv, RelayType, Swept
<1>5. CASE ~taken
  <2>1. Bound(relay, token, from) = relay /\ binds' = binds
    BY <1>1, <1>5 DEF Bound
  <2>2. Sweeps(relay)
    BY <1>1, <2>1
  <2> QED
    BY Zenon, <1>1, <1>2, <1>3, <1>4, <2>1, <2>2, SweepKeeps DEF RelayInv, Channels
<1>6. CASE taken
  <2>1. /\ token \in DOMAIN relay.byToken /\ c \in DOMAIN relay.pairings /\ p.token = token
        /\ binds' = binds \cup {<<token, from>>}
    BY <1>1, <1>6 DEF RelayInv, HoldsSound, InStep
  <2>2. /\ p \in Pairings /\ p.slots \in [1..2 -> Endpoints \cup {None}]
        /\ p.slots[1] \in Endpoints \cup {None} /\ p.slots[2] \in Endpoints \cup {None}
    BY <1>3, <2>1, PairingFacts
  <2>3. \/ slot = 1 /\ p.slots[1] = from
        \/ slot = 2 /\ p.slots[2] = from
        \/ slot = 1 /\ p.slots[1] = None /\ p.slots[2] # from
        \/ slot = 2 /\ p.slots[2] = None /\ p.slots[1] # from /\ p.slots[1] # None
    <3>1. BindSlot(p, from) # 0
      BY <1>6
    <3> HIDE DEF p
    <3> QED
      BY <3>1 DEF BindSlot, SlotOf
  <2> DEFINE u == [p.slots EXCEPT ![slot] = from]
             q == [[p EXCEPT !.slots = u] EXCEPT !.last = relayClock]
             t == [relay.pairings EXCEPT ![c] = q]
             r == [relay EXCEPT !.pairings = t]
  <2>4. Bound(relay, token, from) = r
    <3>1. Bound(relay, token, from) =
            [relay EXCEPT !.pairings[c] = [p EXCEPT !.slots[slot] = from, !.last = relayClock]]
      BY Zenon, <1>6 DEF Bound
    <3> QED
      BY Zenon, <3>1
  <2> HIDE DEF p, c, slot
  <2>5. /\ u \in [1..2 -> Endpoints \cup {None}]
        /\ u[1] = IF slot = 1 THEN from ELSE p.slots[1]
        /\ u[2] = IF slot = 2 THEN from ELSE p.slots[2]
    BY <2>2, <2>3
  <2> HIDE DEF u
  <2>6. q \in Pairings /\ q.token = token /\ q.slots = u /\ q.last = relayClock /\ q.created = p.created
    <3> DEFINE v == [p EXCEPT !.slots = u]
    <3>1. v \in Pairings /\ v.token = token /\ v.slots = u /\ v.created = p.created
      BY <2>1, <2>2, <2>5 DEF Pairings
    <3> HIDE DEF v
    <3>2. LET w == [v EXCEPT !.last = relayClock]
          IN  w \in Pairings /\ w.token = v.token /\ w.slots = v.slots /\ w.last = relayClock
              /\ w.created = v.created
      BY <1>3, <3>1 DEF Pairings
    <3> QED
      BY <3>1, <3>2 DEF v
  <2> HIDE DEF q
  <2>7. relay.pairings \in [DOMAIN relay.pairings -> Pairings] /\ DOMAIN relay.pairings \subseteq ChannelNumbers
    BY <1>3, RelayFields, TableFacts
  <2>8. /\ t \in [DOMAIN relay.pairings -> Pairings] /\ DOMAIN t = DOMAIN relay.pairings
        /\ t[c] = q /\ \A d \in DOMAIN t \ {c} : t[d] = relay.pairings[d]
    BY <2>1, <2>6, <2>7
  <2> HIDE DEF t
  <2>9. t \in Tables(ChannelNumbers, Pairings)
    BY <2>7, <2>8, TableFacts
  <2>10. r \in Relays /\ r.pairings = t /\ r.byToken = relay.byToken /\ r.running = relay.running
    BY <1>3, <2>9, SetPairings
  <2> HIDE DEF r
  <2>11. InStep(r, issued)
    BY <2>1, <2>6, <2>8, <2>10 DEF RelayInv, HoldsSound, InStep, p
  <2>12. /\ p.slots[1] = p.slots[2] => p.slots[1] = None
         /\ \A e \in Endpoints : <<token, e>> \in binds <=> e \in {p.slots[1], p.slots[2]}
    BY <2>1 DEF RelayInv, HoldsSound, SlotsAreBinds, p
  <2>13. /\ u[1] = u[2] => u[1] = None
         /\ \A e \in Endpoints : <<token, e>> \in binds' <=> e \in {u[1], u[2]}
    BY <2>1, <2>3, <2>5, <2>12, RelayAssumption
  <2>14. SlotsAreBinds(r, binds')
    <3> SUFFICES ASSUME NEW d \in DOMAIN r.pairings
                 PROVE  SlotsAreBinds(r, binds')!(d)
      BY DEF SlotsAreBinds
    <3>1. CASE d = c
      BY <2>6, <2>8, <2>10, <2>13, <3>1
    <3>2. CASE d # c
      <4>1. r.pairings[d] = relay.pairings[d] /\ relay.pairings[d].token # token
        BY <2>1, <2>8, <2>10, <3>2 DEF RelayInv, HoldsSound, InStep, c
      <4>2. d \in DOMAIN relay.pairings
        BY <2>8, <2>10
      <4> QED
        BY <2>1, <4>1, <4>2 DEF RelayInv, HoldsSound, SlotsAreBinds
    <3> QED
      BY <3>1, <3>2
  <2>15. TwoBinders(binds', issued)
    <3> SUFFICES ASSUME NEW s \in 1..issued
                 PROVE  \E x, y : \A e \in Endpoints : <<s, e>> \in binds' => e \in {x, y}
      BY DEF TwoBinders
    <3>1. CASE s = token
      BY <2>13, <3>1
    <3>2. CASE s # token
      BY <2>1, <3>2 DEF RelayInv, TwoBinders
    <3> QED
      BY <3>1, <3>2
  <2>16. ~Expired(q, loop.swept)
    <3>1. ~Expired(p, loop.swept) /\ p.created \in Nat
      BY <1>4, <2>1, <2>2 DEF Pairings, p
    <3>2. FullyBound(p) => FullyBound(q)
      BY <2>3, <2>5, <2>6, RelayAssumption DEF FullyBound
    <3> QED
      BY <1>3, <1>4, <2>6, <3>1, <3>2, RelayAssumption DEF Expired
  <2>17. \A d \in DOMAIN r.pairings : ~Expired(r.pairings[d], loop.swept)
    BY <1>4, <2>8, <2>10, <2>16
  <2>18. Sweeps(r)
    BY <1>1, <2>4
  <2>19. binds' \subseteq (1..issued) \X Endpoints
    BY <1>3, <2>1
  <2> QED
    BY Zenon, <1>1, <1>2, <2>8, <2>10, <2>11, <2>14, <2>15, <2>17, <2>18, <2>19, SweepKeeps
    DEF HoldsSound, Channels
<1> QED
  BY <1>5, <1>6

\* Free() takes a pairing out of both tables.
LEMMA FreeKeeps ==
  ASSUME RelayInv, NEW channel \in Channels, FreePairing(channel)
  PROVE  RelayInv'
<1>1. /\ relay' = Release(relay, {channel}) /\ forwarded' = {}
      /\ UNCHANGED <<server, loop, relayClock, issued, binds>>
  BY DEF FreePairing
<1>2. {channel} \in SUBSET DOMAIN relay.pairings /\ relay \in Relays
  BY DEF Channels, RelayInv, RelayType
<1>3. HoldsSound(relay', binds, issued)
  BY <1>1, <1>2, ReleaseSound DEF RelayInv
<1>4. /\ relay'.running = relay.running /\ DOMAIN relay'.pairings = DOMAIN relay.pairings \ {channel}
      /\ \A c \in DOMAIN relay'.pairings : relay'.pairings[c] = relay.pairings[c]
  BY <1>1, <1>2, ReleaseFacts
<1>5. RelayType'
  BY <1>1, <1>3 DEF RelayInv, RelayType, HoldsSound
<1>6. Swept(relay)'
  BY <1>1, <1>4 DEF RelayInv, Swept
<1>7. Stages'
  BY Zenon, <1>1, <1>4 DEF RelayInv, Stages, Channels
<1>8. Cardinality(Channels') <= MaxAllocations
  BY Zenon, <1>1, <1>4, <1>5, CardinalityKeeps DEF RelayInv, RelayType, Channels
<1>9. BetweenPartners'
  BY <1>1 DEF BetweenPartners
<1> QED
  BY <1>1, <1>3, <1>5, <1>6, <1>7, <1>8, <1>9 DEF RelayInv

\* A set of natural numbers has a smallest.
LEMMA SmallestNumber ==
  ASSUME NEW S \in SUBSET Nat, S # {}
  PROVE  \E m \in S : \A n \in S : m <= n
<1> DEFINE R == OpToRel(<, Nat)
<1>1. IsWellFoundedOn(R, Nat)
  BY Zenon, NatLessThanWellFounded
<1>2. \A m, n \in Nat : m < n => <<m, n>> \in R
  BY DEF OpToRel
<1> HIDE DEF R
<1>3. PICK m \in S : \A n \in S : ~(<<n, m>> \in R)
  BY Zenon, <1>1, WFMin
<1>4. \A n \in S : ~(n < m)
  BY Zenon, <1>2, <1>3
<1> QED
  BY <1>4

\* The limit on pairings is below the channel numbers there are, so the walk in
\* Allocate() ends on a free one.
LEMMA FreeChannel ==
  ASSUME relay \in Relays, Cardinality(Channels) < MaxAllocations, NEW channel \in Nat
  PROVE  FreeFrom(channel) \in ChannelNumbers \ Channels
<1> DEFINE Distance(c) == (c - channel) % MaxRelayChannel
           Open == ChannelNumbers \ Channels
<1>1. MaxRelayChannel \in Nat \ {0} /\ MaxAllocations \in Nat /\ MaxAllocations < MaxRelayChannel
  BY RelayAssumption
<1>2. \A c \in Open : Distance(c) \in Nat
  <2> SUFFICES ASSUME NEW c \in Open PROVE Distance(c) \in Nat
    OBVIOUS
  <2>1. c - channel \in Int
    BY DEF ChannelNumbers
  <2> QED
    BY <1>1, <2>1
<1>3. Open # {}
  <2>1. IsFiniteSet(Channels) /\ Channels \subseteq ChannelNumbers
    BY ChannelsFinite DEF Channels
  <2>2. Cardinality(Channels) \in Nat
    BY <2>1, FS_CardinalityType
  <2>3. Cardinality(ChannelNumbers) = MaxRelayChannel
    BY <1>1, FS_Interval DEF ChannelNumbers
  <2>4. ChannelNumbers # Channels
    BY <1>1, <2>2, <2>3
  <2> QED
    BY <2>1, <2>4
<1>4. PICK m \in {Distance(c) : c \in Open} : \A n \in {Distance(c) : c \in Open} : m <= n
  <2> DEFINE S == {Distance(c) : c \in Open}
  <2>1. S \in SUBSET Nat
    BY <1>2
  <2>2. S # {}
    BY <1>3
  <2> HIDE DEF S
  <2>3. \E m \in S : \A n \in S : m <= n
    BY <2>1, <2>2, SmallestNumber
  <2> QED
    BY <2>3 DEF S
<1>5. PICK c \in Open : m = Distance(c)
  BY <1>4
<1>6. \A d \in Open : Distance(c) <= Distance(d)
  BY <1>4, <1>5
<1> HIDE DEF Distance
<1>7. \E d \in ChannelNumbers : d \notin Channels /\ \A e \in ChannelNumbers \ Channels : Distance(d) <= Distance(e)
  BY <1>6
<1>8. FreeFrom(channel) =
        CHOOSE d \in ChannelNumbers : d \notin Channels /\ \A e \in ChannelNumbers \ Channels : Distance(d) <= Distance(e)
  BY DEF FreeFrom, Distance, ChannelNumbers
<1> QED
  BY Zenon, <1>7, <1>8

\* A new pairing: a free channel, a token never used, nobody bound.
LEMMA AllocateKeeps == ASSUME RelayInv, Allocate PROVE RelayInv'
<1> DEFINE channel == FreeFrom(relay.next)
           token == issued + 1
           new == [token |-> token, slots |-> <<None, None>>, created |-> relayClock, last |-> relayClock]
           b == Put(relay.byToken, token, channel)
           t == Put(relay.pairings, channel, new)
<1>1. /\ relay.running /\ Cardinality(Channels) < MaxAllocations
      /\ relay' = [relay EXCEPT !.next = After(channel), !.byToken = b, !.pairings = t]
      /\ issued' = token /\ forwarded' = {} /\ UNCHANGED <<server, loop, relayClock, binds>>
  BY Zenon DEF Allocate
<1>2. /\ relay \in Relays /\ relayClock \in Nat /\ issued \in Nat /\ relay.next \in Nat
      /\ relay.byToken \in Tables(Nat, ChannelNumbers)
      /\ relay.pairings \in Tables(ChannelNumbers, Pairings)
      /\ binds \subseteq (1..issued) \X Endpoints
  BY RelayFields DEF RelayInv, RelayType
<1>3. channel \in ChannelNumbers \ Channels
  BY <1>1, <1>2, FreeChannel
<1>4. /\ new \in Pairings /\ new.token = token /\ new.slots[1] = None /\ new.slots[2] = None
      /\ new.created = relayClock
  BY <1>2 DEF Pairings
<1> HIDE DEF channel, new
<1>5. /\ b \in Tables(Nat, ChannelNumbers) /\ DOMAIN b = DOMAIN relay.byToken \cup {token}
      /\ b[token] = channel /\ \A x \in DOMAIN relay.byToken \ {token} : b[x] = relay.byToken[x]
  <2>1. token \in Nat
    BY <1>2
  <2> HIDE DEF token
  <2> QED
    <3>1. b \in Tables(Nat, ChannelNumbers)
      BY Zenon, <1>2, <1>3, <2>1, PutFacts
    <3> QED
      BY <3>1 DEF Put
<1>6. /\ t \in Tables(ChannelNumbers, Pairings) /\ DOMAIN t = Channels \cup {channel}
      /\ t[channel] = new /\ \A c \in Channels : t[c] = relay.pairings[c]
  <2>1. t \in Tables(ChannelNumbers, Pairings)
    BY Zenon, <1>2, <1>3, <1>4, PutFacts
  <2> QED
    BY <1>3, <2>1 DEF Put, Channels
<1>7. After(channel) \in Nat
  BY <1>3, RelayAssumption DEF After, ChannelNumbers
<1> HIDE DEF b, t
<1>8. relay' \in Relays /\ relay'.pairings = t /\ relay'.byToken = b /\ relay'.running = relay.running
  <2> DEFINE r == [relay EXCEPT !.next = After(channel)]
             q == [r EXCEPT !.byToken = b]
  <2>1. relay' = [q EXCEPT !.pairings = t]
    BY Zenon, <1>1
  <2>2. r \in Relays /\ r.running = relay.running
    BY <1>2, <1>7, SetNext
  <2> HIDE DEF r
  <2>3. q \in Relays /\ q.byToken = b /\ q.running = relay.running
    BY <1>5, <2>2, SetByToken
  <2> HIDE DEF q
  <2> QED
    BY <1>6, <2>1, <2>3, SetPairings
<1>9. /\ \A x \in DOMAIN relay.byToken :
           x \in 1..issued /\ relay.byToken[x] \in Channels /\ relay.pairings[relay.byToken[x]].token = x
      /\ \A c \in Channels :
           /\ relay.pairings[c].token \in DOMAIN relay.byToken
           /\ relay.byToken[relay.pairings[c].token] = c
  BY DEF RelayInv, HoldsSound, InStep, Channels
<1>10. token \notin 1..issued /\ 1..issued \subseteq 1..token /\ token \in 1..token
  BY <1>2
<1> HIDE DEF token
<1>11. InStep(relay', token)
  <2>1. ASSUME NEW x \in DOMAIN b
        PROVE  x \in 1..token /\ b[x] \in DOMAIN t /\ t[b[x]].token = x
    BY <1>4, <1>5, <1>6, <1>9, <1>10
  <2>2. ASSUME NEW c \in DOMAIN t
        PROVE  t[c].token \in DOMAIN b /\ b[t[c].token] = c
    BY <1>3, <1>4, <1>5, <1>6, <1>9, <1>10
  <2> QED
    BY <1>8, <2>1, <2>2 DEF InStep
<1>12. SlotsAreBinds(relay', binds)
  <2> SUFFICES ASSUME NEW c \in DOMAIN t
               PROVE  /\ t[c].slots[1] = t[c].slots[2] => t[c].slots[1] = None
                      /\ \A e \in Endpoints : <<t[c].token, e>> \in binds <=> e \in {t[c].slots[1], t[c].slots[2]}
    BY <1>8 DEF SlotsAreBinds
  <2>1. CASE c = channel
    BY <1>2, <1>4, <1>6, <1>10, <2>1, RelayAssumption
  <2>2. CASE c # channel
    BY <1>6, <2>2 DEF RelayInv, HoldsSound, SlotsAreBinds, Channels
  <2> QED
    BY <2>1, <2>2
<1>13. TwoBinders(binds, token)
  <2>1. \A x \in 1..token : x \in 1..issued \/ x = token
    BY <1>2 DEF token
  <2>2. \A e \in Endpoints : <<token, e>> \notin binds
    BY <1>2, <1>10
  <2> QED
    BY <2>1, <2>2 DEF RelayInv, TwoBinders
<1>14. RelayType'
  BY <1>1, <1>2, <1>8, <1>10 DEF RelayInv, RelayType, token
<1>15. Swept(relay)'
  <2>1. loop.on => ~Expired(new, loop.swept)
    BY <1>2, <1>4, RelayAssumption DEF RelayInv, RelayType, Swept, Expired, FullyBound
  <2>2. loop.on => \A c \in DOMAIN t : ~Expired(t[c], loop.swept)
    BY <1>6, <2>1 DEF RelayInv, Swept, Channels
  <2>3. Swept(relay)
    BY DEF RelayInv
  <2> QED
    BY Zenon, <1>1, <1>8, <2>2, <2>3 DEF Swept
<1>16. Stages'
  <2>1. server.running \/ server.stop # "idle"
    BY <1>1 DEF RelayInv, Stages
  <2> QED
    BY Zenon, <1>1, <1>8, <2>1 DEF RelayInv, Stages
<1>17. Cardinality(Channels') <= MaxAllocations
  <2>1. Channels' = Channels \cup {channel}
    BY <1>6, <1>8 DEF Channels
  <2>2. IsFiniteSet(Channels)
    BY <1>2, ChannelsFinite DEF Channels
  <2>3. Cardinality(Channels \cup {channel}) = Cardinality(Channels) + 1 /\ Cardinality(Channels) \in Nat
    BY <1>3, <2>2, FS_AddElement, FS_CardinalityType
  <2> QED
    BY <1>1, <2>1, <2>3, RelayAssumption
<1>18. BetweenPartners'
  BY <1>1 DEF BetweenPartners
<1> QED
  BY <1>1, <1>8, <1>11, <1>12, <1>13, <1>14, <1>15, <1>16, <1>17, <1>18 DEF RelayInv, HoldsSound

\* Start(), and Stop() step by step: nothing is left when it returns, so the
\* next Start() finds the tables empty.
LEMMA ServerKeeps ==
  ASSUME RelayInv, StartServer \/ StopServer \/ StopJoined \/ RelayStops \/ RelayClears
  PROVE  RelayInv'
<1>1. /\ relay \in Relays /\ relayClock \in Nat
      /\ server \in [running : BOOLEAN, stop : {"idle", "join", "relay", "clear"}, starts : Nat]
      /\ loop \in [on : BOOLEAN, swept : Nat, fresh : BOOLEAN]
  BY DEF RelayInv, RelayType
<1>2. BetweenPartners' /\ UNCHANGED <<relayClock, issued, binds>>
  BY DEF StartServer, StopServer, StopJoined, RelayStops, RelayClears, BetweenPartners
<1>3. ASSUME relay' \in Relays,
             relay'.pairings = relay.pairings /\ relay'.byToken = relay.byToken
      PROVE  HoldsSound(relay', binds', issued') /\ Channels' = Channels
  BY <1>2, <1>3 DEF RelayInv, HoldsSound, InStep, SlotsAreBinds, Channels
<1>4. CASE StartServer
  <2>1. /\ ~server.running /\ server.stop = "idle" /\ relay' = [relay EXCEPT !.running = TRUE]
        /\ server' = [server EXCEPT !.running = TRUE, !.starts = @ + 1]
        /\ loop' = [on |-> TRUE, swept |-> relayClock, fresh |-> FALSE]
    BY Zenon, <1>4 DEF StartServer
  <2>2. /\ relay' \in Relays /\ relay'.pairings = relay.pairings /\ relay'.byToken = relay.byToken
        /\ relay'.running = TRUE
    BY Zenon, <1>1, <2>1, SetRunning
  <2>3. HoldsSound(relay', binds', issued') /\ Channels' = Channels
    BY <1>3, <2>2
  <2>4. server' = [running |-> TRUE, stop |-> "idle", starts |-> server.starts + 1]
    BY Zenon, <1>1, <2>1
  <2>5. Channels = {}
    BY Zenon, <2>1 DEF RelayInv, Stages
  <2>6. RelayType'
    <3>1. server' \in [running : BOOLEAN, stop : {"idle", "join", "relay", "clear"}, starts : Nat]
      BY <1>1, <2>4
    <3> QED
      BY <1>1, <1>2, <2>1, <2>2, <3>1 DEF RelayInv, RelayType
  <2>7. Stages'
    BY <2>1, <2>2, <2>4 DEF Stages
  <2>8. Swept(relay)'
    BY <1>1, <1>2, <2>1, <2>3, <2>5 DEF Swept, Channels
  <2> QED
    BY <1>2, <2>3, <2>6, <2>7, <2>8 DEF RelayInv
<1>5. CASE StopServer
  <2>1. /\ server.running /\ server' = [server EXCEPT !.running = FALSE, !.stop = "join"]
        /\ relay' = relay /\ loop' = loop
    BY Zenon, <1>5 DEF StopServer
  <2>2. server' = [running |-> FALSE, stop |-> "join", starts |-> server.starts]
    BY Zenon, <1>1, <2>1
  <2>3. RelayType'
    BY Zenon, <1>1, <1>2, <2>1, <2>2 DEF RelayInv, RelayType
  <2>4. Stages'
    BY <2>1, <2>2 DEF RelayInv, Stages
  <2>5. Swept(relay)' /\ HoldsSound(relay', binds', issued') /\ Channels' = Channels
    BY <1>2, <2>1 DEF RelayInv, Swept, Channels
  <2> QED
    BY <1>2, <2>3, <2>4, <2>5 DEF RelayInv
<1>6. CASE StopJoined
  <2>1. /\ server.stop = "join" /\ loop' = [loop EXCEPT !.on = FALSE]
        /\ server' = [server EXCEPT !.stop = "relay"] /\ relay' = relay
    BY Zenon, <1>6 DEF StopJoined
  <2>2. /\ server' = [running |-> server.running, stop |-> "relay", starts |-> server.starts]
        /\ loop' = [on |-> FALSE, swept |-> loop.swept, fresh |-> loop.fresh]
    BY Zenon, <1>1, <2>1
  <2>3. ~server.running
    BY <2>1 DEF RelayInv, Stages
  <2>4. RelayType'
    BY Zenon, <1>1, <1>2, <2>1, <2>2 DEF RelayInv, RelayType
  <2>5. Stages'
    BY <2>1, <2>2, <2>3 DEF RelayInv, Stages
  <2>6. Swept(relay)' /\ HoldsSound(relay', binds', issued') /\ Channels' = Channels
    BY <1>2, <2>1, <2>2 DEF RelayInv, Swept, Channels
  <2> QED
    BY <1>2, <2>4, <2>5, <2>6 DEF RelayInv
<1>7. CASE RelayStops
  <2>1. /\ server.stop = "relay" /\ relay' = [relay EXCEPT !.running = FALSE]
        /\ server' = [server EXCEPT !.stop = "clear"] /\ loop' = loop
    BY Zenon, <1>7 DEF RelayStops
  <2>2. /\ relay' \in Relays /\ relay'.pairings = relay.pairings /\ relay'.byToken = relay.byToken
        /\ relay'.running = FALSE
    BY Zenon, <1>1, <2>1, SetRunning
  <2>3. HoldsSound(relay', binds', issued') /\ Channels' = Channels
    BY <1>3, <2>2
  <2>4. server' = [running |-> server.running, stop |-> "clear", starts |-> server.starts]
    BY Zenon, <1>1, <2>1
  <2>5. ~server.running /\ ~loop.on
    BY <2>1 DEF RelayInv, Stages
  <2>6. RelayType'
    BY <1>1, <1>2, <2>1, <2>2, <2>4 DEF RelayInv, RelayType
  <2>7. Stages'
    BY <2>1, <2>2, <2>4, <2>5 DEF Stages
  <2>8. Swept(relay)'
    BY Zenon, <2>1, <2>5 DEF Swept
  <2> QED
    BY <1>2, <2>3, <2>6, <2>7, <2>8 DEF RelayInv
<1>8. CASE RelayClears
  <2>1. /\ server.stop = "clear" /\ relay' = [relay EXCEPT !.pairings = <<>>, !.byToken = <<>>]
        /\ server' = [server EXCEPT !.stop = "idle"] /\ loop' = loop
    BY Zenon, <1>8 DEF RelayClears
  <2>2. /\ relay' \in Relays /\ relay'.pairings = <<>> /\ relay'.byToken = <<>>
        /\ relay'.running = relay.running
    <3> DEFINE q == [relay EXCEPT !.pairings = <<>>]
    <3>1. relay' = [q EXCEPT !.byToken = <<>>]
      BY Zenon, <2>1
    <3>2. q \in Relays /\ q.pairings = <<>> /\ q.running = relay.running
      BY Zenon, <1>1, EmptyTable, SetPairings
    <3> HIDE DEF q
    <3> QED
      BY Zenon, <3>1, <3>2, EmptyTable, SetByToken
  <2>3. DOMAIN relay'.pairings = {} /\ DOMAIN relay'.byToken = {} /\ Channels' = {}
    BY Zenon, <2>2, EmptyTable DEF Channels
  <2>4. HoldsSound(relay', binds', issued')
    BY <2>2, <2>3 DEF HoldsSound, InStep, SlotsAreBinds
  <2>5. server' = [running |-> server.running, stop |-> "idle", starts |-> server.starts]
    BY Zenon, <1>1, <2>1
  <2>6. ~server.running /\ ~loop.on /\ ~relay.running
    BY <2>1 DEF RelayInv, Stages
  <2>7. RelayType'
    BY <1>1, <1>2, <2>1, <2>2, <2>5 DEF RelayInv, RelayType
  <2>8. Stages'
    BY <2>1, <2>2, <2>3, <2>5, <2>6 DEF Stages
  <2>9. Swept(relay)'
    BY Zenon, <2>1, <2>6 DEF Swept
  <2>10. Cardinality(Channels') <= MaxAllocations
    BY <2>3, FS_EmptySet, RelayAssumption
  <2> QED
    BY <1>2, <2>4, <2>7, <2>8, <2>9, <2>10 DEF RelayInv
<1> QED
  BY <1>4, <1>5, <1>6, <1>7, <1>8

\* Time moves once the loop has run since it last did.
LEMMA ElapseKeeps == ASSUME RelayInv, RelayElapse PROVE RelayInv'
<1>1. /\ loop.on => loop.fresh
      /\ relayClock' = relayClock + 1 /\ loop' = [loop EXCEPT !.fresh = FALSE]
      /\ forwarded' = {} /\ UNCHANGED <<relay, server, issued, binds>>
  BY Zenon DEF RelayElapse
<1>2. relayClock \in Nat /\ loop \in [on : BOOLEAN, swept : Nat, fresh : BOOLEAN]
  BY DEF RelayInv, RelayType
<1>3. /\ loop' \in [on : BOOLEAN, swept : Nat, fresh : BOOLEAN]
      /\ loop'.on = loop.on /\ loop'.swept = loop.swept /\ loop'.fresh = FALSE
  BY Zenon, <1>1, <1>2
<1>4. RelayType'
  BY <1>1, <1>2, <1>3 DEF RelayInv, RelayType
<1>5. Swept(relay)'
  <2>1. CASE loop.on
    <3>1. relayClock = loop.swept /\ loop.swept \in Nat
      BY Zenon, <1>1, <1>2, <2>1 DEF RelayInv, Swept
    <3>2. \A c \in DOMAIN relay.pairings : ~Expired(relay.pairings[c], loop.swept)
      BY Zenon, <2>1 DEF RelayInv, Swept
    <3> QED
      BY <1>1, <1>3, <3>1, <3>2 DEF Swept
  <2>2. CASE ~loop.on
    BY Zenon, <1>3, <2>2 DEF Swept
  <2> QED
    BY Zenon, <2>1, <2>2
<1>6. Stages' /\ Channels' = Channels
  BY Zenon, <1>1, <1>3 DEF RelayInv, Stages, Channels
<1>7. BetweenPartners'
  BY <1>1 DEF BetweenPartners
<1> QED
  BY <1>1, <1>4, <1>5, <1>6, <1>7 DEF RelayInv

\* A relay that was never started satisfies the invariant.
LEMMA RelayStarts == RelayInit => RelayInv
<1> SUFFICES ASSUME RelayInit PROVE RelayInv
  OBVIOUS
<1>1. /\ relay = [running |-> FALSE, pairings |-> <<>>, byToken |-> <<>>, next |-> 1]
      /\ server = [running |-> FALSE, stop |-> "idle", starts |-> 0]
      /\ loop = [on |-> FALSE, swept |-> 0, fresh |-> TRUE]
      /\ relayClock = 0 /\ issued = 0 /\ binds = {} /\ forwarded = {}
  BY DEF RelayInit
<1>2. /\ <<>> \in Tables(ChannelNumbers, Pairings) /\ <<>> \in Tables(Nat, ChannelNumbers)
      /\ DOMAIN <<>> = {}
  BY Zenon, EmptyTable
<1>3. relay \in Relays /\ relay.pairings = <<>> /\ relay.byToken = <<>> /\ relay.running = FALSE
  BY <1>1, <1>2 DEF Relays
<1>4. RelayType
  BY <1>1, <1>3 DEF RelayType
<1>5. DOMAIN relay.pairings = {} /\ DOMAIN relay.byToken = {} /\ Channels = {}
  BY Zenon, <1>2, <1>3 DEF Channels
<1>6. HoldsSound(relay, binds, issued) /\ TwoBinders(binds, issued) /\ BetweenPartners
  BY <1>1, <1>3, <1>5 DEF HoldsSound, InStep, SlotsAreBinds, TwoBinders, BetweenPartners
<1>7. Swept(relay) /\ Stages
  BY <1>1, <1>3, <1>5 DEF Swept, Stages
<1>8. Cardinality(Channels) <= MaxAllocations
  BY <1>5, FS_EmptySet, RelayAssumption
<1> QED
  BY <1>4, <1>6, <1>7, <1>8 DEF RelayInv

\* Every handler, sweep, Start and Stop of the relay keeps the invariant.
LEMMA RelayStep == RelayInv /\ [RelayNext]_relayVars => RelayInv'
<1> SUFFICES ASSUME RelayInv, [RelayNext]_relayVars PROVE RelayInv'
  OBVIOUS
<1>1. CASE RelayNext
  BY SMTT(30), <1>1, AllocateKeeps, FreeKeeps, ServerKeeps, OtherKeeps, ElapseKeeps, BindKeeps, ForwardKeeps
  DEF RelayNext
<1>2. CASE UNCHANGED relayVars
  BY Zenon, <1>2 DEF relayVars, RelayInv, RelayType, HoldsSound, InStep, SlotsAreBinds, TwoBinders,
              BetweenPartners, Swept, Stages, Channels
<1> QED
  BY <1>1, <1>2

\* The invariant says all the runs check.
LEMMA RelaySoundly == RelayInv => PairingsSound
<1> SUFFICES ASSUME RelayInv PROVE PairingsSound
  OBVIOUS
<1>1. RelayedToPartner
  <2>1. ASSUME NEW token \in 1..issued
        PROVE  Cardinality({e \in Endpoints : <<token, e>> \in binds}) <= 2
    <3> DEFINE S == {e \in Endpoints : <<token, e>> \in binds}
    <3>1. PICK x, y : \A e \in Endpoints : <<token, e>> \in binds => e \in {x, y}
      BY DEF RelayInv, TwoBinders
    <3>2. S \in SUBSET ({x} \cup {y})
      BY <3>1
    <3> HIDE DEF S
    <3>3. IsFiniteSet({x}) /\ Cardinality({x}) = 1
      BY FS_Singleton
    <3>4. IsFiniteSet({x} \cup {y}) /\ Cardinality({x} \cup {y}) <= 2
      BY <3>3, FS_AddElement
    <3>5. IsFiniteSet(S) /\ Cardinality(S) <= Cardinality({x} \cup {y})
      BY <3>2, <3>4, FS_Subset
    <3>6. Cardinality(S) \in Nat /\ Cardinality({x} \cup {y}) \in Nat
      BY <3>4, <3>5, FS_CardinalityType
    <3> QED
      BY <3>4, <3>5, <3>6 DEF S
  <2> QED
    BY <2>1 DEF RelayedToPartner, RelayInv, BetweenPartners
<1>2. RelayTables
  BY DEF RelayInv, RelayTables, HoldsSound, InStep, Stages, Channels
<1>3. FreedOnTime
  <2> SUFFICES ASSUME server.running, NEW c \in Channels
               PROVE  LET p == relay.pairings[c]
                      IN  IF FullyBound(p) THEN relayClock - p.last <= IdleTimeout + 1
                          ELSE relayClock - p.created <= BindTimeout + 1
    BY DEF FreedOnTime
  <2> DEFINE p == relay.pairings[c]
  <2>1. loop.on
    BY Zenon DEF RelayInv, Stages
  <2>2. /\ ~Expired(p, loop.swept) /\ relayClock <= loop.swept + 1
        /\ relayClock \in Nat /\ loop.swept \in Nat
    BY <2>1 DEF RelayInv, RelayType, Swept, Channels
  <2>3. p \in Pairings
    BY PairingFacts DEF RelayInv, RelayType, Channels
  <2> HIDE DEF p
  <2>4. p.last \in Nat /\ p.created \in Nat
    BY <2>3 DEF Pairings
  <2>5. IF FullyBound(p) THEN relayClock - p.last <= IdleTimeout + 1
        ELSE relayClock - p.created <= BindTimeout + 1
    BY <2>2, <2>4, RelayAssumption DEF Expired
  <2> QED
    BY <2>5 DEF p
<1> QED
  BY <1>1, <1>2, <1>3 DEF PairingsSound

\* Whatever the relay forwards goes between the two addresses that bound one
\* token, its tables name each other and stay within max_allocations, and no
\* pairing outlives its timer by more than a sweep, for any endpoints, limits
\* and timers (traversal_server.cc's Allocate, OnBind, OnForward, Expire, Free
\* and Stop).
THEOREM PairingsSoundTheorem == RelaySpec => []PairingsSound
  BY RelayStarts, RelayStep, RelaySoundly, PTL DEF RelaySpec
=============================================================================
