----------------------------- MODULE Congestion -----------------------------
(***************************************************************************)
(* Round trips and the congestion window of a ZDT connection               *)
(* (zdt_congestion.h, zdt_congestion.cc, and the calls zdt_transport.cc    *)
(* makes to them).  The code's doubles are fixed-point numbers: round      *)
(* trips in eighths of a time unit, the window in tenths of a datagram,    *)
(* rounded down.  Time stamps are kept as ages, capped where they stop     *)
(* mattering.  A round trip is whatever the path makes it.                 *)
(***************************************************************************)
EXTENDS ZdtWire, Sequences, FiniteSets, FiniteSetsExt

CONSTANTS
    Paths,                  \* the paths and bounds a behaviour may run under
    RttMinWindow,           \* kZDTRttMinWindowMs
    QueueingWindowFloor,    \* kZDTQueueingWindowFloorMs
    InitialWindow,          \* cwnd_ of a new connection
    MaxInFlight,            \* kZDTMaxDatagramsInFlight
    RtoMin, RtoMax          \* config_.rto_min, config_.rto_max

\* before, after: the round trips seen up to datagram number change, and from
\* it on; gaps: the time between two acknowledgements; start: the datagrams
\* sent and acknowledged before; sends: the number of the last one; cap: max_datagrams_in_flight; unacked: how many may be
\* unacknowledged, retransmissions included.
PathFields == {"before", "after", "change", "gaps", "start", "sends", "cap", "unacked"}

ASSUME CongestionAssumption ==
    /\ {RttMinWindow, QueueingWindowFloor, InitialWindow, MaxInFlight,
        RtoMin, RtoMax} \subseteq Nat \ {0}
    /\ \A p \in Paths : DOMAIN p = PathFields /\ {p.cap, p.start} \subseteq Nat

VARIABLES
    path,
    rtt,                    \* ZDTRttEstimator
    cong,                   \* ZDTCongestionController
    flown,                  \* datagrams sent; the next one is number flown + 1
    flight,                 \* the unacknowledged ones
    reductions,             \* what was sent and acknowledged at each reduction
    topAck,                 \* the newest datagram acknowledged
    steady                  \* how long every round trip has been the same

congestionVars == <<path, rtt, cong, flown, flight, reductions, topAck, steady>>

Abs(x) == IF x < 0 THEN -x ELSE x

Bounded(x, low, high) == Min({Max({x, low}), high})

-----------------------------------------------------------------------------
(* ZDTRttEstimator *)

Reset(rto) ==
    [has |-> FALSE, srtt |-> 0, var |-> 0, min |-> 0, minAge |-> 0, windowMin |-> 0,
     collecting |-> 0, windowAge |-> 0, rto |-> rto]

RtoOf(srtt, var) == Bounded((srtt + 4 * var) \div 8, RtoMin, RtoMax)

\* The floor once a sample ms arrived age after it was measured.
Floor_Lifetime(e, ms, age) ==
    IF ms < e.min THEN [min |-> ms, minAge |-> 0] ELSE [min |-> e.min, minAge |-> age]

Floor(e, ms, age) ==
    IF ms < e.min \/ e.min <= 0 \/ age > RttMinWindow
    THEN [min |-> ms, minAge |-> 0]
    ELSE [min |-> e.min, minAge |-> age]

\* OnSample: one round trip of ms eighths, dt after the previous one.
OnSample(e, ms, dt) ==
    IF ~e.has
    THEN [e EXCEPT !.has = TRUE, !.srtt = ms, !.var = ms \div 2, !.min = ms, !.minAge = 0,
                   !.collecting = ms, !.windowAge = 0, !.rto = RtoOf(ms, ms \div 2)]
    ELSE LET floor  == Floor(e, ms, Min({e.minAge + dt, RttMinWindow + 1}))
             var    == (3 * e.var + Abs(e.srtt - ms)) \div 4
             srtt   == (7 * e.srtt + ms) \div 8
             window == Max({2 * srtt, 8 * QueueingWindowFloor})
             age    == e.windowAge + dt
             full   == 8 * age >= window
         IN  [e EXCEPT
                !.min = floor.min, !.minAge = floor.minAge, !.var = var, !.srtt = srtt,
                !.windowMin  = IF full THEN e.collecting ELSE @,
                !.collecting = IF full \/ ms < @ THEN ms ELSE @,
                !.windowAge  = IF full THEN 0 ELSE age,
                !.rto = RtoOf(srtt, var)]

\* Every round trip of the last full window was a quarter above the floor.
IsQueueing(e) == e.has /\ e.min > 0 /\ e.windowMin > 0 /\ 4 * e.windowMin > 5 * e.min

-----------------------------------------------------------------------------
(* ZDTCongestionController *)

MinWindow == 20

NewController ==
    [cwnd |-> 10 * InitialWindow, ssthresh |-> 10 * 10^6, until |-> 0, recovering |-> FALSE]

\* Datagrams allowed in flight.
Window(c, cap) == Min({c.cwnd \div 10, cap})

\* The first acknowledgement of something sent after the loss ends the epoch.
OnAckArrived_Any(c, ack) == [c EXCEPT !.recovering = FALSE]

OnAckArrived(c, ack) ==
    IF c.recovering /\ ~SeqLess(ack, c.until) THEN [c EXCEPT !.recovering = FALSE] ELSE c

Reduce(c, percent, next) ==
    IF c.recovering THEN c
    ELSE [cwnd |-> Max({(c.cwnd * percent) \div 100, MinWindow}), ssthresh |-> c.cwnd,
          until |-> next, recovering |-> TRUE]

OnAcked(c, acked, queueing, next, cap) ==
    LET grown == IF c.cwnd < c.ssthresh THEN c.cwnd + 10 * acked
                 ELSE c.cwnd + (100 * acked) \div c.cwnd
    IN  IF queueing /\ c.cwnd > 2 * MinWindow THEN Reduce(c, 85, next)
        ELSE [c EXCEPT !.cwnd = Min({grown, 10 * cap})]

OnRetransmitTimeout(c, queueing, next) == Reduce(c, IF queueing THEN 50 ELSE 90, next)

-----------------------------------------------------------------------------
(* The connection that drives them. *)

SendWindowCap == Max({Min({path.cap, MaxInFlight}), 2})

NextPacketSeq == PacketNumber(flown + 1)

CongestionInit ==
    /\ path \in Paths
    /\ rtt = Reset(Bounded(200, RtoMin, RtoMax))
    /\ cong = NewController
    /\ flown = path.start /\ topAck = path.start
    /\ flight = {} /\ reductions = <<>>
    /\ steady = [ms |-> 0, for |-> 0]

\* A datagram with reliable records leaves while the window allows.
Transmit ==
    /\ flown < path.sends
    /\ Cardinality(flight) < Min({Window(cong, SendWindowCap), path.unacked})
    /\ flown' = flown + 1
    /\ flight' = flight \cup {flown + 1}
    /\ UNCHANGED <<path, rtt, cong, reductions, topAck, steady>>

\* A reduction is recorded with what had been sent and acknowledged by then.
Recorded(before, after, top) ==
    IF ~before.recovering /\ after.recovering
    THEN Append(reductions, [sent |-> flown, top |-> top]) ELSE reductions

\* ProcessAcks: the acknowledged datagrams give one sample each, and retire.
ProcessAcks(top, got, ms, dt) ==
    LET arrived == OnAckArrived(cong, PacketNumber(top))
        first   == OnSample(rtt, 8 * ms, dt)
        sampled == FoldSet(LAMBDA k, e : OnSample(e, 8 * ms, 0), first, 1..(Cardinality(got) - 1))
        after   == OnAcked(arrived, Cardinality(got), IsQueueing(sampled), NextPacketSeq, SendWindowCap)
    IN  /\ got # {} /\ top \notin flight \ got
        /\ top > flown + 1 - PacketPeriod \div 2
        /\ rtt' = sampled
        /\ cong' = after
        /\ flight' = flight \ got
        /\ topAck' = Max({topAck, top})
        /\ reductions' = Recorded(arrived, after, Max({topAck, top}))
        /\ steady' = IF ms = steady.ms THEN [steady EXCEPT !.for = Min({@ + dt, 2 * RttMinWindow})]
                     ELSE [ms |-> ms, for |-> 0]
        /\ UNCHANGED <<path, flown>>

\* A duplicate, or an older acknowledgement that was overtaken, retires nothing.
\* None is half a period of numbers old.
StaleAck(top) ==
    /\ top \notin flight
    /\ top > flown + 1 - PacketPeriod \div 2
    /\ cong' = OnAckArrived(cong, PacketNumber(top))
    /\ topAck' = Max({topAck, top})
    /\ UNCHANGED <<path, rtt, flown, flight, reductions, steady>>

\* RetransmitUnacked found one overdue: the records go out under a new number.
RetransmitTimeout(n) ==
    LET after == OnRetransmitTimeout(cong, IsQueueing(rtt), PacketNumber(flown + 2))
    IN  /\ n \in flight
        /\ flown < path.sends
        /\ Cardinality(flight) < path.unacked
        /\ flown' = flown + 1
        /\ flight' = flight \cup {flown + 1}
        /\ cong' = after
        /\ reductions' = IF ~cong.recovering /\ after.recovering
                         THEN Append(reductions, [sent |-> flown + 1, top |-> topAck])
                         ELSE reductions
        /\ UNCHANGED <<path, rtt, topAck, steady>>

\* OnNak: the datagram is known lost and leaves the window.
Lost(n) ==
    /\ n \in flight
    /\ n < topAck
    /\ flight' = flight \ {n}
    /\ UNCHANGED <<path, rtt, cong, flown, reductions, topAck, steady>>

Trips == IF flown < path.change THEN path.before ELSE path.after

CongestionNext ==
    \/ Transmit
    \/ \E top \in (path.start + 1)..flown, ms \in Trips, dt \in path.gaps :
           \E got \in SUBSET {n \in flight : n <= top} : ProcessAcks(top, got, ms, dt)
    \/ \E top \in (path.start + 1)..flown : StaleAck(top)
    \/ \E n \in flight : RetransmitTimeout(n) \/ Lost(n)

CongestionSpec == CongestionInit /\ [][CongestionNext]_congestionVars

-----------------------------------------------------------------------------
(* "one reduction per loss epoch, whoever reports the event; the epoch ends
   when the peer acknowledges something sent after it opened"
   (zdt_congestion.h:155): between two reductions of the window lies an
   acknowledgement of a datagram sent after the first, whatever was late,
   repeated or timed out meanwhile and wherever the numbers wrapped. *)
OneReductionPerEpoch ==
    \A i \in 2..Len(reductions) : reductions[i].top > reductions[i - 1].sent

(* "a stale floor left by a route change would read the new baseline as
   permanent queueing and pin the window" (zdt_congestion.h:86): once every
   round trip has been the same for longer than the floor stays authoritative,
   the verdict of IsQueueing is that no queue stands. *)
FloorFollowsPath ==
    steady.for > RttMinWindow + Max(path.gaps) => ~IsQueueing(rtt)

(* The window is only cut for news: once per epoch, and not for a queue that is
   but a longer path (Reduce, OnAcked and the floor of OnSample). *)
CutsJustified == OneReductionPerEpoch /\ FloorFollowsPath
=============================================================================
