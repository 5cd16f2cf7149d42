----------------------------- MODULE ZdtSender -----------------------------
(***************************************************************************)
(* The sending half of a ZDT connection (zdt_transport.cc): messages are    *)
(* numbered per substream, packed into datagrams with a fresh packet_seq    *)
(* each, tracked until acknowledged, resent on a timeout, on a reported gap *)
(* or as a tail probe, and given up on after MaxRetries.                    *)
(*                                                                          *)
(* One channel is modelled.  Time is abstract: a timer may fire whenever    *)
(* the state it watches allows.  The code's windows and limits are          *)
(* parameters.  full sequence numbers never wrap; what travels is truncated *)
(* (ZdtWire).                                                               *)
(***************************************************************************)
EXTENDS ZdtWire, Sequences, FiniteSets, FiniteSetsExt

CONSTANTS
  MaxFragments,  \* fragments one message may have (255)
  MaxUnacked,    \* max_messages_in_flight
  LogCapacity,   \* TransmissionLog::kCapacity
  Plans          \* the settings and bounds a behaviour may run under

\* kinds: the [rel, ord, frags] of messages sent; messages: bound on how many;
\* batch: SentInfo::kMaxKeys, records per datagram; window: SendWindowCap(),
\* datagrams in flight; retries: max_retries; probes: bound on tail probes;
\* capacity: bound on datagrams on the wire at once; duplicates: bound on
\* deliveries that leave the datagram on the wire; may: which of the events
\* "prune", "expire" and "close" happen.
PlanFields == {"kinds", "messages", "batch", "window", "retries", "probes", "capacity",
               "duplicates", "may"}

ASSUME SenderAssumption ==
  /\ MaxFragments \in Nat /\ {MaxUnacked, LogCapacity} \subseteq Nat \ {0}
  /\ \A p \in Plans :
       /\ DOMAIN p = PlanFields
       /\ \A k \in p.kinds : k.rel \in BOOLEAN /\ k.ord \in BOOLEAN /\ k.frags \in Nat \ {0}
       /\ {p.messages, p.probes, p.capacity, p.duplicates} \subseteq Nat
       /\ {p.batch, p.retries} \subseteq Nat \ {0} /\ p.window \in Nat /\ p.window >= 2

NumMessages == Max({p.messages : p \in Plans})

VARIABLES
  plan,        \* the plan this behaviour follows
  offered,     \* the kinds of the messages accepted so far; message i is the i-th
  lane,        \* the channel's staged messages
  relSend, unrelSend,
  unacked,     \* (message_seq, frag_index) -> [rec, log, naked, sends]
  sent,        \* packet_seq -> keys of the reliable records it carried
  inFlight,    \* in_flight_datagrams_
  packets,     \* datagrams sent; next_packet_seq_ is PacketNumber(packets + 1)
  probes,
  senderClosed,
  net          \* datagrams on the wire

senderVars == <<plan, offered, lane, relSend, unrelSend, unacked, sent, inFlight,
                packets, probes, senderClosed, net>>

Without(f, S) == [x \in DOMAIN f \ S |-> f[x]]

Key(rec) == <<rec.seq, rec.frag>>

KeysOf(recs) == {Key(recs[i]) : i \in {j \in DOMAIN recs : recs[j].rel}}

\* kMaxSeqGap
MaxSeqGap == SeqPeriod \div 2

SenderInit ==
  /\ plan \in Plans
  /\ offered = <<>> /\ lane = <<>> /\ relSend = 0 /\ unrelSend = 0
  /\ unacked = <<>> /\ sent = <<>> /\ inFlight = 0
  /\ packets = 0 /\ probes = 0 /\ senderClosed = FALSE /\ net = {}

-----------------------------------------------------------------------------
(* Packing.                                                                 *)

\* Send(), and StageOutbound() moving the message into its lane.
Send(kind) ==
  /\ ~senderClosed /\ Len(offered) < plan.messages
  /\ offered' = Append(offered, kind)
  /\ lane' = Append(lane, [id |-> Len(offered) + 1, rel |-> kind.rel, ord |-> kind.ord,
                           frags |-> kind.frags])
  /\ UNCHANGED <<plan, relSend, unrelSend, unacked, sent, inFlight, packets, probes,
                 senderClosed, net>>

\* Messages of the lane's front before position i that use i's sequence space.
Before(i) == Cardinality({j \in 1..(i - 1) : lane[j].rel = lane[i].rel})

SeqAt(i) == (IF lane[i].rel THEN relSend ELSE unrelSend) + Before(i)

\* seq is the full number, wire what the record carries.
MakeRecord(i, frag) ==
  [id |-> lane[i].id, rel |-> lane[i].rel, ord |-> lane[i].ord,
   seq |-> SeqAt(i), wire |-> Truncate(SeqAt(i)),
   frag |-> frag, frags |-> lane[i].frags]

Oldest ==
  IF DOMAIN unacked = {} THEN relSend
  ELSE CHOOSE s \in {k[1] : k \in DOMAIN unacked} : \A k \in DOMAIN unacked : s <= k[1]

\* FlushOutbound's windows; only reliable messages are held back.
Admitted(i) ==
  lane[i].rel =>
    /\ Cardinality(DOMAIN unacked) + Before(i) < MaxUnacked
    /\ inFlight < plan.window
    /\ SeqAt(i) - Oldest < MaxSeqGap

\* Any of the new datagrams may be lost on the way.
Transmit(batches) ==
  \E arriving \in SUBSET {[n |-> packets + i, recs |-> batches[i]] : i \in 1..Len(batches)} :
    /\ Cardinality(net \cup arriving) <= plan.capacity
    /\ net' = net \cup arriving

\* Mutant: the entry a reused number had is overwritten, not retired.
Evicted_None(count) == 0

\* How many in-flight entries the next count numbers evict: the lap's old owners.
Evicted(count) ==
  Cardinality({w \in {PacketNumber(packets + i) : i \in 1..count} \cap DOMAIN sent :
                 sent[w] # {}})

\* SendBatch for each of batches in turn: a number each, the entry its number
\* had a lap ago retired.
SendBatches(batches) ==
  LET new == 1..Len(batches)
      seq(i) == PacketNumber(packets + i)
  IN /\ packets' = packets + Len(batches)
     /\ sent' = [w \in DOMAIN sent \cup {seq(i) : i \in new} |->
                   IF \E i \in new : seq(i) = w
                     THEN KeysOf(batches[CHOOSE i \in new : seq(i) = w])
                     ELSE sent[w]]
     /\ inFlight' = (inFlight - Evicted(Len(batches)))
          + Cardinality({i \in new : KeysOf(batches[i]) # {}})
     /\ Transmit(batches)

\* TrackReliable, and flush_batch logging the packet_seq.
Track(batches) ==
  LET new == UNION {KeysOf(batches[i]) : i \in DOMAIN batches}
      at(k) == CHOOSE i \in DOMAIN batches : k \in KeysOf(batches[i])
      rec(k) == CHOOSE r \in {batches[at(k)][j] : j \in DOMAIN batches[at(k)]} :
                  r.rel /\ Key(r) = k
  IN unacked' = [k \in DOMAIN unacked \cup new |->
                   IF k \in new
                     THEN [rec |-> rec(k), log |-> <<PacketNumber(packets + at(k))>>,
                           naked |-> FALSE, sends |-> 1]
                     ELSE unacked[k]]

\* The first b messages leave the lane.
Pop(b) ==
  /\ lane' = SubSeq(lane, b + 1, Len(lane))
  /\ relSend' = relSend + Cardinality({i \in 1..b : lane[i].rel})
  /\ unrelSend' = unrelSend + Cardinality({i \in 1..b : ~lane[i].rel})
  /\ UNCHANGED <<plan, offered, probes, senderClosed>>

\* FlushOutbound: small messages share a datagram ...
FlushBatch(b) ==
  /\ ~senderClosed /\ b \in 1..Len(lane)
  /\ \A i \in 1..b : lane[i].frags = 1 /\ Admitted(i)
  /\ LET batches == <<[i \in 1..b |-> MakeRecord(i, 0)]>>
     IN SendBatches(batches) /\ Track(batches)
  /\ Pop(b)

\* ... a large one goes out as a datagram per fragment ...
FlushFragments ==
  /\ ~senderClosed /\ lane # <<>>
  /\ lane[1].frags \in 2..MaxFragments /\ Admitted(1)
  /\ LET batches == [f \in 1..lane[1].frags |-> <<MakeRecord(1, f - 1)>>]
     IN SendBatches(batches) /\ Track(batches)
  /\ Pop(1)

\* ... and one with too many fragments is dropped, its number already taken.
FlushOversized ==
  /\ ~senderClosed /\ lane # <<>>
  /\ lane[1].frags > MaxFragments /\ Admitted(1)
  /\ Pop(1)
  /\ UNCHANGED <<unacked, sent, inFlight, packets, net>>

-----------------------------------------------------------------------------
(* Acknowledgments.                                                         *)

\* RetireSentPacket for every number in S that is still tracked.
Retire(S) ==
  LET n == Cardinality({w \in S \cap DOMAIN sent : sent[w] # {}})
  IN /\ sent' = Without(sent, S)
     /\ inFlight' = IF n > inFlight THEN 0 ELSE inFlight - n

LogOf(k) == {unacked[k].log[i] : i \in DOMAIN unacked[k].log}

\* Mutant: a message's other transmissions are left behind.
TransmissionsOf_None(keys) == {}

\* Every transmission of the messages in keys.
TransmissionsOf(keys) == UNION {LogOf(k) : k \in keys}

\* The peer has datagram w: everything in it is retired, and with each message
\* its other transmissions.
AckPacket(w) ==
  /\ ~senderClosed
  /\ IF w \in DOMAIN sent
       THEN LET keys == sent[w] \cap DOMAIN unacked
            IN /\ Retire({w} \cup TransmissionsOf(keys))
               /\ unacked' = Without(unacked, keys)
       ELSE UNCHANGED <<sent, inFlight, unacked>>
  /\ UNCHANGED <<plan, offered, lane, relSend, unrelSend, packets, probes, senderClosed, net>>

\* The peer reports w missing: its messages are due at once, and w is forgotten
\* so that one loss costs one resend.
OnNak(w) ==
  /\ ~senderClosed
  /\ IF w \in DOMAIN sent
       THEN /\ Retire({w})
            /\ unacked' = [k \in DOMAIN unacked |->
                             IF k \in sent[w] THEN [unacked[k] EXCEPT !.naked = TRUE]
                             ELSE unacked[k]]
       ELSE UNCHANGED <<sent, inFlight, unacked>>
  /\ UNCHANGED <<plan, offered, lane, relSend, unrelSend, packets, probes, senderClosed, net>>

-----------------------------------------------------------------------------
(* Timers.                                                                  *)

AddToLog(log, w) ==
  LET longer == Append(log, w)
  IN IF Len(longer) > LogCapacity THEN Tail(longer) ELSE longer

\* RetransmitUnacked finds k due (its timeout passed, or it was reported lost).
Retransmit(k) ==
  /\ ~senderClosed /\ k \in DOMAIN unacked /\ unacked[k].sends < plan.retries
  /\ SendBatches(<< <<unacked[k].rec>> >>)
  /\ unacked' = [unacked EXCEPT ![k].log = AddToLog(@, PacketNumber(packets + 1)),
                                ![k].naked = FALSE, ![k].sends = @ + 1]
  /\ UNCHANGED <<plan, offered, lane, relSend, unrelSend, probes, senderClosed>>

\* Mutant: one attempt too many is waited for, and never made.
GiveUp_OneLater(k) ==
  /\ ~senderClosed /\ k \in DOMAIN unacked /\ unacked[k].sends > plan.retries
  /\ senderClosed' = TRUE
  /\ UNCHANGED <<plan, offered, lane, relSend, unrelSend, unacked, sent, inFlight,
                 packets, probes, net>>

\* ... unless it was sent too often: the connection is closed.
GiveUp(k) ==
  /\ ~senderClosed /\ k \in DOMAIN unacked /\ unacked[k].sends >= plan.retries
  /\ senderClosed' = TRUE
  /\ UNCHANGED <<plan, offered, lane, relSend, unrelSend, unacked, sent, inFlight,
                 packets, probes, net>>

\* MaybeTailProbe: acks went silent, the newest message goes out once more.
\* Which one is newest depends on the clock, so it may be any.
TailProbe(k) ==
  /\ ~senderClosed /\ k \in DOMAIN unacked /\ probes < plan.probes
  /\ SendBatches(<< <<unacked[k].rec>> >>)
  /\ unacked' = [unacked EXCEPT ![k].log = AddToLog(@, PacketNumber(packets + 1))]
  /\ probes' = probes + 1
  /\ UNCHANGED <<plan, offered, lane, relSend, unrelSend, senderClosed>>

\* PruneSentPackets: an entry older than four maximal timeouts is dropped.
PruneSent(w) ==
  /\ ~senderClosed /\ w \in DOMAIN sent
  /\ Retire({w})
  /\ UNCHANGED <<plan, offered, lane, relSend, unrelSend, unacked, packets, probes,
                 senderClosed, net>>

-----------------------------------------------------------------------------
Flush == (\E b \in 1..plan.batch : FlushBatch(b)) \/ FlushFragments \/ FlushOversized

Timeout == \E k \in DOMAIN unacked : Retransmit(k) \/ GiveUp(k)

SenderStep == \/ \E kind \in plan.kinds : Send(kind)
              \/ Flush \/ Timeout
              \/ \E k \in DOMAIN unacked : TailProbe(k)
              \/ \E w \in DOMAIN sent : PruneSent(w)

\* The sender against a peer that may acknowledge or report anything.
SenderNext == SenderStep \/ \E w \in 0..(PacketPeriod - 1) : AckPacket(w) \/ OnNak(w)

SenderSpec == SenderInit /\ [][SenderNext]_senderVars

Carrying == {w \in DOMAIN sent : sent[w] # {}}

\* in_flight_datagrams_ is exact: it counts the tracked datagrams that carry a
\* reliable record, through every path that adds, replaces or drops one, so the
\* congestion window neither leaks shut nor opens too far.
InFlightExact == inFlight = Cardinality(Carrying)

\* "datagrams awaiting an acknowledgment, which is what the congestion window
\* bounds": no more are ever in flight than the window's hard ceiling.
InFlightBounded == inFlight <= plan.window

\* "dropping each message's other transmissions keeps a sent_packets_ entry from
\* outliving the unacked_ entry that owns it": every key of a tracked datagram is
\* still unacked, and that message's log names the datagram.
NoOrphans ==
  \A w \in DOMAIN sent : \A k \in sent[w] : k \in DOMAIN unacked /\ w \in LogOf(k)

\* What ProcessAcks, OnNak and the retransmission timer work on is exact: the count the
\* window is compared with, and the datagrams a message is carried by.
TrackingExact == InFlightExact /\ NoOrphans
=============================================================================
