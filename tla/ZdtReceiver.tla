---------------------------- MODULE ZdtReceiver ----------------------------
(***************************************************************************)
(* The receiving half of a ZDT connection (zdt_transport.cc): the records   *)
(* of a datagram are taken one by one, fragments collected, each message    *)
(* delivered as its mode promises, and the datagram recorded as arrived     *)
(* only if every record in it was taken.  One channel.                      *)
(***************************************************************************)
EXTENDS ZdtAckHistory, FiniteSets

CONSTANTS
  MaxReassemblies,   \* max_reassemblies (max_reassembly_bytes refuses alike)
  MaxBlocks,         \* ack blocks that fit a datagram
  Reportable         \* SendWindowCap() + 64

ASSUME ReceiverAssumption == {MaxReassemblies, MaxBlocks, Reportable} \subseteq Nat \ {0}

VARIABLES
  relExpected, relReorder, relAhead,   \* ChannelState, reliable
  unrelLast, unrelStarted,             \* ChannelState, unreliable
  reassembly,      \* <<reliable, sequence>> -> [count, parts]
  ready,           \* messages handed up, oldest first (ready_ and all before it)
  history,         \* ack_history_
  needsAck,        \* needs_ack_
  inbound,         \* records of the current datagram still to be taken
  inboundPacket,   \* its packet_seq, 0 when there is none
  acceptedAll,     \* accepted_all
  receiverClosed

channelVars == <<relExpected, relReorder, relAhead, unrelLast, unrelStarted, ready>>
receiverVars == <<channelVars, reassembly, history, needsAck, inbound, inboundPacket,
                  acceptedAll, receiverClosed>>

Torn == 0   \* a message put together from fragments of different ones

ReceiverInit ==
  /\ relExpected = 0 /\ relReorder = <<>> /\ relAhead = {}
  /\ unrelLast = 0 /\ unrelStarted = FALSE
  /\ reassembly = <<>> /\ ready = <<>> /\ history = NoHistory /\ needsAck = FALSE
  /\ inbound = <<>> /\ inboundPacket = 0 /\ acceptedAll = TRUE /\ receiverClosed = FALSE

-----------------------------------------------------------------------------
\* ReconstructSeqFor()
FullSeq(rec) ==
  IF rec.rel THEN ReconstructSeq(rec.wire, relExpected)
  ELSE ReconstructSeq(rec.wire, IF unrelStarted THEN unrelLast + 1 ELSE 0)

\* The end of the contiguous run of have that starts at from.
RunEnd(from, have) ==
  CHOOSE e \in from..(from + Cardinality(have)) :
    e \notin have /\ \A s \in from..(e - 1) : s \in have

DeliverUnordered(id) ==
  /\ ready' = Append(ready, id)
  /\ UNCHANGED <<relExpected, relReorder, relAhead, unrelLast, unrelStarted>>

\* Mutant: only the very next message is delivered.
DeliverSequenced_NextOnly(id, seq) ==
  /\ IF ~unrelStarted \/ seq = unrelLast + 1
       THEN unrelStarted' = TRUE /\ unrelLast' = seq /\ ready' = Append(ready, id)
       ELSE UNCHANGED <<unrelStarted, unrelLast, ready>>
  /\ UNCHANGED <<relExpected, relReorder, relAhead>>

DeliverSequenced(id, seq) ==
  /\ IF ~unrelStarted \/ seq > unrelLast
       THEN unrelStarted' = TRUE /\ unrelLast' = seq /\ ready' = Append(ready, id)
       ELSE UNCHANGED <<unrelStarted, unrelLast, ready>>
  /\ UNCHANGED <<relExpected, relReorder, relAhead>>

\* Mutant: what was delivered ahead of the watermark is not remembered.
DeliverReliableUnordered_Forgets(id, seq) ==
  /\ IF seq < relExpected THEN UNCHANGED <<ready, relExpected>>
     ELSE /\ ready' = Append(ready, id)
          /\ relExpected' = IF seq = relExpected THEN seq + 1 ELSE relExpected
  /\ UNCHANGED <<relAhead, relReorder, unrelLast, unrelStarted>>

DeliverReliableUnordered(id, seq) ==
  /\ IF seq < relExpected \/ seq \in relAhead
       THEN UNCHANGED <<ready, relExpected, relAhead>>
       ELSE /\ ready' = Append(ready, id)
            /\ relExpected' = RunEnd(relExpected, relAhead \cup {seq})
            /\ relAhead' = {s \in relAhead \cup {seq} : s >= relExpected'}
  /\ UNCHANGED <<relReorder, unrelLast, unrelStarted>>

\* Mutants: a message from the future is delivered at once; it is dropped.
DeliverReliableOrdered_Skips(id, seq) ==
  /\ IF seq < relExpected THEN UNCHANGED <<ready, relExpected>>
     ELSE ready' = Append(ready, id) /\ relExpected' = seq + 1
  /\ UNCHANGED <<relReorder, relAhead, unrelLast, unrelStarted>>

DeliverReliableOrdered_DropsFuture(id, seq) ==
  /\ IF seq # relExpected THEN UNCHANGED <<ready, relExpected>>
     ELSE ready' = Append(ready, id) /\ relExpected' = seq + 1
  /\ UNCHANGED <<relReorder, relAhead, unrelLast, unrelStarted>>

DeliverReliableOrdered(id, seq) ==
  /\ \/ /\ seq < relExpected
        /\ UNCHANGED <<ready, relExpected, relReorder>>
     \/ /\ seq = relExpected
        /\ relExpected' = RunEnd(seq + 1, DOMAIN relReorder)
        /\ ready' = Append(ready, id)
                      \o [i \in 1..(relExpected' - seq - 1) |-> relReorder[seq + i]]
        /\ relReorder' = [s \in DOMAIN relReorder \ (seq + 1)..(relExpected' - 1)
                            |-> relReorder[s]]
     \/ /\ seq > relExpected   \* emplace keeps what is already there
        /\ relReorder' = [s \in DOMAIN relReorder \cup {seq} |->
                            IF s \in DOMAIN relReorder THEN relReorder[s] ELSE id]
        /\ UNCHANGED <<ready, relExpected>>
  /\ UNCHANGED <<relAhead, unrelLast, unrelStarted>>

DeliverMessage(rec, id) ==
  \/ ~rec.rel /\ ~rec.ord /\ DeliverUnordered(id)
  \/ ~rec.rel /\ rec.ord /\ DeliverSequenced(id, FullSeq(rec))
  \/ rec.rel /\ ~rec.ord /\ DeliverReliableUnordered(id, FullSeq(rec))
  \/ rec.rel /\ rec.ord /\ DeliverReliableOrdered(id, FullSeq(rec))

-----------------------------------------------------------------------------
\* OnDataFragment at capacity: a fragment that would start a message is refused.
Refused(key) ==
  key \notin DOMAIN reassembly /\ Cardinality(DOMAIN reassembly) >= MaxReassemblies

\* The parts of a message once rec is among them.
Collect(key, rec) ==
  LET parts == IF key \in DOMAIN reassembly THEN reassembly[key].parts ELSE <<>>
  IN [f \in DOMAIN parts \cup {rec.frag} |-> IF f = rec.frag THEN rec.id ELSE parts[f]]

Whole(parts) == IF \A f, g \in DOMAIN parts : parts[f] = parts[g] THEN parts[0] ELSE Torn

OnDataFragment(rec, key) ==
  IF Refused(key) \/ (key \in DOMAIN reassembly /\ reassembly[key].count # rec.frags)
    THEN UNCHANGED <<reassembly, channelVars>>
  ELSE LET parts == Collect(key, rec)
       IN IF Cardinality(DOMAIN parts) # rec.frags
            THEN /\ reassembly' = [k \in DOMAIN reassembly \cup {key} |->
                       IF k = key THEN [count |-> rec.frags, parts |-> parts]
                       ELSE reassembly[k]]
                 /\ UNCHANGED channelVars
            ELSE /\ reassembly' = [k \in DOMAIN reassembly \ {key} |-> reassembly[k]]
                 /\ DeliverMessage(rec, Whole(parts))

\* Mutant: a refused fragment is acknowledged like any other.
Accepted_Always(rec, key) == TRUE

\* OnRecord's result: FALSE makes the datagram go unacknowledged.
Accepted(rec, key) == ~(rec.frags > 1 /\ rec.rel /\ Refused(key))

\* ProcessInbound takes a datagram out of the inbox ...
BeginDatagram(d) ==
  /\ ~receiverClosed /\ inboundPacket = 0
  /\ inbound' = d.recs /\ inboundPacket' = PacketNumber(d.n) /\ acceptedAll' = TRUE
  /\ UNCHANGED <<channelVars, reassembly, history, needsAck, receiverClosed>>

\* ... takes its records one by one, and after the last one records the arrival.
OnRecord ==
  /\ inbound # <<>>
  /\ LET rec == Head(inbound)
         key == <<rec.rel, FullSeq(rec)>>
     IN /\ IF rec.frags > 1 THEN OnDataFragment(rec, key)
           ELSE DeliverMessage(rec, rec.id) /\ UNCHANGED reassembly
        /\ acceptedAll' = (acceptedAll /\ Accepted(rec, key))
  /\ needsAck' = TRUE
  /\ inbound' = Tail(inbound)
  /\ IF inbound' = <<>>
       THEN /\ inboundPacket' = 0
            /\ history' = IF acceptedAll' THEN Record(history, inboundPacket) ELSE history
       ELSE UNCHANGED <<inboundPacket, history>>
  /\ UNCHANGED receiverClosed

\* Flush() owes an acknowledgment: SendControl's header.
Acknowledgment == Fill(history, MaxBlocks, Reportable)

AckSent ==
  /\ ~receiverClosed /\ inboundPacket = 0 /\ needsAck
  /\ needsAck' = FALSE
  /\ UNCHANGED <<channelVars, reassembly, history, inbound, inboundPacket, acceptedAll,
                 receiverClosed>>

\* reassembly_timeout passed for a message that is still incomplete.
PruneReassembly(key) ==
  /\ ~receiverClosed /\ inboundPacket = 0 /\ key \in DOMAIN reassembly
  /\ reassembly' = [k \in DOMAIN reassembly \ {key} |-> reassembly[k]]
  /\ UNCHANGED <<channelVars, history, needsAck, inbound, inboundPacket, acceptedAll,
                 receiverClosed>>

\* A FIN: whatever arrived behind it is never looked at.
ReceiveFin ==
  /\ ~receiverClosed /\ inboundPacket = 0
  /\ receiverClosed' = TRUE
  /\ UNCHANGED <<channelVars, reassembly, history, needsAck, inbound, inboundPacket,
                 acceptedAll>>
=============================================================================
