------------------------------ MODULE ZdtLink ------------------------------
(***************************************************************************)
(* A ZDT connection in one direction: a sender and a receiver joined by a   *)
(* network that loses, duplicates, delays and reorders datagrams, with      *)
(* acknowledgments coming back over the same kind of network.               *)
(***************************************************************************)
EXTENDS ZdtSender, ZdtReceiver

CONSTANTS
  MaxLag,        \* assumption: datagrams the sender may send while one travels
  MaxSeqLag,     \* assumption: messages it may number while one travels
  AckCapacity    \* bound: acknowledgments on the wire at once

ASSUME LinkAssumption ==
  /\ {MaxLag, MaxSeqLag, AckCapacity} \subseteq Nat
  /\ MaxLag < PacketPeriod \div 2 - 1 /\ MaxLag + HistoryBits < PacketPeriod - 1
  /\ \A p \in Plans : p.may \subseteq {"prune", "expire", "close"}

VARIABLES
  acks,        \* acknowledgments on the wire; at is the sender's count then
  reports,     \* what ProcessAcks has still to act on
  duplicates,
  fin          \* "none", "sent" or "gone": the FIN of a closing sender

linkVars == <<acks, reports, duplicates, fin>>
vars == <<senderVars, receiverVars, linkVars>>

Init ==
  /\ SenderInit /\ ReceiverInit
  /\ acks = {} /\ reports = <<>> /\ duplicates = 0 /\ fin = "none"

-----------------------------------------------------------------------------
\* The network delivers nothing that has been overtaken too far.
Fresh(d) ==
  /\ packets - d.n <= MaxLag
  /\ \A i \in DOMAIN d.recs :
       (IF d.recs[i].rel THEN relSend ELSE unrelSend) - d.recs[i].seq <= MaxSeqLag

FreshAck(a) == packets - a.at <= MaxLag

Receive(d) ==
  /\ Fresh(d)
  /\ BeginDatagram(d)
  /\ \/ net' = net \ {d} /\ UNCHANGED duplicates
     \/ duplicates < plan.duplicates /\ duplicates' = duplicates + 1 /\ UNCHANGED net
  /\ UNCHANGED <<plan, offered, lane, relSend, unrelSend, unacked, sent, inFlight, packets,
                 probes, senderClosed, acks, reports, fin>>

\* Datagrams nobody will ever see again leave the model.
Expire ==
  /\ \E d \in net : ~Fresh(d)
  /\ net' = {d \in net : Fresh(d)}
  /\ UNCHANGED <<plan, offered, lane, relSend, unrelSend, unacked, sent, inFlight, packets,
                 probes, senderClosed, receiverVars, linkVars>>

SendAck ==
  /\ AckSent
  /\ LET ack == [header |-> Acknowledgment, at |-> packets]
     IN acks' \in {acks, {a \in acks : FreshAck(a)} \cup {ack}}
  /\ Cardinality(acks') <= AckCapacity
  /\ UNCHANGED <<senderVars, reports, duplicates, fin>>

\* ProcessAcks: one acknowledgment, read report by report, while the worker
\* does nothing else.
ReceiveAck(a) ==
  /\ ~senderClosed /\ reports = <<>> /\ FreshAck(a)
  /\ reports' = Reports(a.header)
  /\ \/ acks' = acks \ {a} /\ UNCHANGED duplicates
     \/ duplicates < plan.duplicates /\ duplicates' = duplicates + 1 /\ UNCHANGED acks
  /\ UNCHANGED <<senderVars, receiverVars, fin>>

ProcessReport ==
  /\ reports # <<>>
  /\ LET r == Head(reports)
     IN IF r.arrived THEN AckPacket(r.seq) ELSE OnNak(r.seq)
  /\ reports' = Tail(reports)
  /\ UNCHANGED <<receiverVars, acks, duplicates, fin>>

\* Close() by the application.  It runs on the application's thread, so a FIN may
\* leave between any two steps of the worker.
Close ==
  /\ "close" \in plan.may /\ ~senderClosed
  /\ senderClosed' = TRUE /\ fin' = "sent" /\ reports' = <<>>
  /\ UNCHANGED <<plan, offered, lane, relSend, unrelSend, unacked, sent, inFlight, packets,
                 probes, net, receiverVars, acks, duplicates>>

FinArrives ==
  /\ fin = "sent" /\ ReceiveFin /\ fin' = "gone"
  /\ UNCHANGED <<senderVars, acks, reports, duplicates>>

Worker(A) == reports = <<>> /\ A /\ UNCHANGED <<receiverVars, linkVars>>

Retransmission == Worker(\E k \in DOMAIN unacked : Retransmit(k))

GivenUp ==
  /\ reports = <<>> /\ \E k \in DOMAIN unacked : GiveUp(k)
  /\ fin' = "sent"
  /\ UNCHANGED <<receiverVars, acks, reports, duplicates>>

Next ==
  \/ Worker(\E kind \in plan.kinds : Send(kind))
  \/ Worker(Flush)
  \/ Retransmission
  \/ GivenUp
  \/ Worker(\E k \in DOMAIN unacked : TailProbe(k))
  \/ Worker("prune" \in plan.may /\ \E w \in DOMAIN sent : PruneSent(w))
  \/ \E d \in net : Receive(d)
  \/ Expire
  \/ OnRecord /\ UNCHANGED <<senderVars, linkVars>>
  \/ "expire" \in plan.may /\ (\E key \in DOMAIN reassembly : PruneReassembly(key))
               /\ UNCHANGED <<senderVars, linkVars>>
  \/ SendAck
  \/ \E a \in acks : ReceiveAck(a)
  \/ ProcessReport
  \/ Close
  \/ FinArrives

Spec == Init /\ [][Next]_vars

\* Every tick flushes what the window allows, runs due retransmits and handles
\* what is in the inbox; timers eventually pass.  Nothing is assumed of the network.
Fairness ==
  /\ WF_vars(Worker(Flush)) /\ WF_vars(Retransmission) /\ WF_vars(GivenUp)
  /\ WF_vars(OnRecord /\ UNCHANGED <<senderVars, linkVars>>)
  /\ WF_vars(ProcessReport)

FairSpec == Spec /\ Fairness

-----------------------------------------------------------------------------
(* What the connection promises.                                            *)

Reliable(i) == offered[i].rel
IsOrdered(i) == offered[i].rel /\ offered[i].ord
Delivered == {ready[i] : i \in DOMAIN ready}

\* A message sent reliable and ordered is delivered once, whole, in send order
\* and only after every earlier one, whatever the network does: the channel
\* implements FifoChannel.
Fifo == INSTANCE FifoChannel WITH
          Message <- 1..NumMessages, Window <- NumMessages,
          sent <- SelectSeq([i \in DOMAIN offered |-> i], IsOrdered),
          received <- SelectSeq(ready, IsOrdered)
OrderedDelivery == Fifo!Spec

\* A reliable unordered message is delivered at most once and never torn, however
\* often it was resent: rel_expected and rel_delivered_ahead remember it.
DeliveredOnce ==
  \A i, j \in DOMAIN ready :
    ready[i] # Torn /\ (ready[i] = ready[j] /\ Reliable(ready[i]) => i = j)

Sequenced(i) == ~offered[i].rel /\ offered[i].ord

\* "a message older than one already delivered is dropped", and no other: a
\* sequenced message is delivered at once when it is newer than every one before
\* it, and only then (DeliverMessage's test against unrel_last).
SequencedDropsOnlyOld ==
  [][\A i \in DOMAIN inbound :
       LET m == Head(inbound).id
       IN i = 1 /\ inbound' = Tail(inbound) /\ Sequenced(m)
            => ((\A j \in Delivered : Sequenced(j) => j < m)
                  <=> ready' = Append(ready, m))]_vars

\* The message that was given reliable sequence s, and its fragments' keys.
MessageOf(s) ==
  SelectSeq([i \in DOMAIN offered |-> i], Reliable)[s + 1]

Fragments(s) == 0..(offered[MessageOf(s)].frags - 1)

\* The receiver has taken responsibility for fragment f of message s.
Taken(s, f) ==
  \/ s < relExpected \/ s \in relAhead \/ s \in DOMAIN relReorder
  \/ <<TRUE, s>> \in DOMAIN reassembly /\ f \in DOMAIN reassembly[<<TRUE, s>>].parts

\* "acknowledging a datagram tells the sender it may retire everything in it, so
\* only do that once all of it was taken": what the sender sent and no longer
\* tracks, the receiver has.
AckSafe ==
  \A s \in 0..(relSend - 1) : offered[MessageOf(s)].frags <= MaxFragments =>
    \A f \in Fragments(s) : <<s, f>> \in DOMAIN unacked \/ Taken(s, f)

\* Once the sender has nothing left to send or to resend, every reliable message
\* that can be sent at all has been delivered: none was dropped, and none waits in
\* a reorder buffer for something that will never come.
AckedMeansDelivered ==
  lane = <<>> /\ unacked = <<>> =>
    \A i \in DOMAIN offered :
      Reliable(i) /\ offered[i].frags <= MaxFragments => i \in Delivered

\* "a late retransmit can never reconstruct onto a live message": every reliable
\* record that can still arrive is read back under its own full sequence.
ReconstructExact ==
  \A d \in net : Fresh(d) =>
    \A i \in DOMAIN d.recs :
      d.recs[i].rel => ReconstructSeq(d.recs[i].wire, relExpected) = d.recs[i].seq

\* "anything that falls off the back is forgotten, which is safe because the peer
\* cannot still be waiting on it": no datagram the sender still tracks is too old
\* for the receiver's history.
ForgottenIsSettled ==
  \A w \in Carrying : SeqLess(w, history.highest) =>
    (history.highest - w) % PacketPeriod < HistoryBits

\* "Retransmit until acknowledged": a reliable message is delivered unless the
\* connection is closed.
DeliveredOrClosed ==
  \A i \in 1..NumMessages :
    (i \in DOMAIN offered /\ offered[i].rel) ~> (i \in Delivered \/ senderClosed)

\* What the receiver makes of reliable records: each is read back under its own
\* number, taken before the sender forgets it, and delivered once.
ReadExactlyOnce == ReconstructExact /\ AckSafe /\ DeliveredOnce

\* What the two ordering modes promise (send_options.h, "Deliver in send order" and
\* the sequenced mode): a FIFO channel, and only old messages dropped.
DeliveryModes == OrderedDelivery /\ SequencedDropsOnlyOld
=============================================================================
