---------------------------- MODULE ZdtArrivals ----------------------------
(***************************************************************************)
(* The history over a connection's life: datagrams 1, 2, 3, ... of the peer *)
(* arrive late, twice or not at all, at most MaxLag behind the newest.      *)
(***************************************************************************)
EXTENDS ZdtAckHistory

CONSTANTS MaxPacket,   \* bound: datagrams the peer sends
          MaxLag       \* assumption: no datagram is later than this

ASSUME LagAssumption ==
  MaxPacket \in Nat /\ MaxLag \in Nat /\ MaxLag < PacketPeriod \div 2 - 1

VARIABLES history,   \* ack_history_
          arrived    \* the datagrams recorded so far

Newest == IF arrived = {} THEN 0 ELSE CHOOSE n \in arrived : \A m \in arrived : m <= n

HistoryInit == history = NoHistory /\ arrived = {}

\* ProcessInbound records the datagram once every record in it was taken.
Arrive(n) ==
  /\ arrived # {} => n \in (Newest - MaxLag)..(Newest + MaxLag)
  /\ history' = Record(history, PacketNumber(n))
  /\ arrived' = arrived \cup {n}

HistoryNext == \E n \in 1..MaxPacket : Arrive(n)

HistorySpec == HistoryInit /\ [][HistoryNext]_<<history, arrived>>

\* Whatever room the datagram has and however far back is worth reporting, an
\* acknowledgment built by Fill() and read by ProcessAcks acknowledges only
\* datagrams that arrived and reports as missing only datagrams that did not:
\* cutting runs never folds a gap into a run of acknowledgments, and a new
\* connection invents no losses of datagrams that were never sent.
ReportFaithful ==
  LET recent == {n \in (Newest - HistoryBits + 1)..Newest : n >= 1}
      came == {PacketNumber(n) : n \in recent \cap arrived}
      sent == {PacketNumber(n) : n \in recent}
  IN  \A maxBlocks \in 0..HistoryBits, reportable \in 0..HistoryBits :
        LET reports == Reports(Fill(history, maxBlocks, reportable))
        IN \A i \in DOMAIN reports :
             /\ reports[i].arrived <=> reports[i].seq \in came
             /\ reports[i].seq # 0 => reports[i].seq \in sent
=============================================================================
