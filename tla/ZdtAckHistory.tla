--------------------------- MODULE ZdtAckHistory ---------------------------
(***************************************************************************)
(* The receiver's record of which packet sequences arrived                  *)
(* (zdt_ack_history.cc) and the run-length blocks an acknowledgment carries *)
(* (zdt_transport.cc reads them back in ProcessAcks).                       *)
(***************************************************************************)
EXTENDS ZdtWire, Sequences

CONSTANTS HistoryBits,    \* kZDTAckHistoryBits
          RunMax          \* longest run a block's byte can count (255)

ASSUME HistoryAssumption ==
  /\ HistoryBits \in Nat \ {0} /\ RunMax \in Nat \ {0}
  /\ PacketPeriod > 2 * HistoryBits

Bits == 0..(HistoryBits - 1)

\* ZDTAckHistory: bit b is "packet_seq (highest - b) arrived".
NoHistory ==
  [any |-> FALSE, highest |-> 0, bits |-> [b \in Bits |-> FALSE], valid |-> 0]

\* Mutant: the bit shifted to the edge is lost.
ShiftHistoryUp_LosesNewest(bits, n) == [b \in Bits |-> b > n /\ bits[b - n]]

ShiftHistoryUp(bits, n) == [b \in Bits |-> b >= n /\ bits[b - n]]

SetHistoryBit(bits, i) == [bits EXCEPT ![i] = TRUE]

Lesser(a, b) == IF a < b THEN a ELSE b

\* There is no loss to report before the first datagram.
FirstRecord(seq) ==
  [any |-> TRUE, highest |-> seq, bits |-> [b \in Bits |-> b = 0], valid |-> 1]

Record(h, seq) ==
  IF ~h.any
    THEN FirstRecord(seq)
  ELSE IF SeqGreater(seq, h.highest)
    THEN LET shift == (seq - h.highest) % PacketPeriod
         IN [any |-> TRUE, highest |-> seq,
             bits |-> SetHistoryBit(ShiftHistoryUp(h.bits, shift), 0),
             valid |-> Lesser(h.valid + shift, HistoryBits)]
  ELSE LET back == (h.highest - seq) % PacketPeriod
       IN IF SeqLess(seq, h.highest) /\ back < HistoryBits
            THEN [h EXCEPT !.bits = SetHistoryBit(h.bits, back)]
            ELSE h

\* Length of the run of bits equal to want that starts at b.
Run(h, b, limit, want) ==
  CHOOSE k \in 0..RunMax :
    /\ \A j \in 0..(k - 1) : b + j < limit /\ h.bits[b + j] = want
    /\ (k < RunMax /\ b + k < limit) => h.bits[b + k] # want

\* Fill(): runs of arrived and missing packets, newest first, cut to what fits
\* and without trailing blocks that acknowledge nothing.
Fill(h, maxBlocks, reportable) ==
  LET limit == Lesser(h.valid, reportable)
      blocksFrom[b \in 0..limit] ==
        IF b = limit THEN <<>>
        ELSE LET acks == Run(h, b, limit, TRUE)
                 nacks == Run(h, b + acks, limit, FALSE)
             IN <<[num_ack |-> acks, num_nack |-> nacks]>>
                  \o blocksFrom[b + acks + nacks]
      blocks == blocksFrom[0]
      fitting == SubSeq(blocks, 1, Lesser(maxBlocks, Len(blocks)))
      kept == CHOOSE n \in 0..Len(fitting) :
                /\ n > 0 => fitting[n].num_ack > 0
                /\ \A i \in (n + 1)..Len(fitting) : fitting[i].num_ack = 0
  IN [ack |-> h.highest, blocks |-> IF h.any THEN SubSeq(fitting, 1, kept) ELSE <<>>]

\* ProcessAcks' walk over the blocks: the reports in the order it acts on them,
\* offset by offset back from header.ack.
Reports(header) ==
  LET flags(b) == [k \in 1..(b.num_ack + b.num_nack) |-> k <= b.num_ack]
      from[i \in 1..(Len(header.blocks) + 1)] ==
        IF i > Len(header.blocks) THEN <<>> ELSE flags(header.blocks[i]) \o from[i + 1]
      walk == from[1]
  IN [i \in DOMAIN walk |->
        [seq |-> (header.ack - (i - 1)) % PacketPeriod, arrived |-> walk[i]]]
=============================================================================
