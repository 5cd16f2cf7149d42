------------------------------ MODULE ZdtWire ------------------------------
(***************************************************************************)
(* Sequence numbers of the ZDT wire format (zdt_wire.h).  They travel       *)
(* truncated to one period and are rebuilt, or compared, at the other end.  *)
(***************************************************************************)
EXTENDS Integers

CONSTANTS SeqPeriod,     \* message sequences travel modulo this (2^16 in the code)
          PacketPeriod   \* packet sequences are modulo this (2^16 in the code)

ASSUME PeriodAssumption ==
  /\ SeqPeriod \in Nat /\ SeqPeriod >= 2 /\ SeqPeriod % 2 = 0
  /\ PacketPeriod \in Nat /\ PacketPeriod >= 4 /\ PacketPeriod % 2 = 0

\* MakeRecord's cast: the wire value of a full message sequence.
Truncate(seq) == seq % SeqPeriod

\* Mutant: the lower edge of the half period is taken for the next lap.
ReconstructSeq_OffByOne(truncated, expected) ==
  LET half == SeqPeriod \div 2
      candidate == (expected - (expected % SeqPeriod)) + truncated
  IN IF candidate + half <= expected THEN candidate + SeqPeriod ELSE candidate

\* ReconstructSeq(): the full number with this wire value nearest to expected.
ReconstructSeq(truncated, expected) ==
  LET half == SeqPeriod \div 2
      candidate == (expected - (expected % SeqPeriod)) + truncated
  IN IF candidate + half < expected THEN candidate + SeqPeriod
     ELSE IF candidate >= expected + half /\ candidate >= SeqPeriod
            THEN candidate - SeqPeriod
            ELSE candidate

\* SendBatch's numbering: 1, 2, ..., period - 1, then 1 again; 0 is reserved.
PacketNumber(n) == ((n - 1) % (PacketPeriod - 1)) + 1

\* a - b read as a signed number of the wire's width.
SignedDistance(a, b) ==
  LET d == (a - b) % PacketPeriod
  IN IF d < PacketPeriod \div 2 THEN d ELSE d - PacketPeriod

SeqGreater(a, b) == SignedDistance(a, b) > 0
SeqLess(a, b) == SignedDistance(a, b) < 0
=============================================================================
