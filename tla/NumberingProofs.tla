-------------------------- MODULE NumberingProofs --------------------------
(***************************************************************************)
(* What numbers still tell after the network has reordered, repeated and    *)
(* lost them, for every period and every width: a truncated message number  *)
(* is rebuilt and datagrams compare as they were sent, the history a        *)
(* receiver acknowledges from is exact, the congestion window is cut once   *)
(* per epoch, and the replay window refuses repeats and nothing else.       *)
(***************************************************************************)
EXTENDS ZdtArrivals, Congestion, ReplayStream, TLAPS

\* Division with remainder.
LEMMA Divided ==
  ASSUME NEW N \in Nat \ {0}, NEW a \in Nat
  PROVE  a % N \in 0..(N - 1) /\ a = N * (a \div N) + (a % N) /\ (a \div N) \in Nat
OBVIOUS

\* Laps are at least a period apart.
LEMMA LapsApart ==
  ASSUME NEW N \in Nat \ {0}, NEW x \in Nat, NEW y \in Nat, x < y
  PROVE  N * x + N <= N * y
<1>1. PICK k \in Nat : y = x + 1 + k
  BY y - x - 1 \in Nat
<1>2. N * y = N * x + N + N * k
  BY <1>1
<1>3. N * k >= 0
  OBVIOUS
<1> QED BY <1>2, <1>3

\* The same number, seen from the lap before or after.
LEMMA Wrapped ==
  ASSUME NEW N \in Nat \ {0}, NEW x \in Int
  PROVE  /\ x \in 0..(N - 1) => x % N = x
         /\ x \in (-N)..(-1) => x % N = x + N
OBVIOUS

\* Two numbers less than a lap apart are in one lap or in neighbouring ones.
LEMMA NeighbouringLaps ==
  ASSUME NEW N \in Nat \ {0}, NEW p \in Nat, NEW q \in Nat, NEW r \in 0..(N - 1), NEW t \in 0..(N - 1),
         (N * p + r) - (N * q + t) \in (-N)..N
  PROVE  \/ p = q
         \/ p = q + 1 /\ N * p = N * q + N
         \/ q = p + 1 /\ N * q = N * p + N
<1>1. N * p \in Int /\ N * q \in Int /\ p + 1 \in Nat /\ q + 1 \in Nat
  OBVIOUS
<1>2. N * (p + 1) = N * p + N /\ N * (q + 1) = N * q + N
  OBVIOUS
<1>3. ~(q + 1 < p)
  <2>1. q + 1 < p => N * (q + 1) + N <= N * p
    BY <1>1, LapsApart
  <2>2. QED BY <1>1, <1>2, <2>1
<1>4. ~(p + 1 < q)
  <2>1. p + 1 < q => N * (p + 1) + N <= N * q
    BY <1>1, LapsApart
  <2>2. QED BY <1>1, <1>2, <2>1
<1>5. p = q \/ p = q + 1 \/ q = p + 1
  BY <1>3, <1>4
<1>6. QED BY <1>2, <1>5

-----------------------------------------------------------------------------
(* A message sequence that is less than half a period ahead of the expected one, or at
   most half a period behind, is rebuilt exactly from the bits that travelled, over any
   number of laps (ReconstructSeq). *)
THEOREM ReconstructsExactly ==
  ASSUME NEW seq \in Nat, NEW expected \in Nat,
         seq < expected + SeqPeriod \div 2, expected <= seq + SeqPeriod \div 2
  PROVE  ReconstructSeq(Truncate(seq), expected) = seq
<1> DEFINE P == SeqPeriod
           h == SeqPeriod \div 2
           k == seq \div P
           t == seq % P
           q == expected \div P
           r == expected % P
<1>1. P \in Nat \ {0} /\ h \in Nat /\ P = 2 * h
  BY PeriodAssumption
<1>2. /\ t \in 0..(P - 1) /\ seq = P * k + t /\ k \in Nat
      /\ r \in 0..(P - 1) /\ expected = P * q + r /\ q \in Nat
  BY Zenon, <1>1, Divided
<1> DEFINE candidate == (expected - r) + t
<1>3. ReconstructSeq(Truncate(seq), expected) =
        IF candidate + h < expected THEN candidate + P
        ELSE IF candidate >= expected + h /\ candidate >= P THEN candidate - P ELSE candidate
  BY DEF ReconstructSeq, Truncate
<1>4. seq < expected + h /\ expected <= seq + h
  OBVIOUS
<1> HIDE DEF P, h, k, t, q, r
<1>5. k = q \/ (k = q + 1 /\ P * k = P * q + P) \/ (q = k + 1 /\ P * q = P * k + P)
  <2>1. (P * k + t) - (P * q + r) \in (-P)..P
    BY <1>1, <1>2, <1>4
  <2>2. QED BY <1>1, <1>2, <2>1, NeighbouringLaps
<1>6. P * k \in Nat /\ P * q \in Nat /\ candidate = P * q + t
  BY <1>1, <1>2
<1> HIDE DEF candidate
<1>7. CASE k = q
  <2>1. candidate = seq
    BY <1>2, <1>6, <1>7
  <2>2. QED BY <1>1, <1>3, <1>4, <2>1
<1>8. CASE k = q + 1 /\ P * k = P * q + P
  <2>1. candidate + P = seq /\ candidate \in Nat
    BY <1>1, <1>2, <1>6, <1>8
  <2>2. QED BY <1>1, <1>3, <1>4, <2>1
<1>9. CASE q = k + 1 /\ P * q = P * k + P
  <2>1. candidate - P = seq /\ candidate \in Nat /\ candidate >= P
    BY <1>1, <1>2, <1>6, <1>9
  <2>2. QED BY <1>1, <1>3, <1>4, <2>1
<1>10. QED BY <1>5, <1>7, <1>8, <1>9

-----------------------------------------------------------------------------
(* The place of datagram n in the numbering, the skipped 0s counted. *)
Position(n) ==
  PacketPeriod * ((n - 1) \div (PacketPeriod - 1)) + ((n - 1) % (PacketPeriod - 1)) + 1

\* A number read as the signed distance of two places (SeqGreater, SeqLess).
LEMMA DistanceOnWire ==
  ASSUME NEW x \in Nat, NEW y \in Nat, x < y + PacketPeriod \div 2, y <= x + PacketPeriod \div 2
  PROVE  /\ SignedDistance(x % PacketPeriod, y % PacketPeriod) = x - y
         /\ x >= y => ((x % PacketPeriod) - (y % PacketPeriod)) % PacketPeriod = x - y
<1> DEFINE P == PacketPeriod
           h == PacketPeriod \div 2
           p == x \div P
           r == x % P
           q == y \div P
           t == y % P
<1>1. P \in Nat \ {0} /\ h \in Nat /\ P = 2 * h /\ h >= 2
  BY PeriodAssumption
<1>2. /\ r \in 0..(P - 1) /\ x = P * p + r /\ p \in Nat
      /\ t \in 0..(P - 1) /\ y = P * q + t /\ q \in Nat
  BY Zenon, <1>1, Divided
<1>3. x < y + h /\ y <= x + h
  OBVIOUS
<1>4. SignedDistance(r, t) = IF (r - t) % P < h THEN (r - t) % P ELSE ((r - t) % P) - P
  BY DEF SignedDistance
<1> HIDE DEF P, h, p, r, q, t
<1>5. p = q \/ (p = q + 1 /\ P * p = P * q + P) \/ (q = p + 1 /\ P * q = P * p + P)
  <2>1. (P * p + r) - (P * q + t) \in (-P)..P
    BY <1>1, <1>2, <1>3
  <2>2. QED BY <1>1, <1>2, <2>1, NeighbouringLaps
<1>6. P * p \in Int /\ P * q \in Int
  BY <1>1, <1>2
<1>7. r - t \in {x - y, (x - y) - P, (x - y) + P}
  BY <1>1, <1>2, <1>5, <1>6
<1>8. /\ r - t \in 0..(P - 1) => (r - t) % P = r - t
      /\ r - t \in (-P)..(-1) => (r - t) % P = (r - t) + P
  <2>1. r - t \in Int
    BY <1>1, <1>2
  <2>2. QED BY <1>1, <2>1, Wrapped
<1>9. (r - t) % P = IF x >= y THEN x - y ELSE (x - y) + P
  BY <1>1, <1>2, <1>3, <1>7, <1>8
<1>10. SignedDistance(r, t) = x - y /\ (x >= y => (r - t) % P = x - y)
  BY <1>1, <1>3, <1>4, <1>9
<1>11. ((x % PacketPeriod) - (y % PacketPeriod)) % PacketPeriod = (r - t) % P
  BY DEF r, t, P
<1>12. SignedDistance(x % PacketPeriod, y % PacketPeriod) = SignedDistance(r, t)
  BY DEF r, t, P
<1>13. QED BY <1>10, <1>11, <1>12

\* Places grow with the datagrams, by one, or by two where a 0 is skipped, and their
\* remainders are the numbers that travel (SendBatch).
LEMMA Positions ==
  ASSUME NEW n \in Nat \ {0}
  PROVE  /\ Position(n) \in Nat \ {0}
         /\ Position(n) % PacketPeriod = PacketNumber(n)
         /\ PacketNumber(n) \in 1..(PacketPeriod - 1)
<1> DEFINE P == PacketPeriod
           N == PacketPeriod - 1
           a == n - 1
           p == a \div N
           r == a % N
<1>1. P \in Nat \ {0} /\ N \in Nat \ {0} /\ N = P - 1 /\ a \in Nat
  BY PeriodAssumption
<1> HIDE DEF a, N
<1>2. r \in 0..(N - 1) /\ a = N * p + r /\ p \in Nat
  BY Zenon, <1>1, Divided
<1>3. PacketNumber(n) = r + 1 /\ Position(n) = P * p + r + 1
  BY DEF PacketNumber, Position, N, a
<1> HIDE DEF P, p, r
<1>4. P * p \in Nat /\ (P * p + (r + 1)) = P * p + r + 1
  BY <1>1, <1>2
<1>5. (P * p + (r + 1)) % P = r + 1
  <2> DEFINE u == r + 1
  <2>1. u \in 0..(P - 1)
    BY <1>1, <1>2
  <2> HIDE DEF u
  <2>2. (P * p + u) % P = u
    BY <1>1, <1>2, <2>1
  <2>3. QED BY <2>2 DEF u
<1>6. Position(n) % P = PacketNumber(n)
  BY <1>3, <1>4, <1>5
<1>7. QED BY <1>1, <1>2, <1>3, <1>4, <1>6 DEF P

\* A later datagram has a later place, and not half a period later if it was sent soon after.
LEMMA PositionsGrow ==
  ASSUME NEW m \in Nat \ {0}, NEW n \in Nat \ {0}, m < n
  PROVE  /\ Position(m) < Position(n)
         /\ n - m < PacketPeriod \div 2 => Position(n) <= Position(m) + PacketPeriod \div 2
         /\ n - m < PacketPeriod \div 2 - 1 => Position(n) < Position(m) + PacketPeriod \div 2
<1> DEFINE P == PacketPeriod
           h == PacketPeriod \div 2
           N == PacketPeriod - 1
           a == n - 1
           b == m - 1
           p == a \div N
           r == a % N
           q == b \div N
           t == b % N
<1>1. P \in Nat \ {0} /\ N \in Nat \ {0} /\ N = P - 1 /\ h \in Nat /\ P = 2 * h /\ h >= 2
  BY PeriodAssumption
<1>2. a \in Nat /\ b \in Nat /\ b < a /\ a - b = n - m
  OBVIOUS
<1> HIDE DEF a, b, N
<1>3. /\ r \in 0..(N - 1) /\ a = N * p + r /\ p \in Nat
      /\ t \in 0..(N - 1) /\ b = N * q + t /\ q \in Nat
  BY Zenon, <1>1, <1>2, Divided
<1>4. Position(n) = P * p + r + 1 /\ Position(m) = P * q + t + 1
  BY DEF Position, N, a, b
<1> HIDE DEF P, h, p, r, q, t
<1>5. /\ N * p \in Nat /\ N * q \in Nat /\ P * p \in Nat /\ P * q \in Nat
      /\ P * p = N * p + p /\ P * q = N * q + q
  BY <1>1, <1>3
<1>6. q <= p
  <2>1. p < q => N * p + N <= N * q
    BY <1>1, <1>3, LapsApart
  <2>2. QED BY <1>1, <1>2, <1>3, <1>5, <2>1
<1>7. Position(m) < Position(n)
  BY <1>2, <1>3, <1>4, <1>5, <1>6
<1>8. ASSUME n - m < h
      PROVE  Position(n) <= Position(m) + h /\ (n - m < h - 1 => Position(n) < Position(m) + h)
  <2>1. (N * p + r) - (N * q + t) \in (-N)..N
    BY <1>1, <1>2, <1>3, <1>8
  <2>2. p = q \/ p = q + 1 \/ q = p + 1
    BY <1>1, <1>3, <2>1, NeighbouringLaps
  <2>3. p - q \in 0..1
    BY <1>3, <1>6, <2>2
  <2>4. (P * p + r) - (P * q + t) = (a - b) + (p - q)
    BY <1>2, <1>3, <1>5
  <2>5. QED BY <1>1, <1>2, <1>3, <1>4, <1>5, <1>8, <2>3, <2>4
<1>9. QED BY <1>1, <1>2, <1>7, <1>8 DEF h

(* A datagram's number is never the reserved 0, and of two datagrams that are less than
   half a period apart the earlier one compares less, and the later one greater if they
   are one closer than that, though the numbering skips 0 each time it wraps
   (SendBatch's numbering, SeqLess and SeqGreater). *)
THEOREM PacketsCompareAsSent ==
  ASSUME NEW m \in Nat \ {0}, NEW n \in Nat \ {0}, m < n, n - m < PacketPeriod \div 2
  PROVE  /\ PacketNumber(n) # 0
         /\ SeqLess(PacketNumber(m), PacketNumber(n))
         /\ n - m < PacketPeriod \div 2 - 1 => SeqGreater(PacketNumber(n), PacketNumber(m))
<1> DEFINE x == Position(n)
           y == Position(m)
<1>1. /\ x \in Nat /\ y \in Nat /\ y < x /\ x <= y + PacketPeriod \div 2
      /\ n - m < PacketPeriod \div 2 - 1 => x < y + PacketPeriod \div 2
      /\ x % PacketPeriod = PacketNumber(n) /\ y % PacketPeriod = PacketNumber(m)
  BY Positions, PositionsGrow
<1> HIDE DEF x, y
<1>2. PacketPeriod \div 2 \in Nat
  BY PeriodAssumption
<1>3. y < x + PacketPeriod \div 2 /\ y <= x + PacketPeriod \div 2
  BY <1>1, <1>2
<1>4. SignedDistance(PacketNumber(m), PacketNumber(n)) = y - x
  BY <1>1, <1>3, DistanceOnWire
<1>5. n - m < PacketPeriod \div 2 - 1 => SignedDistance(PacketNumber(n), PacketNumber(m)) = x - y
  BY <1>1, <1>3, DistanceOnWire
<1>6. QED BY <1>1, <1>4, <1>5, Positions DEF SeqGreater, SeqLess

-----------------------------------------------------------------------------
(* The history of a connection that has received a datagram: highest is the number of
   the newest one, bit b says whether the datagram b places before it arrived, and
   the places it reports on are all of datagrams that were sent, or of a skipped 0. *)
HistoryExact ==
  arrived # {} =>
    /\ history.highest = PacketNumber(Newest)
    /\ \A b \in Bits : history.bits[b] <=> \E n \in arrived : Position(n) = Position(Newest) - b
    /\ history.valid <= Position(Newest)

HistoryInv ==
  /\ history.any \in BOOLEAN /\ history.bits \in [Bits -> BOOLEAN] /\ history.valid \in 0..HistoryBits
  /\ DOMAIN history = {"any", "highest", "bits", "valid"}
  /\ arrived \subseteq Nat \ {0}
  /\ history.any <=> arrived # {}
  /\ arrived # {} => Newest \in arrived /\ \A m \in arrived : m <= Newest
  /\ HistoryExact

\* The first datagram starts the history (Record).
LEMMA FirstArrives ==
  ASSUME HistoryInv, NEW n \in Nat \ {0}, Arrive(n), arrived = {}
  PROVE  HistoryInv'
<1>1. arrived' = {n} /\ Newest' = n
  <2>1. arrived' = {n}
    BY DEF Arrive
  <2>2. arrived' \subseteq Nat /\ n \in arrived' /\ \A m \in arrived' : m <= n
    BY <2>1
  <2>3. Newest' \in arrived'
    BY <2>2, Zenon DEF Newest
  <2>4. QED BY <2>1, <2>3
<1>2. history' = [any |-> TRUE, highest |-> PacketNumber(n), bits |-> [b \in Bits |-> b = 0], valid |-> 1]
  BY DEF Arrive, HistoryInv, Record, FirstRecord
<1>3. Position(n) \in Nat \ {0} /\ HistoryBits \in Nat \ {0}
  BY Positions, HistoryAssumption
<1>4. /\ history'.any = TRUE /\ history'.highest = PacketNumber(n) /\ history'.valid = 1
      /\ history'.bits = [b \in Bits |-> b = 0]
      /\ DOMAIN history' = {"any", "highest", "bits", "valid"}
  BY <1>2
<1>5. \A b \in Bits : b \in Nat /\ (Position(n) = Position(n) - b <=> b = 0)
  BY <1>3 DEF Bits
<1>6. HistoryExact'
  <2>1. ASSUME NEW b \in Bits
        PROVE  history'.bits[b] <=> \E k \in arrived' : Position(k) = Position(Newest') - b
    <3>1. history'.bits[b] <=> b = 0
      BY <1>4, Zenon
    <3>2. QED BY <1>1, <1>5, <3>1, Zenon
  <2>2. history'.valid <= Position(Newest')
    BY <1>1, <1>3, <1>4
  <2>3. history'.highest = PacketNumber(Newest')
    BY <1>1, <1>4
  <2>4. QED BY <2>1, <2>2, <2>3, Zenon DEF HistoryExact
<1>7. history'.bits \in [Bits -> BOOLEAN]
  BY <1>4, Zenon
<1>8. history'.valid \in 0..HistoryBits
  BY <1>3, <1>4
<1>9. Newest' \in arrived' /\ \A m \in arrived' : m <= Newest'
  BY <1>1
<1>10. QED BY Zenon, <1>1, <1>4, <1>6, <1>7, <1>8, <1>9 DEF HistoryInv

\* A later datagram shifts the history up to its own place, an earlier one sets its bit
\* if the history still reaches it (Record).
LEMMA NextArrives ==
  ASSUME HistoryInv, NEW n \in Nat \ {0}, Arrive(n), arrived # {}
  PROVE  HistoryInv'
<1> DEFINE P == PacketPeriod
           h == PacketPeriod \div 2
           x == Newest
           X == Position(x)
           Y == Position(n)
<1>1. /\ x \in arrived /\ x \in Nat \ {0} /\ \A m \in arrived : m <= x /\ m \in Nat \ {0}
      /\ history.any /\ history.highest = PacketNumber(x)
      /\ history.bits \in [Bits -> BOOLEAN] /\ history.valid \in 0..HistoryBits
      /\ \A b \in Bits : history.bits[b] <=> \E k \in arrived : Position(k) = X - b
      /\ history.valid <= X
      /\ DOMAIN history = {"any", "highest", "bits", "valid"}
  BY Zenon DEF HistoryInv, HistoryExact
<1>2. h \in Nat /\ P = 2 * h /\ h >= 2 /\ HistoryBits \in Nat \ {0} /\ 2 * HistoryBits < P
  BY PeriodAssumption, HistoryAssumption
<1>3. n < x + (h - 1) /\ x < n + (h - 1)
  <2>1. n \in (x - MaxLag)..(x + MaxLag)
    BY DEF Arrive
  <2>2. MaxLag \in Nat /\ MaxLag < h - 1
    BY LagAssumption
  <2>3. QED BY <1>1, <1>2, <2>1, <2>2
<1>4. /\ X \in Nat \ {0} /\ Y \in Nat \ {0}
      /\ X % P = PacketNumber(x) /\ Y % P = PacketNumber(n)
  BY <1>1, Positions
<1>5. /\ n < x => Y < X /\ X < Y + h
      /\ x < n => X < Y /\ Y < X + h
  BY <1>1, <1>2, <1>3, PositionsGrow
<1>6. \A m \in arrived : /\ Position(m) \in Nat \ {0} /\ Position(m) <= X
                         /\ m = n => Position(m) = Y
  <2> SUFFICES ASSUME NEW m \in arrived PROVE Position(m) \in Nat \ {0} /\ Position(m) <= X
    OBVIOUS
  <2>1. m \in Nat \ {0} /\ m <= x
    BY <1>1
  <2>2. Position(m) \in Nat \ {0}
    BY <2>1, Positions
  <2>3. m < x => Position(m) < X
    BY <1>1, <2>1, PositionsGrow
  <2>4. QED BY <1>1, <1>4, <2>1, <2>2, <2>3
<1>7. arrived' = arrived \cup {n} /\ arrived' \subseteq Nat \ {0}
  BY <1>1 DEF Arrive
<1>8. history' = Record(history, Y % P)
  BY <1>4 DEF Arrive
<1> HIDE DEF x, X, Y, P, h
<1>9. n = x => Y = X
  BY DEF X, Y
<1>10. /\ SignedDistance(Y % P, X % P) = Y - X
       /\ Y >= X => ((Y % P) - (X % P)) % P = Y - X
       /\ X >= Y => ((X % P) - (Y % P)) % P = X - Y
  <2>1. X < Y + h /\ Y < X + h /\ X <= Y + h /\ Y <= X + h
    BY <1>1, <1>2, <1>4, <1>5, <1>9
  <2>2. QED BY <1>4, <2>1, DistanceOnWire DEF P, h
<1>11. /\ SeqGreater(Y % P, X % P) <=> Y > X
       /\ SeqLess(Y % P, X % P) <=> Y < X
  BY <1>4, <1>10 DEF SeqGreater, SeqLess
<1>12. CASE x < n
  <2> DEFINE shift == Y - X
  <2>1. Newest' = n
    <3>1. arrived' \subseteq Nat /\ n \in arrived' /\ \A m \in arrived' : m <= n
      BY <1>1, <1>7, <1>12
    <3>2. Newest' \in arrived' /\ \A m \in arrived' : m <= Newest'
      BY <3>1, Zenon DEF Newest
    <3>3. QED BY <3>1, <3>2
  <2>2. shift \in Nat \ {0} /\ Y > X
    BY <1>4, <1>5, <1>12
  <2>3. history' = [any |-> TRUE, highest |-> Y % P,
                    bits |-> SetHistoryBit(ShiftHistoryUp(history.bits, shift), 0),
                    valid |-> Lesser(history.valid + shift, HistoryBits)]
    <3> DEFINE s == Y % P
    <3>1. history.any /\ SeqGreater(s, history.highest)
      BY <1>1, <1>4, <1>11, <2>2
    <3>2. (s - history.highest) % PacketPeriod = shift
      BY <1>1, <1>4, <1>10, <2>2 DEF P
    <3>3. history' = Record(history, s)
      BY <1>8
    <3> HIDE DEF s, shift
    <3>4. history' = [any |-> TRUE, highest |-> s,
                      bits |-> SetHistoryBit(ShiftHistoryUp(history.bits, shift), 0),
                      valid |-> Lesser(history.valid + shift, HistoryBits)]
      BY <3>1, <3>2, <3>3, Zenon DEF Record
    <3>5. QED BY <3>4 DEF s
  <2>4. /\ history'.any = TRUE /\ history'.highest = PacketNumber(n)
        /\ history'.bits = SetHistoryBit(ShiftHistoryUp(history.bits, shift), 0)
        /\ history'.valid = Lesser(history.valid + shift, HistoryBits)
        /\ DOMAIN history' = {"any", "highest", "bits", "valid"}
    BY <1>4, <2>3
  <2> HIDE DEF shift
  <2>5. ASSUME NEW b \in Bits
        PROVE  /\ history'.bits[b] \in BOOLEAN
               /\ history'.bits[b] <=> \E k \in arrived' : Position(k) = Y - b
    <3>1. b \in 0..(HistoryBits - 1) /\ 0 \in Bits
      BY <1>2 DEF Bits
    <3>2. history'.bits[b] = IF b = 0 THEN TRUE ELSE b >= shift /\ history.bits[b - shift]
      BY Zenon, <2>4, <3>1 DEF SetHistoryBit, ShiftHistoryUp
    <3>3. CASE b = 0
      <4>1. Y = Y - b
        BY <1>4, <3>3
      <4>2. QED BY <1>7, <3>2, <3>3, <4>1 DEF Y
    <3>4. CASE b # 0 /\ b >= shift
      <4> DEFINE c == b - shift
      <4>1. c \in Bits /\ X - c = Y - b
        BY <1>2, <1>4, <2>2, <3>1, <3>4 DEF Bits, shift
      <4>2. Y # Y - b
        BY <1>4, <3>1, <3>4
      <4> HIDE DEF c
      <4>3. history'.bits[b] <=> history.bits[c]
        BY Zenon, <3>2, <3>4 DEF c
      <4>4. history'.bits[b] \in BOOLEAN
        BY <1>1, <3>2, <3>4, <4>1 DEF c
      <4>5. history.bits[c] <=> \E k \in arrived : Position(k) = Y - b
        BY <1>1, <4>1
      <4>6. (\E k \in arrived : Position(k) = Y - b) <=> \E k \in arrived' : Position(k) = Y - b
        BY <1>7, <4>2, Zenon DEF Y
      <4>7. QED BY <4>3, <4>4, <4>5, <4>6
    <3>5. CASE b # 0 /\ ~(b >= shift)
      <4>1. Y - b > X /\ Y # Y - b
        BY <1>4, <2>2, <3>1, <3>5 DEF shift
      <4>2. \A k \in arrived : Position(k) # Y - b
        BY <1>4, <1>6, <3>1, <4>1
      <4>3. history'.bits[b] = FALSE
        BY Zenon, <3>2, <3>5
      <4>4. QED BY <1>7, <4>1, <4>2, <4>3, Zenon DEF Y
    <3>6. QED BY <3>3, <3>4, <3>5
  <2>6. history'.bits \in [Bits -> BOOLEAN]
    <3>1. history'.bits = [b \in Bits |-> history'.bits[b]]
      BY <2>4, Zenon DEF SetHistoryBit, ShiftHistoryUp
    <3>2. QED BY <2>5, <3>1, Zenon
  <2>7. history'.valid \in 0..HistoryBits /\ history'.valid <= Y
    BY <1>1, <1>2, <1>4, <2>2, <2>4 DEF Lesser, shift
  <2>8. HistoryExact'
    BY <2>1, <2>4, <2>5, <2>7, Zenon DEF HistoryExact, Y
  <2>9. \A m \in arrived' : m <= n
    BY <1>1, <1>7, <1>12
  <2>10. QED BY Zenon, <1>7, <2>1, <2>4, <2>6, <2>7, <2>8, <2>9 DEF HistoryInv
<1>13. CASE n <= x
  <2> DEFINE back == X - Y
  <2>1. Newest' = x
    <3>1. arrived' \subseteq Nat /\ x \in arrived' /\ \A m \in arrived' : m <= x
      BY <1>1, <1>7, <1>13
    <3>2. Newest' \in arrived' /\ \A m \in arrived' : m <= Newest'
      BY <3>1, Zenon DEF Newest
    <3>3. QED BY <1>1, <3>1, <3>2
  <2>2. back \in Nat /\ ~(Y > X) /\ (Y < X <=> back # 0)
    BY <1>1, <1>4, <1>5, <1>9, <1>13
  <2>3. history' = IF Y < X /\ back < HistoryBits
                   THEN [history EXCEPT !.bits = SetHistoryBit(history.bits, back)] ELSE history
    BY <1>1, <1>4, <1>8, <1>10, <1>11, <2>2 DEF Record, P
  <2>4. /\ history'.any = history.any /\ history'.highest = history.highest
        /\ history'.valid = history.valid
        /\ DOMAIN history' = {"any", "highest", "bits", "valid"}
        /\ history'.bits = IF Y < X /\ back < HistoryBits
                           THEN [history.bits EXCEPT ![back] = TRUE] ELSE history.bits
    BY Zenon, <1>1, <2>3 DEF SetHistoryBit
  <2>5. ASSUME NEW b \in Bits
        PROVE  /\ history'.bits[b] \in BOOLEAN
               /\ history'.bits[b] <=> \E k \in arrived' : Position(k) = X - b
    <3>1. b \in 0..(HistoryBits - 1)
      BY DEF Bits
    <3>2. Y = X - b <=> b = back
      BY <1>4, <3>1
    <3>3. (\E k \in arrived' : Position(k) = X - b) <=> (history.bits[b] \/ b = back)
      <4>1. (\E k \in arrived' : Position(k) = X - b)
              <=> (\E k \in arrived : Position(k) = X - b) \/ Y = X - b
        BY <1>7, Zenon DEF Y
      <4>2. QED BY <1>1, <3>2, <4>1
    <3>4. b = back /\ ~(Y < X) => history.bits[b]
      <4>1. b = back /\ ~(Y < X) => Position(x) = X - b
        BY <1>4, <2>2 DEF X
      <4>2. QED BY <1>1, <4>1
    <3>5. b = back => back < HistoryBits
      BY <1>2, <3>1
    <3>6. history.bits[b] \in BOOLEAN
      BY <1>1
    <3> HIDE DEF back
    <3>7. CASE Y < X /\ back < HistoryBits
      <4>1. history'.bits[b] = IF b = back THEN TRUE ELSE history.bits[b]
        BY Zenon, <1>1, <2>4, <3>7
      <4>2. QED BY Zenon, <3>3, <3>6, <4>1
    <3>8. CASE ~(Y < X /\ back < HistoryBits)
      <4>1. history'.bits[b] = history.bits[b]
        BY Zenon, <2>4, <3>8
      <4>2. QED BY <3>3, <3>4, <3>5, <3>6, <3>8, <4>1
    <3>9. QED BY <3>7, <3>8
  <2>6. history'.bits \in [Bits -> BOOLEAN]
    BY Zenon, <1>1, <2>4
  <2>7. history'.highest = PacketNumber(x) /\ history'.valid <= X
    BY <1>1, <2>4
  <2>8. HistoryExact'
    BY <2>1, <2>5, <2>7, Zenon DEF HistoryExact, X
  <2>9. \A m \in arrived' : m <= x
    BY <1>1, <1>7, <1>13
  <2>10. QED BY <1>1, <1>7, <2>1, <2>4, <2>6, <2>8, <2>9 DEF HistoryInv
<1>14. QED BY <1>1, <1>12, <1>13

(* However late, repeated or lost the peer's datagrams are, within the lag, the history
   is exact: each bit tells whether its datagram arrived, also where the 16-bit numbers
   wrap, and none of its places lies before the first datagram (ZDTAckHistory::Record). *)
THEOREM HistoryExactTheorem == HistorySpec => []HistoryExact
<1>1. HistoryInit => HistoryInv
  <2> SUFFICES ASSUME HistoryInit PROVE HistoryInv
    OBVIOUS
  <2>1. arrived = {} /\ history = [any |-> FALSE, highest |-> 0, bits |-> [b \in Bits |-> FALSE], valid |-> 0]
    BY DEF HistoryInit, NoHistory
  <2>2. HistoryExact
    BY <2>1 DEF HistoryExact
  <2>3. QED BY <2>1, <2>2, HistoryAssumption DEF HistoryInv
<1>2. HistoryInv /\ [HistoryNext]_<<history, arrived>> => HistoryInv'
  <2> SUFFICES ASSUME HistoryInv, [HistoryNext]_<<history, arrived>> PROVE HistoryInv'
    OBVIOUS
  <2>1. ASSUME NEW n \in 1..MaxPacket, Arrive(n) PROVE HistoryInv'
    <3>1. n \in Nat \ {0}
      BY LagAssumption
    <3>2. QED BY <2>1, <3>1, FirstArrives, NextArrives
  <2>2. CASE UNCHANGED <<history, arrived>>
    BY Zenon, <2>2 DEF HistoryInv, HistoryExact, Newest
  <2>3. QED BY <2>1, <2>2 DEF HistoryNext
<1>3. HistoryInv => HistoryExact
  BY DEF HistoryInv
<1>4. QED BY <1>1, <1>2, <1>3, PTL DEF HistorySpec

-----------------------------------------------------------------------------
\* The reductions recorded, the last one, and whether an epoch is open: it is open
\* until the first datagram sent after its reduction is acknowledged, and once it has
\* been closed such an acknowledgement was seen.
LastCut == reductions[Len(reductions)]

EpochInv ==
  /\ path.start \in Nat /\ flown \in Nat /\ flown >= path.start /\ topAck \in Nat
  /\ DOMAIN cong = {"cwnd", "ssthresh", "until", "recovering"} /\ cong.recovering \in BOOLEAN
  /\ reductions \in Seq([sent : Nat, top : Nat])
  /\ cong.recovering => reductions # <<>> /\ cong.until = PacketNumber(LastCut.sent + 1)
  /\ reductions # <<>> => LastCut.sent <= flown /\ (~cong.recovering => topAck > LastCut.sent)
  /\ OneReductionPerEpoch

\* The last reduction is one.
LEMMA LastIsCut ==
  ASSUME reductions \in Seq([sent : Nat, top : Nat]), reductions # <<>>
  PROVE  LastCut.sent \in Nat
<1>1. ASSUME NEW S, reductions \in Seq(S) PROVE reductions[Len(reductions)] \in S
  <2>1. Len(reductions) \in Nat /\ Len(reductions) # 0
    BY <1>1
  <2> QED BY <1>1, <2>1
<1>2. LastCut \in [sent : Nat, top : Nat]
  BY Zenon, <1>1 DEF LastCut
<1> QED BY <1>2

\* The larger of two numbers (std::max).
LEMMA MaxOfTwo ==
  ASSUME NEW a \in Nat, NEW b \in Nat
  PROVE  Max({a, b}) \in Nat /\ Max({a, b}) >= a /\ Max({a, b}) >= b
<1> DEFINE top == IF a > b THEN a ELSE b
<1>1. top \in {a, b} /\ \A y \in {a, b} : top >= y
  OBVIOUS
<1>2. \E x \in {a, b} : \A y \in {a, b} : x >= y
  BY Zenon, <1>1
<1>3. Max({a, b}) \in {a, b} /\ \A y \in {a, b} : Max({a, b}) >= y
  BY Zenon, <1>2 DEF Max
<1> QED BY <1>3

\* The acknowledgement that ends an epoch is of a datagram sent after the reduction,
\* if none is half a period of numbers old (OnAckArrived).
LEMMA EpochEnds ==
  ASSUME EpochInv, NEW top \in Nat \ {0}, top > flown + 1 - PacketPeriod \div 2, cong.recovering,
         ~SeqLess(PacketNumber(top), cong.until)
  PROVE  top > LastCut.sent
<1> DEFINE s == LastCut.sent
<1>1. s \in Nat /\ s <= flown /\ flown \in Nat /\ cong.until = PacketNumber(s + 1)
  <2>1. reductions # <<>> /\ reductions \in Seq([sent : Nat, top : Nat])
    BY DEF EpochInv
  <2>2. LastCut.sent \in Nat
    BY Zenon, <2>1, LastIsCut
  <2>3. QED BY <2>1, <2>2 DEF EpochInv
<1> HIDE DEF s
<1>2. PacketPeriod \div 2 \in Nat
  BY PeriodAssumption
<1>3. SUFFICES ASSUME top <= s PROVE FALSE
  BY <1>1 DEF s
<1>4. s + 1 \in Nat \ {0} /\ top < s + 1 /\ (s + 1) - top < PacketPeriod \div 2
  BY <1>1, <1>2, <1>3
<1>5. SeqLess(PacketNumber(top), PacketNumber(s + 1))
  BY <1>4, PacketsCompareAsSent
<1> QED BY <1>1, <1>5

\* After an acknowledgement the controller is outside an epoch only with news of what was
\* sent after the last reduction (OnAckArrived).
LEMMA AckArrives ==
  ASSUME EpochInv, NEW top \in Nat \ {0}, top > flown + 1 - PacketPeriod \div 2
  PROVE  LET c == OnAckArrived(cong, PacketNumber(top))
             seen == Max({topAck, top})
         IN /\ DOMAIN c = {"cwnd", "ssthresh", "until", "recovering"} /\ c.recovering \in BOOLEAN
            /\ seen \in Nat
            /\ c.recovering => reductions # <<>> /\ c.until = PacketNumber(LastCut.sent + 1)
            /\ reductions # <<>> /\ ~c.recovering => seen > LastCut.sent
<1> DEFINE c == OnAckArrived(cong, PacketNumber(top))
           seen == Max({topAck, top})
<1>1. /\ DOMAIN cong = {"cwnd", "ssthresh", "until", "recovering"} /\ cong.recovering \in BOOLEAN
      /\ topAck \in Nat /\ reductions \in Seq([sent : Nat, top : Nat])
      /\ cong.recovering => reductions # <<>> /\ cong.until = PacketNumber(LastCut.sent + 1)
      /\ reductions # <<>> => (~cong.recovering => topAck > LastCut.sent)
  BY Zenon DEF EpochInv
<1>2. seen \in Nat /\ seen >= topAck /\ seen >= top
  BY <1>1, MaxOfTwo
<1>3. reductions # <<>> => LastCut.sent \in Nat
  BY Zenon, <1>1, LastIsCut
<1>4. CASE cong.recovering /\ ~SeqLess(PacketNumber(top), cong.until)
  <2>1. c = [cong EXCEPT !.recovering = FALSE]
    BY <1>4 DEF OnAckArrived
  <2>2. DOMAIN c = {"cwnd", "ssthresh", "until", "recovering"} /\ c.recovering = FALSE
    BY <1>1, <2>1
  <2>3. top > LastCut.sent
    BY <1>4, EpochEnds
  <2>4. reductions # <<>> => seen > LastCut.sent
    <3> HIDE DEF seen
    <3> QED BY <1>2, <1>3, <2>3
  <2> QED BY Zenon, <1>2, <2>2, <2>4
<1>5. CASE ~(cong.recovering /\ ~SeqLess(PacketNumber(top), cong.until))
  <2>1. c = cong
    BY <1>5 DEF OnAckArrived
  <2>2. reductions # <<>> /\ ~cong.recovering => seen > LastCut.sent
    <3> HIDE DEF seen
    <3> QED BY <1>1, <1>2, <1>3
  <2> QED BY Zenon, <1>1, <1>2, <2>1, <2>2
<1> QED BY Zenon, <1>4, <1>5

\* A reduction that is recorded with what was sent by then, and with news of what was sent
\* after the one before, keeps reductions apart.
LEMMA CutRecorded ==
  ASSUME EpochInv, NEW sent \in Nat, NEW top \in Nat,
         reductions # <<>> => top > LastCut.sent,
         reductions' = Append(reductions, [sent |-> sent, top |-> top])
  PROVE  /\ reductions' \in Seq([sent : Nat, top : Nat]) /\ reductions' # <<>>
         /\ LastCut'.sent = sent
         /\ OneReductionPerEpoch'
<1> DEFINE cut == [sent |-> sent, top |-> top]
<1>1. cut \in [sent : Nat, top : Nat] /\ cut.sent = sent /\ cut.top = top
  OBVIOUS
<1>2. reductions \in Seq([sent : Nat, top : Nat]) /\ OneReductionPerEpoch
  BY DEF EpochInv
<1>3. reductions' = Append(reductions, cut)
  OBVIOUS
<1> HIDE DEF cut
<1>4. /\ reductions' \in Seq([sent : Nat, top : Nat]) /\ Len(reductions) \in Nat
      /\ Len(reductions') = Len(reductions) + 1
      /\ reductions'[Len(reductions) + 1] = cut
      /\ \A i \in 1..Len(reductions) : reductions'[i] = reductions[i]
  BY <1>1, <1>2, <1>3
<1>5. reductions' # <<>> /\ LastCut' = cut
  BY <1>4 DEF LastCut
<1>6. ASSUME NEW i \in 2..(Len(reductions) + 1)
      PROVE  reductions'[i].top > reductions'[i - 1].sent
  <2>1. i - 1 \in 1..Len(reductions) /\ reductions'[i - 1] = reductions[i - 1]
    BY <1>4
  <2>2. CASE i = Len(reductions) + 1
    <3>1. reductions # <<>> /\ reductions[i - 1] = LastCut
      BY <1>2, <1>4, <2>1, <2>2 DEF LastCut
    <3>2. reductions'[i] = cut
      BY <1>4, <2>2
    <3> QED BY <1>1, <2>1, <3>1, <3>2
  <2>3. CASE i # Len(reductions) + 1
    <3>1. i \in 2..Len(reductions) /\ i \in 1..Len(reductions)
      BY <1>4, <2>3
    <3>2. reductions'[i] = reductions[i] /\ reductions[i].top > reductions[i - 1].sent
      BY Zenon, <1>2, <1>4, <3>1 DEF OneReductionPerEpoch
    <3> QED BY <2>1, <3>2
  <2> QED BY <2>2, <2>3
<1>7. OneReductionPerEpoch'
  BY Zenon, <1>4, <1>6 DEF OneReductionPerEpoch
<1> QED BY <1>1, <1>4, <1>5, <1>7

\* Initially nothing was reduced (ZDTCongestionController's members).
LEMMA EpochInit ==
  CongestionInit => EpochInv
<1> SUFFICES ASSUME CongestionInit PROVE EpochInv
  OBVIOUS
<1>1. path.start \in Nat /\ flown = path.start /\ topAck = path.start /\ reductions = <<>>
  BY CongestionAssumption DEF CongestionInit
<1>2. cong = NewController
  BY DEF CongestionInit
<1>3. DOMAIN cong = {"cwnd", "ssthresh", "until", "recovering"} /\ cong.recovering = FALSE
  BY <1>2 DEF NewController
<1>4. reductions \in Seq([sent : Nat, top : Nat]) /\ OneReductionPerEpoch
  BY <1>1 DEF OneReductionPerEpoch
<1>5. flown \in Nat /\ flown >= path.start
  BY <1>1
<1> QED BY Zenon, <1>1, <1>3, <1>4, <1>5 DEF EpochInv

\* A step that leaves the controller and the record of its reductions alone keeps the
\* epoch, however much is sent meanwhile.
LEMMA EpochStays ==
  ASSUME EpochInv, UNCHANGED <<path, cong, reductions, topAck>>, flown' \in {flown, flown + 1}
  PROVE  EpochInv'
<1>1. path' = path /\ cong' = cong /\ reductions' = reductions /\ topAck' = topAck
  OBVIOUS
<1>2. LastCut' = LastCut /\ (OneReductionPerEpoch' <=> OneReductionPerEpoch)
  BY <1>1 DEF LastCut, OneReductionPerEpoch
<1>3. flown' \in Nat /\ flown' >= path.start /\ flown' >= flown
  BY DEF EpochInv
<1>4. reductions # <<>> => LastCut.sent \in Nat
  BY Zenon, LastIsCut DEF EpochInv
<1>5. reductions # <<>> => LastCut.sent <= flown'
  <2>1. reductions # <<>> => LastCut.sent <= flown
    BY Zenon DEF EpochInv
  <2> QED BY <1>3, <1>4, <2>1 DEF EpochInv
<1> QED BY Zenon, <1>1, <1>2, <1>3, <1>5 DEF EpochInv

\* Acknowledgements may end an epoch, and what they sample may open the next
\* (ProcessAcks, OnAckArrived and OnAcked).
LEMMA EpochAfterAcks ==
  ASSUME EpochInv, NEW top \in (path.start + 1)..flown, NEW got, NEW ms, NEW dt,
         ProcessAcks(top, got, ms, dt)
  PROVE  EpochInv'
<1> DEFINE arrived0 == OnAckArrived(cong, PacketNumber(top))
           seen == Max({topAck, top})
<1>1. path.start \in Nat /\ flown \in Nat /\ flown >= path.start /\ top \in Nat \ {0}
  BY DEF EpochInv
<1>2. top > flown + 1 - PacketPeriod \div 2
  BY DEF ProcessAcks
<1>3. PICK queueing, acked :
        /\ cong' = OnAcked(arrived0, acked, queueing, NextPacketSeq, SendWindowCap)
        /\ reductions' = Recorded(arrived0, cong', seen)
        /\ topAck' = seen /\ path' = path /\ flown' = flown
  BY Zenon DEF ProcessAcks
<1>4. /\ DOMAIN arrived0 = {"cwnd", "ssthresh", "until", "recovering"} /\ arrived0.recovering \in BOOLEAN
      /\ seen \in Nat
      /\ arrived0.recovering => reductions # <<>> /\ arrived0.until = PacketNumber(LastCut.sent + 1)
      /\ reductions # <<>> /\ ~arrived0.recovering => seen > LastCut.sent
  BY Zenon, <1>1, <1>2, AckArrives
<1> HIDE DEF arrived0, seen
<1>5. \/ /\ DOMAIN cong' = {"cwnd", "ssthresh", "until", "recovering"}
         /\ cong'.recovering = arrived0.recovering /\ cong'.until = arrived0.until
      \/ /\ ~arrived0.recovering
         /\ DOMAIN cong' = {"cwnd", "ssthresh", "until", "recovering"}
         /\ cong'.recovering = TRUE /\ cong'.until = NextPacketSeq
  <2>1. \/ cong' = Reduce(arrived0, 85, NextPacketSeq)
        \/ \E w : cong' = [arrived0 EXCEPT !.cwnd = w]
    BY Zenon, <1>3 DEF OnAcked
  <2>2. CASE \E w : cong' = [arrived0 EXCEPT !.cwnd = w]
    <3>1. PICK w : cong' = [arrived0 EXCEPT !.cwnd = w]
      BY <2>2
    <3> QED BY <1>4, <3>1
  <2>3. CASE cong' = Reduce(arrived0, 85, NextPacketSeq)
    <3>1. CASE arrived0.recovering
      BY Zenon, <1>4, <2>3, <3>1 DEF Reduce
    <3>2. CASE ~arrived0.recovering
      <4>1. PICK w, r : cong' = [cwnd |-> w, ssthresh |-> r, until |-> NextPacketSeq, recovering |-> TRUE]
        BY Zenon, <2>3, <3>2 DEF Reduce
      <4> QED BY ZenonT(30), <3>2, <4>1
    <3> QED BY Zenon, <3>1, <3>2
  <2> QED BY Zenon, <2>1, <2>2, <2>3
<1>6. reductions \in Seq([sent : Nat, top : Nat]) /\ OneReductionPerEpoch
      /\ (reductions # <<>> => LastCut.sent <= flown)
  BY Zenon DEF EpochInv
<1>7. CASE cong'.recovering = arrived0.recovering /\ cong'.until = arrived0.until
           /\ DOMAIN cong' = {"cwnd", "ssthresh", "until", "recovering"}
  <2>1. reductions' = reductions
    BY Zenon, <1>3, <1>7 DEF Recorded
  <2>2. LastCut' = LastCut /\ (OneReductionPerEpoch' <=> OneReductionPerEpoch)
    BY <2>1 DEF LastCut, OneReductionPerEpoch
  <2> QED BY Zenon, <1>1, <1>3, <1>4, <1>6, <1>7, <2>1, <2>2 DEF EpochInv
<1>8. CASE ~arrived0.recovering /\ cong'.recovering = TRUE /\ cong'.until = NextPacketSeq
           /\ DOMAIN cong' = {"cwnd", "ssthresh", "until", "recovering"}
  <2>1. reductions' = Append(reductions, [sent |-> flown, top |-> seen])
    BY Zenon, <1>3, <1>8 DEF Recorded
  <2>2. /\ reductions' \in Seq([sent : Nat, top : Nat]) /\ reductions' # <<>>
        /\ LastCut'.sent = flown /\ OneReductionPerEpoch'
    BY Zenon, <1>1, <1>4, <1>8, <2>1, CutRecorded
  <2>3. LastCut'.sent <= flown' /\ cong'.until = PacketNumber(LastCut'.sent + 1)
    BY <1>1, <1>3, <1>8, <2>2 DEF NextPacketSeq
  <2> QED BY Zenon, <1>1, <1>3, <1>4, <1>8, <2>2, <2>3 DEF EpochInv
<1> QED BY Zenon, <1>5, <1>7, <1>8

\* A late or repeated acknowledgement ends an epoch only with news (OnAckArrived).
LEMMA EpochAfterStale ==
  ASSUME EpochInv, NEW top \in (path.start + 1)..flown, StaleAck(top)
  PROVE  EpochInv'
<1> DEFINE seen == Max({topAck, top})
<1>1. path.start \in Nat /\ flown \in Nat /\ flown >= path.start /\ top \in Nat \ {0}
  BY DEF EpochInv
<1>2. /\ top > flown + 1 - PacketPeriod \div 2
      /\ cong' = OnAckArrived(cong, PacketNumber(top))
      /\ topAck' = seen /\ path' = path /\ flown' = flown /\ reductions' = reductions
  BY DEF StaleAck
<1>3. /\ DOMAIN cong' = {"cwnd", "ssthresh", "until", "recovering"} /\ cong'.recovering \in BOOLEAN
      /\ seen \in Nat
      /\ cong'.recovering => reductions # <<>> /\ cong'.until = PacketNumber(LastCut.sent + 1)
      /\ reductions # <<>> /\ ~cong'.recovering => seen > LastCut.sent
  BY Zenon, <1>1, <1>2, AckArrives
<1> HIDE DEF seen
<1>4. reductions \in Seq([sent : Nat, top : Nat]) /\ OneReductionPerEpoch
      /\ (reductions # <<>> => LastCut.sent <= flown)
  BY Zenon DEF EpochInv
<1>5. LastCut' = LastCut /\ (OneReductionPerEpoch' <=> OneReductionPerEpoch)
  BY <1>2 DEF LastCut, OneReductionPerEpoch
<1> QED BY Zenon, <1>1, <1>2, <1>3, <1>4, <1>5 DEF EpochInv

\* A retransmission opens an epoch, unless one is open (OnRetransmitTimeout); the datagram
\* it goes out in is the last of those sent before it.
LEMMA EpochAfterTimeout ==
  ASSUME EpochInv, NEW n, RetransmitTimeout(n)
  PROVE  EpochInv'
<1>1. /\ path.start \in Nat /\ flown \in Nat /\ flown >= path.start /\ topAck \in Nat
      /\ DOMAIN cong = {"cwnd", "ssthresh", "until", "recovering"} /\ cong.recovering \in BOOLEAN
      /\ reductions # <<>> => (~cong.recovering => topAck > LastCut.sent)
  BY Zenon DEF EpochInv
<1>2. PICK percent :
        /\ cong' = Reduce(cong, percent, PacketNumber(flown + 2))
        /\ reductions' = IF ~cong.recovering /\ cong'.recovering
                         THEN Append(reductions, [sent |-> flown + 1, top |-> topAck]) ELSE reductions
        /\ topAck' = topAck /\ path' = path /\ flown' = flown + 1
  BY Zenon DEF RetransmitTimeout, OnRetransmitTimeout
<1>3. CASE cong.recovering
  <2>1. cong' = cong /\ reductions' = reductions
    BY Zenon, <1>2, <1>3 DEF Reduce
  <2> QED BY Zenon, <1>2, <2>1, EpochStays
<1>4. CASE ~cong.recovering
  <2>1. PICK w, r :
          cong' = [cwnd |-> w, ssthresh |-> r, until |-> PacketNumber(flown + 2), recovering |-> TRUE]
    BY Zenon, <1>2, <1>4 DEF Reduce
  <2>2. /\ DOMAIN cong' = {"cwnd", "ssthresh", "until", "recovering"}
        /\ cong'.recovering = TRUE /\ cong'.until = PacketNumber(flown + 2)
    BY <2>1
  <2>3. reductions' = Append(reductions, [sent |-> flown + 1, top |-> topAck])
    BY Zenon, <1>2, <1>4, <2>2
  <2>4. flown + 1 \in Nat /\ (flown + 1) + 1 = flown + 2 /\ flown + 1 >= path.start
    BY <1>1
  <2>5. /\ reductions' \in Seq([sent : Nat, top : Nat]) /\ reductions' # <<>>
        /\ LastCut'.sent = flown + 1 /\ OneReductionPerEpoch'
    BY Zenon, <1>1, <1>4, <2>3, <2>4, CutRecorded
  <2>6. LastCut'.sent <= flown' /\ cong'.until = PacketNumber(LastCut'.sent + 1)
    BY <1>1, <1>2, <2>2, <2>4, <2>5
  <2> QED BY Zenon, <1>1, <1>2, <2>2, <2>4, <2>5, <2>6 DEF EpochInv
<1> QED BY <1>3, <1>4

(* "one reduction per loss epoch, whoever reports the event; the epoch ends when the peer
   acknowledges something sent after it opened": between two reductions of the window
   lies the acknowledgement of a datagram sent after the first, for every path, period
   and window, whatever was late, repeated or timed out meanwhile and wherever the
   numbers wrapped (OnAckArrived, Reduce, OnAcked, OnRetransmitTimeout). *)
THEOREM CutOncePerEpoch ==
  CongestionSpec => []OneReductionPerEpoch
<1>1. ASSUME EpochInv, [CongestionNext]_congestionVars PROVE EpochInv'
  <2>1. CASE Transmit
    BY Zenon, <1>1, <2>1, EpochStays DEF Transmit
  <2>2. CASE \E top \in (path.start + 1)..flown, ms \in Trips, dt \in path.gaps :
               \E got \in SUBSET {n \in flight : n <= top} : ProcessAcks(top, got, ms, dt)
    BY Zenon, <1>1, <2>2, EpochAfterAcks
  <2>3. CASE \E top \in (path.start + 1)..flown : StaleAck(top)
    BY Zenon, <1>1, <2>3, EpochAfterStale
  <2>4. CASE \E n \in flight : RetransmitTimeout(n)
    BY Zenon, <1>1, <2>4, EpochAfterTimeout
  <2>5. CASE \E n \in flight : Lost(n)
    BY Zenon, <1>1, <2>5, EpochStays DEF Lost
  <2>6. CASE UNCHANGED congestionVars
    BY Zenon, <1>1, <2>6, EpochStays DEF congestionVars
  <2> QED BY Zenon, <1>1, <2>1, <2>2, <2>3, <2>4, <2>5, <2>6 DEF CongestionNext
<1>2. EpochInv => OneReductionPerEpoch
  BY Zenon DEF EpochInv
<1> QED BY EpochInit, <1>1, <1>2, PTL DEF CongestionSpec

-----------------------------------------------------------------------------
\* A first counter leaves an empty bitmap below it, which is exact because
\* nothing else was accepted (Accept, the !seen_any_ branch).
LEMMA FirstStep ==
  ASSUME WindowExact, NEW counter \in Counter, ~win.seen, Present(counter)
  PROVE  WindowExact'
<1>1. /\ win' = [seen |-> TRUE, highest |-> counter, window |-> {}]
      /\ accepted' = {counter}
  BY DEF WindowExact, Present, Admits, Accept
<1>2. counter \in Nat /\ KWidth \in Nat
  BY ReplayAssumption DEF Counter
<1>3. {b \in 1..KWidth : b <= counter /\ counter - b \in {counter}} = {}
  BY SMTT(30), <1>2
<1> QED  BY <1>1, <1>2, <1>3 DEF WindowExact

\* A counter above the highest shifts the bitmap up and puts the old highest
\* into it, in each of the three cases Accept tells apart.
LEMMA HigherStep ==
  ASSUME WindowExact, NEW counter \in Counter, win.seen, counter > win.highest,
         Present(counter)
  PROVE  WindowExact'
<1> DEFINE h == win.highest
           shift == counter - h
<1>1. /\ counter \in Nat /\ KWidth \in Nat \ {0} /\ h \in Nat
      /\ h \in accepted /\ \A c \in accepted : c <= h
      /\ accepted \subseteq Counter /\ Counter \subseteq Nat
      /\ win.window = {b \in 1..KWidth : b <= h /\ h - b \in accepted}
      /\ win \in [seen : BOOLEAN, highest : Nat, window : SUBSET (1..KWidth)]
  BY ReplayAssumption DEF Counter, WindowExact
<1>2. /\ win' = [win EXCEPT !.highest = counter, !.window = Shifted(win.window, shift)]
      /\ accepted' = accepted \cup {counter}
  BY DEF Present, Admits, Accept
<1>3. shift \in Nat /\ shift >= 1 /\ counter = h + shift
  BY <1>1
<1>4. ASSUME NEW b \in 1..KWidth
      PROVE  b \in Shifted(win.window, shift)
               <=> b <= counter /\ counter - b \in accepted \cup {counter}
  <2>1. b \in Nat /\ b >= 1 /\ b <= KWidth /\ counter - b # counter
    BY <1>1
  <2>2. counter - b \in accepted => counter - b <= h
    BY <1>1
  <2>3. CASE b < shift
    <3>1. counter - b \notin accepted
      BY <1>1, <1>3, <2>1, <2>2, <2>3
    <3>2. b \notin Shifted(win.window, shift)
      BY <1>1, <1>3, <2>1, <2>3 DEF Shifted
    <3> QED  BY <3>1, <3>2, <2>1
  <2>4. CASE b = shift
    <3>1. counter - b = h /\ b <= counter
      BY <1>1, <1>3, <2>1, <2>4
    <3>2. b \in Shifted(win.window, shift)
      <4>1. shift <= KWidth
        BY <2>1, <2>4
      <4>2. CASE shift = KWidth
        BY <4>1, <4>2, <1>1, <2>4 DEF Shifted
      <4>3. CASE shift < KWidth
        <5>1. Shifted(win.window, shift)
                = ({x + shift : x \in win.window} \cap (1..KWidth)) \cup {shift}
          BY <4>3, <1>1, <1>3 DEF Shifted
        <5> QED  BY <5>1, <2>4
      <4> QED  BY <4>1, <4>2, <4>3, <1>1, <1>3
    <3> QED  BY <3>1, <3>2, <1>1
  <2>5. CASE b > shift
    <3> DEFINE a == b - shift
    <3>1. a \in 1..KWidth /\ b = a + shift /\ shift < KWidth /\ b # shift
      BY <1>1, <1>3, <2>1, <2>5
    <3>2. b \in Shifted(win.window, shift) <=> a \in win.window
      BY <1>1, <1>3, <2>1, <3>1 DEF Shifted
    <3>3. a <= h <=> b <= counter
      BY <1>1, <1>3, <2>1
    <3>4. h - a = counter - b
      BY <1>1, <1>3, <2>1
    <3>5. a \in win.window <=> (a <= h /\ h - a \in accepted)
      BY <1>1, <3>1
    <3> QED  BY <3>2, <3>3, <3>4, <3>5, <2>1
  <2> QED  BY <2>1, <2>3, <2>4, <2>5, <1>3
<1>5. Shifted(win.window, shift) \subseteq 1..KWidth
  BY <1>1, <1>3 DEF Shifted
<1>6. Shifted(win.window, shift)
        = {b \in 1..KWidth : b <= counter /\ counter - b \in accepted \cup {counter}}
  BY <1>4, <1>5
<1>7. \A c \in accepted \cup {counter} : c <= counter
  BY SMTT(30), <1>1
<1> HIDE DEF shift
<1>8. /\ win'.highest = counter /\ win'.seen /\ win'.window = Shifted(win.window, shift)
      /\ win' \in [seen : BOOLEAN, highest : Nat, window : SUBSET (1..KWidth)]
  BY Zenon, <1>1, <1>2, <1>5
<1> QED  BY Zenon, <1>1, <1>2, <1>6, <1>7, <1>8 DEF WindowExact

\* A counter within the window sets its own bit and nothing else.
LEMMA LowerStep ==
  ASSUME WindowExact, NEW counter \in Counter, win.seen, ~(counter > win.highest),
         Present(counter)
  PROVE  WindowExact'
<1> DEFINE h == win.highest
           back == h - counter
<1>1. /\ counter \in Nat /\ KWidth \in Nat \ {0} /\ h \in Nat
      /\ h \in accepted /\ \A c \in accepted : c <= h
      /\ accepted \subseteq Counter /\ Counter \subseteq Nat
      /\ win.window = {b \in 1..KWidth : b <= h /\ h - b \in accepted}
      /\ win \in [seen : BOOLEAN, highest : Nat, window : SUBSET (1..KWidth)]
      /\ counter <= h
  BY ReplayAssumption DEF Counter, WindowExact
<1>2. CASE ~Admits(win, counter)
  BY <1>2 DEF Present, WindowExact, vars
<1>3. CASE Admits(win, counter)
  <2>1. back \in 1..KWidth
    BY <1>1, <1>3 DEF Admits
  <2>2. /\ win' = [win EXCEPT !.window = win.window \cup {back}]
        /\ accepted' = accepted \cup {counter}
    BY <1>1, <1>3 DEF Present, Accept
  <2>3. ASSUME NEW b \in 1..KWidth
        PROVE  b \in win.window \cup {back}
                 <=> b <= h /\ h - b \in accepted \cup {counter}
    <3>1. b = back <=> (b <= h /\ h - b = counter)
      BY <1>1, <2>1
    <3>2. b \in win.window <=> (b <= h /\ h - b \in accepted)
      BY <1>1
    <3> HIDE DEF back, h
    <3> QED  BY <3>1, <3>2
  <2>4. win.window \cup {back}
          = {b \in 1..KWidth : b <= h /\ h - b \in accepted \cup {counter}}
    BY <1>1, <2>1, <2>3
  <2>5. \A c \in accepted \cup {counter} : c <= h
    BY <1>1
  <2> HIDE DEF back
  <2>6. /\ win'.highest = h /\ win'.seen /\ win'.window = win.window \cup {back}
        /\ win' \in [seen : BOOLEAN, highest : Nat, window : SUBSET (1..KWidth)]
    BY <1>1, <2>1, <2>2
  <2> QED  BY <1>1, <2>2, <2>4, <2>5, <2>6 DEF WindowExact
<1> QED  BY <1>2, <1>3

\* The window always describes exactly the accepted counters it can hold.
THEOREM WindowIsExact == Spec => []WindowExact
<1>1. Init => WindowExact
  BY ReplayAssumption DEF Init, WindowExact, FreshWindow
<1>2. WindowExact /\ [Next]_vars => WindowExact'
  <2> SUFFICES ASSUME WindowExact, [Next]_vars PROVE WindowExact'
    OBVIOUS
  <2>1. CASE UNCHANGED vars
    BY <2>1 DEF WindowExact, vars
  <2>2. ASSUME NEW counter \in Counter, Present(counter) PROVE WindowExact'
    BY <2>2, FirstStep, HigherStep, LowerStep
  <2> QED  BY <2>1, <2>2 DEF Next
<1> QED  BY <1>1, <1>2, PTL DEF Spec

\* No counter is accepted twice on a stream, whatever the order and number of
\* repeats in which authenticated messages arrive (EncryptionLayer::HandleDecrypt).
THEOREM RepeatsRefused == Spec => []NeverTwice
<1>1. WindowExact => NeverTwice
  <2> SUFFICES ASSUME WindowExact, NEW c \in accepted PROVE ~Admits(win, c)
    BY DEF NeverTwice
  <2>1. /\ win.seen /\ c <= win.highest /\ c \in Nat /\ win.highest \in Nat /\ KWidth \in Nat
        /\ win.window = {b \in 1..KWidth : b <= win.highest /\ win.highest - b \in accepted}
    BY ReplayAssumption DEF WindowExact, Counter
  <2>2. win.highest - c \in 1..KWidth => win.highest - c \in win.window
    BY <2>1
  <2> QED  BY <2>1, <2>2 DEF Admits
<1> QED  BY <1>1, WindowIsExact, PTL

\* A counter not seen before is accepted whenever it is at most the window's
\* width behind the highest, so reordering within a stream loses nothing.
THEOREM ReorderingLosesNothing == Spec => []ReorderingAccepted
<1>1. WindowExact => ReorderingAccepted
  <2> SUFFICES ASSUME WindowExact, NEW c \in Counter \ accepted, c + KWidth >= win.highest
               PROVE  Admits(win, c)
    BY DEF ReorderingAccepted
  <2>1. c \in Nat /\ KWidth \in Nat
    BY ReplayAssumption DEF Counter
  <2>2. CASE ~win.seen
    BY <2>2 DEF Admits
  <2>3. CASE win.seen
    <3>1. /\ win.highest \in accepted /\ win.highest \in Nat
          /\ win.window = {b \in 1..KWidth : b <= win.highest /\ win.highest - b \in accepted}
      BY <2>3 DEF WindowExact
    <3>2. c # win.highest
      BY <3>1
    <3>3. CASE c > win.highest
      BY <3>3 DEF Admits
    <3>4. CASE c < win.highest
      <4>1. win.highest - c \in 1..KWidth /\ win.highest - (win.highest - c) = c
        BY <2>1, <3>1, <3>4
      <4>2. win.highest - c \notin win.window
        BY <3>1, <4>1
      <4> QED  BY <4>1, <4>2 DEF Admits
    <3> QED  BY <2>1, <3>1, <3>2, <3>3, <3>4
  <2> QED  BY <2>2, <2>3
<1> QED  BY <1>1, WindowIsExact, PTL

\* Both at once: the window refuses exactly what it should.
THEOREM ReplayExactTheorem == Spec => []ReplayExact
  BY RepeatsRefused, ReorderingLosesNothing, PTL DEF ReplayExact
=============================================================================
