------------------------------ MODULE BitStream ------------------------------
(***************************************************************************)
(* The extensions that pack what a game sends: codes of numbers (quantize), *)
(* a stream of bits (bitpack), and snapshots sent as deltas (delta).        *)
(***************************************************************************)
EXTENDS ByteBuffer

-----------------------------------------------------------------------------
(***************************************************************************)
(* znet-quantize's scalar codes (quantize/scalar.h): fixed point over a     *)
(* range, and IEEE binary16.  A float in a range is an integer number of    *)
(* some unit; a float that is packed to half precision is its three fields. *)
(***************************************************************************)

LevelsForBits(bits) == IF bits = 0 THEN 0 ELSE 2^bits - 1

\* t * levels + 0.5, rounded down, for t = (value - min) / (max - min) clamped.
QuantizeToLevels(value, min, max, levels) ==
  LET span == max - min
      above == IF value < min THEN 0 ELSE IF value > max THEN span ELSE value - min
  IN IF span <= 0 \/ levels = 0 THEN 0 ELSE (2 * above * levels + span) \div (2 * span)

\* In units of 1/levels, so that it is exact.
DequantizeFromLevels(code, min, max, levels) ==
  IF levels = 0 THEN min ELSE min * levels + (max - min) * code

-----------------------------------------------------------------------------
\* Half precision.

Float(sign, biased, mantissa) == [sign |-> sign, biased |-> biased, mantissa |-> mantissa]

\* The bits kept, rounded by the ones shifted out: to nearest, ties to even.
RoundedShift_HalfUp(n, shift) ==
  (n \div 2^shift) + (IF n % 2^shift >= 2^(shift - 1) THEN 1 ELSE 0)
RoundedShift(n, shift) ==
  LET result == n \div 2^shift
      remainder == n % 2^shift
      halfway == 2^(shift - 1)
  IN result + (IF remainder > halfway \/ (remainder = halfway /\ result % 2 = 1) THEN 1 ELSE 0)

\* A carry out of the mantissa lands in the exponent.
PackHalf(f) ==
  LET exponent == f.biased - 112
      magnitude ==
        CASE f.biased = 255 -> 31744 + (IF f.mantissa # 0 THEN 512 ELSE 0)
          [] f.biased # 255 /\ exponent >= 31 -> 31744
          [] exponent < -10 -> 0
          [] exponent \in -10..0 -> RoundedShift(f.mantissa + 8388608, 14 - exponent)
          [] OTHER -> RoundedShift(exponent * 8388608 + f.mantissa, 13)
  IN 32768 * f.sign + magnitude

\* A subnormal half is shifted until its leading one is implicit.
Renormalised(mantissa) == CHOOSE s \in 1..10 : mantissa * 2^s \in 1024..2047

UnpackHalf(h) ==
  LET sign == h \div 32768
      exponent == (h \div 1024) % 32
      mantissa == h % 1024
      shift == Renormalised(mantissa)
  IN CASE exponent = 0 /\ mantissa = 0 -> Float(sign, 0, 0)
       [] exponent = 0 /\ mantissa # 0 ->
            Float(sign, 113 - shift, 8192 * (mantissa * 2^shift - 1024))
       [] exponent = 31 -> Float(sign, 255, 8192 * mantissa)
       [] OTHER -> Float(sign, exponent + 112, 8192 * mantissa)

-----------------------------------------------------------------------------
\* The halves, sign by sign and exponent by exponent.

VARIABLE half

HalfInit == half \in {1024 * k : k \in 0..63}
HalfNext == half % 1024 < 1023 /\ half' = half + 1

IsNan(h) == h % 32768 > 31744
Finite(h) == h % 32768 < 31744

\* The float n units in the last place above f, within its exponent.
Above(f, n) == [f EXCEPT !.mantissa = @ + n]

\* How far apart, in units of the float's last place, this half and the next are.
Gap(h) == LET exponent == (h \div 1024) % 32
              mantissa == h % 1024
          IN IF exponent = 0 THEN IF mantissa = 0 THEN 0 ELSE 8192 * 2^Renormalised(mantissa) ELSE 8192

\* PackHalf() rounds "to nearest, ties to even", through the subnormals and
\* across every carry into the exponent: a half survives the round trip through
\* UnpackHalf(), a float less than half way to the next half comes back to this
\* one, one more than half way to the next, and the tie goes to the even one.
PacksToNearest ==
  LET f == UnpackHalf(half)
      mid == Gap(half) \div 2
  IN /\ ~IsNan(half) => PackHalf(f) = half
     /\ IsNan(half) => IsNan(PackHalf(f))
     /\ Finite(half) /\ mid # 0 /\ f.mantissa + mid < 8388608 =>
          /\ PackHalf(Above(f, mid - 1)) = half
          /\ f.mantissa + mid + 1 < 8388608 => PackHalf(Above(f, mid + 1)) = half + 1
          /\ PackHalf(Above(f, mid)) = half + (half % 2)

-----------------------------------------------------------------------------
(***************************************************************************)
(* BitWriter and BitReader (bitpack/writer.h, reader.h, bits.h) over a      *)
(* Buffer, and the fields DeltaWriter and DeltaReader put in them           *)
(* (delta/writer.h, reader.h).  The 64-bit scratch register is the sequence *)
(* of the bits it holds, least significant first.                           *)
(***************************************************************************)

\* A value's low n bits, and the value of a sequence of bits.
BitsOf(value, n) == [i \in 1..n |-> (value \div 2^(i - 1)) % 2]
ValueOf(bits) == FoldLeft(LAMBDA v, i : v + bits[i] * 2^(i - 1), 0, [i \in 1..Len(bits) |-> i])

BitsForSpan(span) == CHOOSE n \in 0..31 : span < 2^n /\ (n = 0 \/ span >= 2^(n - 1))
BitsForRange(min, max) == IF max <= min THEN 0 ELSE BitsForSpan(max - min)
Clamp(value, min, max) == IF value < min THEN min ELSE IF value > max THEN max ELSE value

-----------------------------------------------------------------------------
\* BitWriter.

NewBitWriter(buffer) == [buffer |-> buffer, scratch |-> <<>>, bits |-> 0]

Byte(bits) == ValueOf(bits \o [i \in 1..(8 - Len(bits)) |-> 0])

\* Four bytes leave the register whenever it holds 32 bits or more.
WriteBits(w, value, bits) ==
  LET Drained(scratch) == [i \in 1..4 |-> Byte(SubSeq(scratch, 8 * i - 7, 8 * i))]
      Pushed(scratch) ==
        IF Len(scratch) < 32 THEN [w EXCEPT !.bits = @ + bits, !.scratch = scratch]
        ELSE [w EXCEPT !.bits = @ + bits, !.buffer = Write(@, Drained(scratch)),
                       !.scratch = SubSeq(scratch, 33, Len(scratch))]
  IN Pushed(w.scratch \o BitsOf(value, bits))

WriteBool(w, flag) == WriteBits(w, IF flag THEN 1 ELSE 0, 1)

\* A value outside the range loses its high bits.
WriteIntRanged_Unclamped(w, value, min, max) ==
  WriteBits(w, value - min, BitsForRange(min, max))

\* The width goes with the range, so a value outside it is brought inside.
WriteIntRanged(w, value, min, max) ==
  WriteBits(w, Clamp(value, min, max) - min, BitsForRange(min, max))

WriteFloatRanged(w, value, min, max, bits) ==
  WriteBits(w, QuantizeToLevels(value, min, max, LevelsForBits(bits)), bits)

RECURSIVE WriteVarUInt(_, _)
WriteVarUInt(w, value) ==
  LET Rest(group) == IF value \div 16 = 0 THEN group ELSE WriteVarUInt(group, value \div 16)
  IN Rest(WriteBool(WriteBits(w, value % 16, 4), value \div 16 # 0))

AlignWriter(w) == WriteBits(w, 0, (8 - (w.bits % 8)) % 8)

RECURSIVE FlushWriter(_)
FlushWriter(w) ==
  IF w.scratch = <<>> THEN [w EXCEPT !.bits = ((@ + 7) \div 8) * 8]
  ELSE LET n == IF Len(w.scratch) < 8 THEN Len(w.scratch) ELSE 8
       IN FlushWriter([w EXCEPT !.buffer = Write(@, <<Byte(SubSeq(w.scratch, 1, n))>>),
                          !.scratch = SubSeq(@, n + 1, Len(@))])

-----------------------------------------------------------------------------
\* BitReader.  A read yields [reader, value]; past the end the value is zero.

NewBitReader(buffer) == [buffer |-> buffer, scratch |-> <<>>, bits |-> 0, ok |-> TRUE]

GotBits(r, value) == [reader |-> r, value |-> value]

\* Refill() as often as the field needs: a byte at a time, none once they are gone.
RECURSIVE Refilled(_, _)
Refilled(r, bits) ==
  LET Pulled(byte) == [r EXCEPT !.buffer = byte.buf, !.scratch = @ \o BitsOf(byte.value, 8)]
  IN IF Len(r.scratch) >= bits \/ ~CheckReadableBytes(r.buffer, 1) THEN r
     ELSE Refilled(Pulled(ReadNumber(r.buffer, 1)), bits)

ReadBits(r, bits) ==
  LET Taken(full) ==
        IF Len(full.scratch) < bits
        THEN GotBits([full EXCEPT !.ok = FALSE, !.buffer = ReadNumber(@, 1).buf], 0)
        ELSE GotBits([full EXCEPT !.scratch = SubSeq(@, bits + 1, Len(@)), !.bits = @ + bits],
                     ValueOf(SubSeq(full.scratch, 1, bits)))
  IN Taken(Refilled(r, bits))

ReadBool(r) == LET Flag(b) == GotBits(b.reader, b.value # 0) IN Flag(ReadBits(r, 1))

\* The field can hold codes past the top of the range: the result is clamped.
ReadIntRanged(r, min, max) ==
  LET Placed(offset) ==
        GotBits(offset.reader, IF BitsForRange(min, max) = 0 THEN min
                               ELSE IF offset.value >= max - min THEN max ELSE min + offset.value)
  IN Placed(ReadBits(r, BitsForRange(min, max)))

ReadFloatRanged(r, min, max, bits) ==
  LET Level(code) ==
        GotBits(code.reader, DequantizeFromLevels(code.value, min, max, LevelsForBits(bits)))
  IN Level(ReadBits(r, bits))

RECURSIVE ReadVarUIntFrom(_, _, _)
ReadVarUIntFrom(r, value, shift) ==
  LET Rest(more, sum) ==
        IF ~more.value \/ shift + 4 >= 64 \/ ~more.reader.ok THEN GotBits(more.reader, sum)
        ELSE ReadVarUIntFrom(more.reader, sum, shift + 4)
      Flagged(nibble) == Rest(ReadBool(nibble.reader), value + nibble.value * 2^shift)
  IN Flagged(ReadBits(r, 4))
ReadVarUInt(r) == ReadVarUIntFrom(r, 0, 0)

AlignReader(r) == ReadBits(r, (8 - (r.bits % 8)) % 8).reader

-----------------------------------------------------------------------------
\* Delta fields: a flag, and the value only when it differs from the baseline's.

\* Both sides are clamped first: a receiver's baseline is a value it decoded.
DeltaWriteInt(w, value, baseline, min, max) ==
  LET Flagged(current, changed) ==
        IF changed THEN WriteIntRanged(WriteBool(w, TRUE), current, min, max)
        ELSE WriteBool(w, FALSE)
  IN Flagged(Clamp(value, min, max), Clamp(value, min, max) # Clamp(baseline, min, max))

DeltaReadInt(r, baseline, min, max) ==
  LET Field(changed) ==
        IF changed.value THEN ReadIntRanged(changed.reader, min, max)
        ELSE GotBits(changed.reader, Clamp(baseline, min, max))
  IN Field(ReadBool(r))

\* Codes are compared, not floats.
DeltaWriteFloat(w, value, baseline, min, max, bits) ==
  LET Code(v) == QuantizeToLevels(v, min, max, LevelsForBits(bits))
      Flagged(code, was) == IF code # was THEN WriteBits(WriteBool(w, TRUE), code, bits)
                            ELSE WriteBool(w, FALSE)
  IN Flagged(Code(value), Code(baseline))

\* A float is read in units of 1/levels; its baseline is one read before.
DeltaReadFloat(r, baseline, min, max, bits) ==
  LET levels == LevelsForBits(bits)
      code == QuantizeToLevels(baseline, min * levels, max * levels, levels)
      Field(changed) ==
        IF changed.value THEN ReadFloatRanged(changed.reader, min, max, bits)
        ELSE GotBits(changed.reader, DequantizeFromLevels(code, min, max, levels))
  IN Field(ReadBool(r))

DeltaWriteBits(w, value, baseline, bits) ==
  IF value # baseline THEN WriteBits(WriteBool(w, TRUE), value, bits) ELSE WriteBool(w, FALSE)

DeltaReadBits(r, baseline, bits) ==
  LET Field(changed) ==
        IF changed.value THEN ReadBits(changed.reader, bits) ELSE GotBits(changed.reader, baseline)
  IN Field(ReadBool(r))

-----------------------------------------------------------------------------
\* A bit stream in use: fields written, the bytes perhaps cut short, read back.

CONSTANTS FieldScripts   \* sequences of [kind, value, ...]

VARIABLES writer, reader, fields, done, read, trimmed

bitVars == <<writer, reader, fields, done, read, trimmed, half>>

PutField(f, w) ==
  CASE f.kind = "bits" -> WriteBits(w, f.value, f.bits)
    [] f.kind = "ranged" -> WriteIntRanged(w, f.value, f.min, f.max)
    [] f.kind = "float" -> WriteFloatRanged(w, f.value, f.min, f.max, f.bits)
    [] f.kind = "var" -> WriteVarUInt(w, f.value)
    [] f.kind = "align" -> AlignWriter(w)
    [] f.kind = "flush" -> FlushWriter(w)

GetField(f, r) ==
  CASE f.kind = "bits" -> ReadBits(r, f.bits)
    [] f.kind = "ranged" -> ReadIntRanged(r, f.min, f.max)
    [] f.kind = "float" -> ReadFloatRanged(r, f.min, f.max, f.bits)
    [] f.kind = "var" -> ReadVarUInt(r)
    [] OTHER -> GotBits(AlignReader(r), 0)

\* A flush may leave the writer in the middle of its register.
WriteField ==
  /\ fields # <<>> /\ reader = {}
  /\ writer' = PutField(Head(fields), writer)
  /\ done' = Append(done, Head(fields))
  /\ fields' = Tail(fields)
  /\ UNCHANGED <<reader, read, trimmed>>

\* The writer is destroyed, which flushes it; some bytes may not arrive.
OpenReader ==
  /\ fields = <<>> /\ reader = {}
  /\ \E w \in {FlushWriter(writer)} : \E n \in 0..w.buffer.wr :
       /\ writer' = w
       /\ reader' = {NewBitReader([w.buffer EXCEPT !.wr = n])}
       /\ trimmed' = (n < w.buffer.wr)
  /\ UNCHANGED <<fields, done, read>>

ReadField ==
  /\ reader # {} /\ Len(read) < Len(done)
  /\ \E r \in reader : \E f \in {GetField(done[Len(read) + 1], r)} :
       /\ read' = Append(read, f.value)
       /\ reader' = {f.reader}
  /\ UNCHANGED <<writer, fields, done, trimmed>>

BitInit ==
  /\ writer = NewBitWriter(Fresh("little")) /\ reader = {}
  /\ fields \in FieldScripts /\ done = <<>> /\ read = <<>> /\ trimmed = FALSE

BitNext == WriteField \/ OpenReader \/ ReadField

\* What a field carries, as its writer was given it.
Carried(f) ==
  CASE f.kind = "bits" -> f.value % 2^f.bits
    [] f.kind = "ranged" -> IF f.max <= f.min THEN f.min ELSE Clamp(f.value, f.min, f.max)
    [] f.kind = "float" ->
         LET levels == LevelsForBits(f.bits)
         IN DequantizeFromLevels(QuantizeToLevels(f.value, f.min, f.max, levels), f.min, f.max, levels)
    [] f.kind = "var" -> f.value
    [] OTHER -> 0

\* A stream read with the calls that wrote it gives every field back, across
\* the 32-bit drain of the register and a flush in the middle; a stream cut
\* short is noticed, never before its last whole field; and whatever is read,
\* a ranged field is inside its range ("never out of range, so it is safe to
\* use as an array index").
FieldsReadBack ==
  \A r \in reader :
    /\ r.ok => \A i \in DOMAIN read : read[i] = Carried(done[i])
    /\ ~r.ok => trimmed
    /\ r.ok <=> Succeeds(r.buffer)
    /\ \A i \in DOMAIN read : done[i].kind = "ranged" /\ done[i].min <= done[i].max =>
         read[i] \in done[i].min..done[i].max

-----------------------------------------------------------------------------
(***************************************************************************)
(* Snapshots sent as deltas over a lossy, reordering link: SnapshotHistory  *)
(* and the wrapping sequence numbers (delta/history.h, sequence.h) on both  *)
(* sides, with the loop their comments and the extension's README give a    *)
(* caller, and the fields above on the wire.                                *)
(***************************************************************************)

CONSTANTS Period,      \* how many sequence numbers there are, 2^16 in the code
          Capacity,    \* snapshots a history retains
          Snapshots,   \* the states of the game
          Lag,         \* a datagram is not delivered more ticks late than this;
                       \* until then it may be lost, or delivered repeatedly
          MaxQuiet,    \* a peer that acknowledges nothing for longer is dropped
          MaxTicks,    \* bound: ticks of the game
          MaxRejoins   \* bound: times the peer leaves and joins again

ASSUME DeltaAssumption == Capacity \in 1..Period /\ Period % 2 = 0

VARIABLES tick,      \* ticks so far; the sequence number is tick % Period
          sentSlots,   \* the sender's slots_
          acked,     \* acknowledged_value_, or None
          held,      \* the receiver's slots_
          onAir,     \* snapshots on the way
          onReturn,  \* acknowledgements on the way
          heard,     \* ghost: the tick the last acknowledgement was for
          decoded,   \* ghost: what the last snapshot decoded to, and was
          rejoins    \* times the peer has rejoined

deltaVars == <<tick, sentSlots, acked, held, onAir, onReturn, heard, decoded, rejoins>>

None == -1

SequenceHalfRange == (Period - 1) \div 2 + 1

\* The difference is taken in the unsigned type.
SequenceGreaterThan(a, b) ==
  \/ a > b /\ a - b <= SequenceHalfRange
  \/ a < b /\ b - a > SequenceHalfRange

Unoccupied == [s \in 0..(Capacity - 1) |-> [sequence |-> None, value |-> None]]
Store(slots, sequence, value) ==
  [slots EXCEPT ![sequence % Capacity] = [sequence |-> sequence, value |-> value]]

\* Whatever landed on the slot last is taken for it.
Holds_Blind(slots, sequence) ==
  sequence # None /\ slots[sequence % Capacity].sequence # None

\* A slot knows its own number: another one landing on it is a miss.
Holds(slots, sequence) == sequence # None /\ slots[sequence % Capacity].sequence = sequence
Find(slots, sequence) == slots[sequence % Capacity].value

Acknowledged(mark, sequence) ==
  IF mark = None \/ SequenceGreaterThan(sequence, mark) THEN sequence ELSE mark

-----------------------------------------------------------------------------
\* A snapshot's fields, in the order both sides take them.
Nothing == [ammo |-> 0, yaw |-> 0, firing |-> FALSE]

WriteSnapshot(now, was) ==
  LET ammo == DeltaWriteInt(NewBitWriter(Fresh("little")), now.ammo, was.ammo, 0, 2)
      yaw == DeltaWriteFloat(ammo, now.yaw, was.yaw, 0, 2, 2)
  IN FlushWriter(WriteBool(yaw, now.firing)).buffer

ReadSnapshot(b, was) ==
  LET Firing(ammo, yaw) == [ammo |-> ammo, yaw |-> yaw.value, firing |-> ReadBool(yaw.reader).value]
      Yaw(ammo) == Firing(ammo.value, DeltaReadFloat(ammo.reader, was.yaw, 0, 2, 2))
  IN Yaw(DeltaReadInt(NewBitReader(b), was.ammo, 0, 2))

\* What the receiver should make of a snapshot: every field in its range, the
\* yaw to two bits of precision and in thirds of a unit.
Quantized(s) ==
  [s EXCEPT !.ammo = Clamp(@, 0, 2),
            !.yaw = DequantizeFromLevels(QuantizeToLevels(@, 0, 2, 3), 0, 2, 3)]

-----------------------------------------------------------------------------
\* The sender's tick: store, pick a baseline, encode, send.
Tick ==
  LET sequence == (tick + 1) % Period
  IN /\ tick < MaxTicks
     /\ tick - heard <= MaxQuiet
     /\ tick' = tick + 1
     /\ \E now \in Snapshots :
          LET stored == Store(sentSlots, sequence, now)
              usable == Holds(stored, acked)
              was == IF usable THEN Find(stored, acked) ELSE Nothing
          IN /\ sentSlots' = stored
             /\ onAir' = {p \in onAir : tick' - p.tick <= Lag}
                  \cup {[tick |-> tick', sequence |-> sequence, now |-> now,
                         baseline |-> IF usable THEN acked ELSE None,
                         bytes |-> WriteSnapshot(now, was)]}
     /\ onReturn' = {a \in onReturn : tick' - a.tick <= Lag}
     /\ UNCHANGED <<acked, held, heard, decoded, rejoins>>

\* The receiver decodes against the baseline the packet names, or not at all.
ReceiveSnapshot ==
  \E p \in onAir :
    /\ p.baseline = None \/ Holds(held, p.baseline)
    /\ \E got \in {ReadSnapshot(p.bytes, IF p.baseline = None THEN Nothing
                                         ELSE Find(held, p.baseline))} :
         /\ held' = Store(held, p.sequence, got)
         /\ decoded' = [got |-> got, sent |-> p.now]
    /\ onReturn' = onReturn \cup {[tick |-> p.tick, sequence |-> p.sequence]}
    /\ UNCHANGED <<tick, sentSlots, acked, onAir, heard, rejoins>>

ReceiveAck ==
  \E a \in onReturn :
    /\ acked' = Acknowledged(acked, a.sequence)
    /\ heard' = IF a.tick > heard THEN a.tick ELSE heard
    /\ UNCHANGED <<tick, sentSlots, held, onAir, onReturn, decoded, rejoins>>

\* Reset() on both sides when the peer joins again; the count goes on.
Rejoin ==
  /\ rejoins < MaxRejoins
  /\ rejoins' = rejoins + 1
  /\ sentSlots' = Unoccupied /\ held' = Unoccupied
  /\ acked' = None /\ heard' = tick
  /\ onAir' = {} /\ onReturn' = {}
  /\ UNCHANGED <<tick, decoded>>

DeltaInit ==
  /\ tick = 0 /\ heard = 0 /\ rejoins = 0
  /\ sentSlots = Unoccupied /\ held = Unoccupied
  /\ acked = None /\ onAir = {} /\ onReturn = {}
  /\ decoded = [got |-> Quantized(Nothing), sent |-> Nothing]

DeltaNext == Tick \/ ReceiveSnapshot \/ ReceiveAck \/ Rejoin

\* "A wrong baseline does not produce a corrupt packet": whatever is lost, late
\* or out of order, and across the wrap of the sequence numbers, every snapshot
\* the receiver decodes is the one that was sent.
DecodesWhatWasSent == decoded.got = Quantized(decoded.sent)
=============================================================================
