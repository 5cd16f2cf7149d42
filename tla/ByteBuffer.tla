----------------------------- MODULE ByteBuffer -----------------------------
(***************************************************************************)
(* Buffer (buffer.h): the growable byte array every packet is written into  *)
(* and read from, as operators on a record of its members.  A write yields  *)
(* the new buffer, a read yields [buf, value].  Bytes are numbers; a byte   *)
(* of an allocation nobody has written is Garbage.                          *)
(***************************************************************************)
EXTENDS Integers, Sequences, SequencesExt

CONSTANTS MinGrowth,     \* kMinGrowth
          Heap,          \* external: the largest allocation that succeeds
          MaxElements    \* ZNET_MAX_READ_ELEMENTS and ..._STRING_LENGTH, 0 for none

ASSUME BufferAssumption == {MinGrowth, Heap, MaxElements} \subseteq Nat

Garbage == -1
NoLimit == 2147483647   \* stands for the largest size_t

Blank(n) == [i \in 1..n |-> Garbage]

Fresh(endian) ==
  [data |-> <<>>, null |-> TRUE, wr |-> 0, rd |-> 0, limit |-> NoLimit,
   error |-> "None", endian |-> endian]

AllocatedSize(b) == Len(b.data)
ReadEnd(b) == IF b.wr < b.limit THEN b.wr ELSE b.limit
ReadableBytes(b) == IF b.rd > ReadEnd(b) THEN 0 ELSE ReadEnd(b) - b.rd
CheckReadableBytes(b, n) == ReadEnd(b) >= b.rd + n
Failed(b, error) == [b EXCEPT !.error = error]
Succeeds(b) == b.error = "None"

-----------------------------------------------------------------------------
\* Space.

Grown(size) == IF 2 * size < MinGrowth THEN MinGrowth ELSE 2 * size

\* Only what was written is copied into the larger array.
Reserve(b, size, exact) ==
  LET target == IF b.null /\ exact THEN size ELSE Grown(size)
  IN IF ~b.null /\ AllocatedSize(b) >= size THEN b
     ELSE IF target > Heap THEN Failed(b, "CannotAllocate")
     ELSE [b EXCEPT !.data = IF b.null THEN Blank(target)
                             ELSE SubSeq(b.data, 1, b.wr) \o Blank(target - b.wr),
                    !.null = FALSE]

ReserveExact(b, size) == Reserve(b, size, TRUE)

\* Reserve() left room for n more bytes, or nothing is written.
HasRoom(b, n) == ~b.null /\ AllocatedSize(b) >= b.wr + n

ReserveHeadroom(b, n) == [b EXCEPT !.rd = n, !.wr = n]

Compact_KeepsReadCursor(b) ==
  LET unread == IF b.wr > b.rd THEN b.wr - b.rd ELSE 0
  IN IF b.rd = 0 THEN b
     ELSE [b EXCEPT !.data = [i \in DOMAIN @ |-> IF i <= unread THEN @[b.rd + i] ELSE @[i]],
                    !.wr = unread]

Compact(b) ==
  LET unread == IF b.wr > b.rd THEN b.wr - b.rd ELSE 0
  IN IF b.rd = 0 THEN b
     ELSE [b EXCEPT !.data = [i \in DOMAIN @ |-> IF i <= unread THEN @[b.rd + i] ELSE @[i]],
                    !.rd = 0, !.wr = unread]

Trim(b) ==
  IF b.wr = AllocatedSize(b) THEN b
  ELSE IF b.wr > Heap THEN Failed(b, "CannotAllocate")
  ELSE [b EXCEPT !.data = SubSeq(@, 1, b.wr), !.null = FALSE]

\* The copy constructor: what was written, in an allocation of the same size.
Copy(b) ==
  IF AllocatedSize(b) = 0 \/ b.null THEN [b EXCEPT !.data = <<>>, !.null = TRUE]
  ELSE IF AllocatedSize(b) > Heap
  THEN [b EXCEPT !.data = <<>>, !.null = TRUE, !.error = "CannotAllocate", !.wr = 0, !.rd = 0]
  ELSE [b EXCEPT !.data = SubSeq(@, 1, b.wr) \o Blank(AllocatedSize(b) - b.wr)]

-----------------------------------------------------------------------------
\* Writing.

Poke(b, at, bytes) ==
  [b EXCEPT !.data = SubSeq(@, 1, at) \o bytes \o SubSeq(@, at + Len(bytes) + 1, Len(@))]

Write(b, bytes) ==
  LET r == Reserve(b, b.wr + Len(bytes), FALSE)
  IN IF HasRoom(r, Len(bytes))
     THEN [Poke(r, r.wr, bytes) EXCEPT !.wr = @ + Len(bytes)] ELSE r

\* The bytes of a number of the given width, least significant first.
Digits(v, width) == [i \in 1..width |-> (v \div 256^(i - 1)) % 256]
InOrder(b, bytes) == IF b.endian = "little" THEN bytes ELSE Reverse(bytes)

WriteNumber(b, v, width) == Write(b, InOrder(b, Digits(v, width)))

\* A count of the bytes up to the last one that is not zero, and those bytes.
VarWidth(v, width) ==
  CHOOSE n \in 0..width : v < 256^n /\ \A m \in 0..(n - 1) : v >= 256^m

WriteVarInt(b, v, width) ==
  LET Placed(r, n) == IF HasRoom(r, n + 1)
                      THEN Write(Write(r, <<n>>), InOrder(b, Digits(v, n))) ELSE r
      Sized(n) == Placed(Reserve(b, b.wr + n + 1, FALSE), n)
  IN Sized(VarWidth(v, width))

\* The first reservation of WriteString() is not looked at.
WriteString(b, bytes) ==
  FoldLeft(LAMBDA c, byte : Write(c, <<byte>>),
           WriteVarInt(Reserve(b, b.wr + Len(bytes) + 8, FALSE), Len(bytes), 8), bytes)

\* WriteVector() and WriteMap(): a count, and the elements one by one,
\* here 16-bit numbers or a map from numbers to bytes.
WriteCounted(b, kind, values) ==
  LET Element(c, v) == IF kind = "map" THEN WriteNumber(WriteVarInt(c, v[1], 4), v[2], 1)
                       ELSE WriteNumber(c, v, 2)
  IN FoldLeft(Element, WriteVarInt(b, Len(values), 8), values)

\* An address is its family, its raw bytes and its port in network order.
WriteInetAddress(b, a) ==
  IF a.family = 0 THEN WriteNumber(b, 0, 1)
  ELSE Write(Write(WriteNumber(b, a.family, 1), a.ip), Reverse(Digits(a.port, 2)))

WriteBitset(b, bits) ==
  LET Bit(i) == IF i <= Len(bits) THEN bits[i] ELSE 0
      Byte(k) == FoldLeft(LAMBDA v, j : v + 2^(j - 1) * Bit(8 * (k - 1) + j), 0, [j \in 1..8 |-> j])
  IN Write(b, [k \in 1..((Len(bits) + 7) \div 8) |-> Byte(k)])

\* One byte in front of the read cursor; refused, the buffer stays as it is.
CanPrepend(b) == b.rd > 0 /\ ~b.null
PrependInt8(b, v) == [Poke(b, b.rd - 1, <<v>>) EXCEPT !.rd = @ - 1]

\* Bytes an external writer placed at the write cursor, and the cursor moved over.
CommitWrite(b, bytes) == [Poke(b, b.wr, bytes) EXCEPT !.wr = @ + Len(bytes)]

-----------------------------------------------------------------------------
\* Reading.  A refused read yields zero bytes and leaves the cursor alone.

Zeros(n) == [i \in 1..n |-> 0]
Value(bytes) == FoldLeft(LAMBDA v, i : v + bytes[i] * 256^(i - 1), 0, [i \in 1..Len(bytes) |-> i])
Result(b, value) == [buf |-> b, value |-> value]

ReadCursorData(b) == SubSeq(b.data, b.rd + 1, b.rd + ReadableBytes(b))
SkipRead(b, n) == [b EXCEPT !.rd = @ + n]
SetReadLimit(b, n) == [b EXCEPT !.limit = IF n = 0 THEN NoLimit ELSE n]

Read(b, n) ==
  IF CheckReadableBytes(b, n) THEN Result(SkipRead(b, n), SubSeq(b.data, b.rd + 1, b.rd + n))
  ELSE Result(Failed(b, "ReadOutOfBounds"), Zeros(n))

ReadNumber(b, width) ==
  LET Number(r) == Result(r.buf, Value(InOrder(b, r.value))) IN Number(Read(b, width))

ReadVarInt(b, width) ==
  LET Body(size) ==
        IF ~CheckReadableBytes(b, 1) THEN size
        ELSE IF size.value > width THEN Result(Failed(size.buf, "CorruptedFormat"), 0)
        ELSE ReadNumber(size.buf, size.value)
  IN Body(ReadNumber(b, 1))

\* Whether a count read off the wire may be acted on.
ReadCountError(b, count, each) ==
  IF MaxElements # 0 /\ count > MaxElements THEN "ReadLimitExceeded"
  ELSE IF count > ReadableBytes(b) \div each THEN "ReadOutOfBounds" ELSE "None"

ReadString(b) ==
  LET Body(size, error) ==
        IF error # "None" THEN Result(Failed(size.buf, error), <<>>)
        ELSE Read(size.buf, size.value)
      Counted(size) == Body(size, ReadCountError(size.buf, size.value, 1))
  IN Counted(ReadVarInt(b, 8))

\* ReadVector() takes an element for one byte at least, ReadMap() for two; one
\* that cannot be read is zero, and still counts.
ReadCounted(b, kind) ==
  LET each == IF kind = "map" THEN 2 ELSE 1
      Entry(k, v) == Result(v.buf, <<k.value, v.value>>)
      Keyed(k) == Entry(k, ReadNumber(k.buf, 1))
      Added(values, e) == Result(e.buf, Append(values, e.value))
      Element(r, i) == Added(r.value, IF kind = "map" THEN Keyed(ReadVarInt(r.buf, 4))
                                      ELSE ReadNumber(r.buf, 2))
      Body(size, error) ==
        IF error # "None" THEN Result(Failed(size.buf, error), <<>>)
        ELSE FoldLeft(Element, Result(size.buf, <<>>), [i \in 1..size.value |-> i])
      Counted(size) == Body(size, ReadCountError(size.buf, size.value, each))
  IN Counted(ReadVarInt(b, 8))

ReadInetAddress(b) ==
  LET Whole(family, ip, port) ==
        Result(port.buf, [family |-> family, ip |-> ip, port |-> Value(Reverse(port.value))])
      Port(family, ip) == Whole(family, ip.value, Read(ip.buf, 2))
      Body(family) ==
        IF family.value \notin {4, 6}
        THEN Result(Failed(family.buf, "CorruptedFormat"), [family |-> 0])
        ELSE Port(family.value, Read(family.buf, IF family.value = 4 THEN 4 ELSE 16))
  IN Body(ReadNumber(b, 1))

ReadBitset(b, n) ==
  LET Bits(r) ==
        Result(r.buf, [i \in 1..n |-> (r.value[1 + (i - 1) \div 8] \div 2^((i - 1) % 8)) % 2])
  IN Bits(Read(b, (n + 7) \div 8))

TakeError(b) == Result([b EXCEPT !.error = "None"], b.error)
=============================================================================
