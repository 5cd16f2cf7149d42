---------------------------- MODULE MessagePath ----------------------------
(***************************************************************************)
(* What a message goes through between PeerSession::EncodeAndSend() and the *)
(* handler at the other end (message_pipeline.cc, codec.cc, compression.cc, *)
(* the byte layout of encryption.cc, the frame of tcp.cc), over the bytes   *)
(* of ByteBuffer.  Keys and replay are SessionCrypto's; here the cipher is   *)
(* an opaque reversible function of the bytes.                              *)
(***************************************************************************)
EXTENDS ByteBuffer

CONSTANTS SendHeadroom,      \* kSendHeadroom
          Policies,          \* compression, encryption and builds of a session
          Scripts,           \* what is sent: a sequence of messages, each a
                             \* sequence of packets
          MaxInvalidFrames   \* max_invalid_frames, 0 for none

VARIABLES policy,    \* the session's settings, fixed at the handshake
          mail,      \* messages still to be sent
          transit,   \* message buffers on the way
          handled,   \* the calls of the handler's functions
          invalid,   \* invalid_frames_
          live,      \* the session has not closed
          taken      \* messages sent so far

pathVars == <<policy, mail, transit, handled, invalid, live, taken>>

Null == [null |-> TRUE]
NoBuffer == [Fresh("little") EXCEPT !.error = "nullptr"]

-----------------------------------------------------------------------------
\* Serializers belong to the application: what one may do with its buffer.
\*   "exact" reads what was written, "short" one byte less, "checked" reads a
\*   byte too many, sees the error, clears it and refuses; "lenient" reads it
\*   too and returns the packet, "refuses" returns null, both leaving the error
\*   behind; "skips" moves the cursor over the end of the frame.

SerializeBody(packet, b) ==
  CASE packet.writes = "nothing" -> NoBuffer
    [] OTHER -> FoldLeft(LAMBDA c, byte : WriteNumber(c, byte, 1), b, packet.body)

DeserializeBody(kind, b) ==
  LET n == ReadableBytes(b)
      wanted == CASE kind = "exact" -> n
                  [] kind = "short" -> IF n = 0 THEN 0 ELSE n - 1
                  [] OTHER -> n + 1
      Appended(r, e) == Result(e.buf, Append(r.value, e.value))
      Outcome(r) == CASE kind = "checked" -> Result(TakeError(r.buf).buf, Null)
                      [] kind = "refuses" -> Result(r.buf, Null)
                      [] OTHER -> r
  IN IF kind = "skips" THEN Result(SkipRead(b, n + 1), <<>>)
     ELSE Outcome(FoldLeft(LAMBDA r, i : Appended(r, ReadNumber(r.buf, 1)),
                           Result(b, <<>>), [i \in 1..wanted |-> i]))

-----------------------------------------------------------------------------
\* Codec.

SetWriteCursor(b, n) == [b EXCEPT !.wr = n]

Serialize(packet, headroom) ==
  LET Sized(body, start) ==
        IF body = NoBuffer THEN NoBuffer
        ELSE SetWriteCursor(WriteNumber(SetWriteCursor(body, start - 4), body.wr - start, 4), body.wr)
      Filled(header) ==
        Sized(IF packet.writes = "own"
              THEN Write(header, ReadCursorData(SerializeBody(packet, Fresh("little"))))
              ELSE SerializeBody(packet, header), header.wr)
  IN Filled(WriteNumber(WriteVarInt(ReserveHeadroom(Fresh("little"), headroom),
                                    packet.id, 8), 0, 4))

\* One frame is fenced in by the read limit, and skipped whole by its size.
RECURSIVE DeserializeFrom(_, _, _)
DeserializeFrom(b, serializers, stats) ==
  LET Lost == [stats EXCEPT !.invalid = @ + 1, !.lost = TRUE]
      Next(buf, end, seen) ==
        DeserializeFrom([buf EXCEPT !.rd = end, !.limit = NoLimit], serializers, seen)
      Body(id, pk, end) ==
        IF pk.value # Null /\ pk.buf.rd > end THEN Lost
        ELSE Next(pk.buf, end,
                  IF pk.value = Null THEN [stats EXCEPT !.invalid = @ + 1]
                  ELSE [stats EXCEPT !.packets = Append(@, [id |-> id, body |-> pk.value])])
      Fenced(id, size, header, end) ==
        CASE header.value # "None" \/ size > ReadableBytes(header.buf) -> Lost
          [] id \notin DOMAIN serializers -> Next(header.buf, end, stats)
          [] OTHER -> Body(id, DeserializeBody(serializers[id], SetReadLimit(header.buf, end)), end)
      Size(id, size) == Fenced(id, size.value, TakeError(size.buf), size.buf.rd + size.value)
      Id(id) == Size(id.value, ReadNumber(id.buf, 4))
  IN IF ReadableBytes(b) = 0 THEN stats ELSE Id(ReadVarInt(b, 8))

Deserialize(b, serializers) ==
  DeserializeFrom(b, serializers, [packets |-> <<>>, invalid |-> 0, lost |-> FALSE])

-----------------------------------------------------------------------------
\* Compression: a type byte, then the payload or its zstd frame.

\* external: zstd, a frame that states its content size.
ZstdFrame(bytes) == <<40, Len(bytes)>> \o [i \in 1..Len(bytes) |-> 255 - bytes[i]]
IsZstd(bytes) == Len(bytes) >= 2 /\ bytes[1] = 40 /\ bytes[2] = Len(bytes) - 2
ZstdContent(bytes) == [i \in 1..(Len(bytes) - 2) |-> 255 - bytes[i + 2]]

RawNone == 0
RawZstd == 1

\* A byte in front, in place when the stage before left room.
Prepended(b, byte, room) ==
  IF CanPrepend(b) THEN PrependInt8(b, byte)
  ELSE Write(WriteNumber(ReserveExact(ReserveHeadroom(Fresh("little"), room),
                                      ReadableBytes(b) + room + 1), byte, 1), ReadCursorData(b))

CompressZstd(b) ==
  LET Held(bytes) == CommitWrite(ReserveExact(ReserveHeadroom(Fresh("little"), 4), 4 + Len(bytes)), bytes)
  IN Held(ZstdFrame(ReadCursorData(b)))

DecompressZstd(b) ==
  LET Content(bytes) ==
        IF IsZstd(bytes)
        THEN CommitWrite(ReserveExact(Fresh("little"), Len(bytes) - 2), ZstdContent(bytes))
        ELSE NoBuffer
  IN Content(ReadCursorData(b))

\* What is not compressed goes out as it is.
HandleOutWithType_Bare(type, b, zstd) ==
  IF type = "Zstandard" /\ zstd THEN PrependInt8(CompressZstd(b), RawZstd) ELSE b

HandleOutWithType(type, b, zstd) ==
  IF type = "Zstandard" /\ zstd THEN PrependInt8(CompressZstd(b), RawZstd)
  ELSE Prepended(b, RawNone, 3)

HandleInDynamic(b, zstd) ==
  LET Typed(type) == CASE type.value = RawNone -> type.buf
                       [] type.value = RawZstd /\ zstd -> DecompressZstd(type.buf)
                       [] OTHER -> NoBuffer
  IN Typed(ReadNumber(b, 1))

-----------------------------------------------------------------------------
\* Encryption: a mode byte, then the payload, or a header, ciphertext and tag.

ModePlaintext == 0
ModeAesGcm == 2
HeaderLen == 2
TagLen == 1

\* external: the cipher.
Cipher(bytes) == [i \in 1..Len(bytes) |-> (bytes[i] + 101) % 256]
Plain(bytes) == [i \in 1..Len(bytes) |-> (bytes[i] + 155) % 256]

\* HandleOut(): the header is written over once the counter is taken.
HandleOut(b, encrypted) ==
  LET Headed(sealed, at) == SetWriteCursor(Write(SetWriteCursor(sealed, at), <<0, 7>>), sealed.wr)
      Sealed(mode, bytes) ==
        Headed(Write(CommitWrite([mode EXCEPT !.wr = @ + HeaderLen], Cipher(bytes)), <<9>>), mode.wr)
      Moded(bytes) ==
        Sealed(WriteNumber(ReserveExact(ReserveHeadroom(Fresh("little"), 2),
                 3 + HeaderLen + Len(bytes) + TagLen), ModeAesGcm, 1), bytes)
  IN IF encrypted THEN Moded(ReadCursorData(b)) ELSE Prepended(b, ModePlaintext, 2)

HandleDecrypt(b, encrypted) ==
  LET Opened(cipher) == CommitWrite(ReserveExact(Fresh("little"), Len(cipher)), Plain(cipher))
      Untagged(bytes) == SubSeq(bytes, 1, Len(bytes) - TagLen)
      Moded(mode) ==
        CASE mode.value = ModePlaintext /\ ~encrypted -> mode.buf
          [] mode.value = ModeAesGcm /\ encrypted /\ ReadableBytes(mode.buf) >= HeaderLen + TagLen ->
               Opened(Untagged(ReadCursorData(Read(mode.buf, HeaderLen).buf)))
          [] OTHER -> NoBuffer
  IN Moded(ReadNumber(b, 1))

-----------------------------------------------------------------------------
\* The handler: [form, takes], the ways it takes each packet type it knows.  A
\* PacketHandler calls every overload it has, by reference first; a
\* CallbackPacketHandler calls one, the shared one if there is one.

Handle(handler, pk) ==
  LET takes == IF pk.id \in DOMAIN handler.takes THEN handler.takes[pk.id] ELSE {}
      Call(as) == IF as \in takes THEN <<[id |-> pk.id, body |-> pk.body, as |-> as]>> ELSE <<>>
  IN IF handler.form = "PacketHandler" THEN Call("ref") \o Call("shared")
     ELSE IF "shared" \in takes THEN Call("shared") ELSE Call("ref")

-----------------------------------------------------------------------------
\* The session's two ends.

\* A message is one packet; a caller of Codec alone may put several together.
Payload(message) ==
  LET Joined(b, frame) == CASE b = NoBuffer -> frame
                            [] frame = NoBuffer -> b
                            [] OTHER -> Write(b, ReadCursorData(frame))
  IN FoldLeft(LAMBDA b, pk : Joined(b, Serialize(pk, IF b = NoBuffer THEN SendHeadroom ELSE 0)),
              NoBuffer, message)

Encode(message) ==
  LET Type(b) == IF ReadableBytes(b) < policy.threshold THEN "None" ELSE policy.compression
      Out(b) == IF b = NoBuffer THEN NoBuffer
                ELSE HandleOut(HandleOutWithType(Type(b), b, policy.zstdOut), policy.encrypted)
  IN Out(Payload(message))

Decode(b) ==
  LET In(plain) == IF plain = NoBuffer THEN NoBuffer ELSE HandleInDynamic(plain, policy.zstdIn)
  IN In(HandleDecrypt(b, policy.encrypted))

\* TCPTransportLayer::Send(): the length in front, in place or in a new buffer.
Framed(b) ==
  LET n == ReadableBytes(b)
      copy == WriteNumber(WriteNumber(ReserveExact(Fresh("little"), n + 2), n \div 256, 1), n % 256, 1)
  IN IF b.rd >= 2 THEN PrependInt8(PrependInt8(b, n % 256), n \div 256)
     ELSE Write(copy, ReadCursorData(b))

\* ReadBuffer(): the frame's bytes, in a buffer of their own.
Unframed(b) ==
  LET Body(high, low) == Write(Fresh("little"), Read(low.buf, 256 * high + low.value).value)
      Length(high) == Body(high.value, ReadNumber(high.buf, 1))
  IN Length(ReadNumber(b, 1))

EncodeAndSend ==
  /\ live /\ mail # <<>>
  /\ mail' = Tail(mail)
  /\ taken' = Append(taken, Head(mail))
  /\ \E b \in {Encode(Head(mail))} :
       transit' = IF b = NoBuffer \/ ReadableBytes(b) = 0 THEN transit ELSE Append(transit, Framed(b))
  /\ UNCHANGED <<policy, handled, invalid, live>>

\* One turn of Process(): a message that does not decode is passed over.
Process ==
  /\ live /\ transit # <<>>
  /\ transit' = Tail(transit)
  /\ \E b \in {Decode(Unframed(Head(transit)))} :
     \E stats \in {IF b = NoBuffer THEN [packets |-> <<>>, invalid |-> 0, lost |-> FALSE]
                   ELSE Deserialize(b, policy.serializers)} :
       /\ handled' = FoldLeft(LAMBDA calls, pk : calls \o Handle(policy.handler, pk), handled, stats.packets)
       /\ invalid' = invalid + stats.invalid
       /\ live' = ~(stats.invalid > 0 /\ MaxInvalidFrames # 0 /\ invalid' >= MaxInvalidFrames)
  /\ UNCHANGED <<policy, mail, taken>>

PathInit ==
  /\ policy \in Policies
  /\ mail \in Scripts
  /\ transit = <<>> /\ handled = <<>> /\ taken = <<>>
  /\ invalid = 0 /\ live = TRUE

PathNext == EncodeAndSend \/ Process

PathSpec == PathInit /\ [][PathNext]_pathVars

-----------------------------------------------------------------------------
\* What one packet should come to at the other end, as the codec's interface
\* has it: handled, counted as invalid, or neither.
Kind(pk) == IF pk.id \in DOMAIN policy.serializers THEN policy.serializers[pk.id] ELSE "unknown"
Arrives(pk) == pk.writes # "nothing"
Reads(pk) == Arrives(pk) /\ Kind(pk) \in {"exact", "short", "lenient"}
Bad(pk) == Arrives(pk) /\ Kind(pk) \in {"checked", "refuses", "skips"}
Delivered(pk) ==
  [id |-> pk.id,
   body |-> CASE Kind(pk) = "short" /\ pk.body # <<>> -> Front(pk.body)
              [] Kind(pk) = "lenient" -> Append(pk.body, 0)
              [] OTHER -> pk.body]

\* What the handler is called with for it.
Calls(pk) ==
  LET takes == IF pk.id \in DOMAIN policy.handler.takes THEN policy.handler.takes[pk.id] ELSE {}
      ways == CASE takes = {} -> <<>>
                [] takes # {"ref", "shared"} -> SetToSeq(takes)
                [] policy.handler.form = "PacketHandler" -> <<"ref", "shared">>
                [] OTHER -> <<"shared">>
  IN [i \in DOMAIN ways |-> [id |-> pk.id, body |-> pk.body, as |-> ways[i]]]

\* The packets of a message a reader gets to: none after one that overran.
Reached(message) ==
  {i \in DOMAIN message : \A j \in 1..(i - 1) : ~(Arrives(message[j]) /\ Kind(message[j]) = "skips")}
Whole(message) ==
  LET seen == SelectSeq([i \in DOMAIN message |-> i], LAMBDA i : i \in Reached(message) /\ Reads(message[i]))
  IN FlattenSeq([k \in DOMAIN seen |-> Calls(Delivered(message[seen[k]]))])
Faults(message) == Len(SelectSeq([i \in DOMAIN message |-> i], LAMBDA i : i \in Reached(message) /\ Bad(message[i])))

\* The message of each buffer on the way: those whose encoding gave nothing left none.
Travelled == SelectSeq(taken, LAMBDA m : \E i \in DOMAIN m : Arrives(m[i]))
Consumed == SubSeq(Travelled, 1, Len(Travelled) - Len(transit))

\* "The exact inverse of Encode's middle two stages", and a codec that skips a
\* frame it cannot use: whatever the compression, the cipher, the headroom and
\* the neighbours in the same buffer, the handler is called with every packet a
\* serializer reads and it takes, byte for byte and in order, and every frame
\* that does not decode is counted once.
Transparent ==
  /\ handled = FlattenSeq([i \in DOMAIN Consumed |-> Whole(Consumed[i])])
  /\ invalid = FoldLeft(LAMBDA n, m : n + Faults(m), 0, Consumed)
=============================================================================
