---------------------------- MODULE ZdtDatagram ----------------------------
(***************************************************************************)
(* The bytes of a ZDT datagram (zdt_wire.h, zdt_wire.cc): online headers    *)
(* with their ack blocks and message records, offline messages behind a     *)
(* magic, and the channel header a relay puts in front of either; and how a *)
(* receiver tells them apart when the tail of a datagram may be missing.    *)
(***************************************************************************)
EXTENDS ByteBuffer

CONSTANTS Datagrams,      \* what is sent
          CidSize,        \* kZDTCidSize (8 in the code)
          CookieLen,      \* kZDTCookieLen
          Magic,          \* kZDTMagic
          MaxAckBlocks    \* kZDTMaxAckBlocks

FlagHasCid == 8
FlagOnline == 128
RelayMarker == 192
RecFragment == 4
HeaderSize == 6
RecordHeaderSize == 6
RelayHeaderSize == 4
EpochSize == 4

HasFlag(flags, flag) == (flags \div flag) % 2 = 1
NotRead(b) == [ok |-> FALSE, buf |-> b]
WasRead(b, value) == [ok |-> TRUE, buf |-> b, value |-> value]

-----------------------------------------------------------------------------
\* Numbers <<value, width>> one after another, big-endian.
WriteNumbers(b, numbers) ==
  Write(b, FlattenSeq([i \in DOMAIN numbers |-> Reverse(Digits(numbers[i][1], numbers[i][2]))]))

WriteZDTHeader(b, h) ==
  LET cid == IF HasFlag(h.flags, FlagHasCid) THEN <<<<h.cid, CidSize>>>> ELSE <<>>
      blocks == [i \in 1..(2 * Len(h.blocks)) |-> <<h.blocks[(i + 1) \div 2][2 - (i % 2)], 1>>]
  IN WriteNumbers(b, <<<<h.flags, 1>>>> \o cid
                       \o <<<<h.seq, 2>>, <<h.ack, 2>>, <<Len(h.blocks), 1>>>> \o blocks)

\* The length is checked before the blocks are counted, and again after.
ReadZDTHeader(b) ==
  LET flags == ReadNumber(b, 1)
      cidSize == IF HasFlag(flags.value, FlagHasCid) THEN CidSize ELSE 0
      cid == ReadNumber(flags.buf, cidSize)
      seq == ReadNumber(cid.buf, 2)
      ack == ReadNumber(seq.buf, 2)
      count == ReadNumber(ack.buf, 1)
      Block(r, i) == LET a == ReadNumber(r.buf, 1)
                         n == ReadNumber(a.buf, 1)
                     IN Result(n.buf, Append(r.value, <<a.value, n.value>>))
      blocks == FoldLeft(Block, Result(count.buf, <<>>), [i \in 1..count.value |-> i])
  IN IF \/ ReadableBytes(b) < 1
        \/ ~HasFlag(flags.value, FlagOnline)
        \/ ReadableBytes(flags.buf) < HeaderSize - 1 + cidSize
        \/ count.value > MaxAckBlocks
        \/ ReadableBytes(count.buf) < 2 * count.value
     THEN NotRead(b)
     ELSE WasRead(blocks.buf, [flags |-> flags.value, cid |-> cid.value, seq |-> seq.value,
                               ack |-> ack.value, blocks |-> blocks.value])

WriteZDTRecord(b, r) ==
  LET frag == IF HasFlag(r.flags, RecFragment) THEN <<<<r.index, 1>>, <<r.count, 1>>>> ELSE <<>>
  IN Write(WriteNumbers(b, <<<<r.flags, 1>>, <<r.channel, 1>>, <<r.seq, 2>>>> \o frag
                       \o <<<<Len(r.payload), 2>>>>), r.payload)

ReadZDTRecord(b) ==
  LET flags == ReadNumber(b, 1)
      channel == ReadNumber(flags.buf, 1)
      seq == ReadNumber(channel.buf, 2)
      fragment == HasFlag(flags.value, RecFragment)
      index == ReadNumber(seq.buf, 1)
      count == ReadNumber(index.buf, 1)
      length == ReadNumber(IF fragment THEN count.buf ELSE seq.buf, 2)
  IN IF \/ ReadableBytes(b) < RecordHeaderSize
        \/ fragment /\ ReadableBytes(seq.buf) < 4
        \/ ReadableBytes(length.buf) < length.value
     THEN NotRead(b)
     ELSE WasRead(SkipRead(length.buf, length.value),
            [flags |-> flags.value, channel |-> channel.value, seq |-> seq.value,
             index |-> IF fragment THEN index.value ELSE 0,
             count |-> IF fragment THEN count.value ELSE 1,
             payload |-> Read(length.buf, length.value).value])

WriteOfflineHeader(b, id) == Write(WriteNumber(b, id, 1), Magic)

\* Neither a datagram too short, nor one with the online marker, nor one with
\* other bytes where the magic belongs.
ReadOfflineHeader(b) ==
  LET id == ReadNumber(b, 1)
      magic == Read(id.buf, Len(Magic))
  IN IF \/ ReadableBytes(b) < 1 + Len(Magic)
        \/ HasFlag(id.value, FlagOnline)
        \/ magic.value # Magic
     THEN NotRead(b) ELSE WasRead(magic.buf, id.value)

WritePathMessage(b, m) ==
  Write(WriteNumbers(WriteOfflineHeader(b, m.id), <<<<m.cid, CidSize>>, <<m.epoch, EpochSize>>>>), m.cookie)

\* What is missing reads as zeros.
ReadPathMessage_Unchecked(b) ==
  LET cid == ReadNumber(b, CidSize)
      epoch == ReadNumber(cid.buf, EpochSize)
      cookie == Read(epoch.buf, CookieLen)
  IN WasRead(cookie.buf, [cid |-> cid.value, epoch |-> epoch.value,
                 cookie |-> cookie.value])

ReadPathMessage(b) ==
  LET cid == ReadNumber(b, CidSize)
      epoch == ReadNumber(cid.buf, EpochSize)
      cookie == Read(epoch.buf, CookieLen)
  IN IF ReadableBytes(b) < CidSize + EpochSize + CookieLen THEN NotRead(b)
     ELSE WasRead(cookie.buf, [cid |-> cid.value, epoch |-> epoch.value,
                      cookie |-> cookie.value])

WriteRelayHeader(b, channel) ==
  WriteNumbers(b, <<<<RelayMarker, 1>>, <<(channel \div 65536) % 256, 1>>,
                <<(channel \div 256) % 256, 1>>, <<channel % 256, 1>>>>)

\* Read off the bytes; channel 0 is none.
ReadRelayHeader(b) ==
  LET marker == ReadNumber(b, 1)
      channel == ReadNumber(marker.buf, 3)
  IN IF ReadableBytes(b) < RelayHeaderSize \/ marker.value # RelayMarker \/ channel.value = 0
     THEN NotRead(b) ELSE WasRead(channel.buf, channel.value)

\* PeekCid(): false for a datagram without one, or too short to hold it.
PeekCid(b) ==
  LET flags == ReadNumber(b, 1)
  IN IF ReadableBytes(b) < 1 + CidSize \/ ~HasFlag(flags.value, FlagHasCid) THEN NotRead(b)
     ELSE WasRead(b, ReadNumber(flags.buf, CidSize).value)

-----------------------------------------------------------------------------
\* A datagram on its way, and the reader's view of it, record by record.

VARIABLES gram,      \* the datagram, as its sender meant it
          packet,    \* its bytes, as far as they arrived
          view       \* what the receiver has made of them

gramVars == <<gram, packet, view>>

Encoded(d) ==
  LET front == IF d.relay = 0 THEN Fresh("big") ELSE WriteRelayHeader(Fresh("big"), d.relay)
  IN CASE d.kind = "online" -> FoldLeft(WriteZDTRecord, WriteZDTHeader(front, d.header), d.records)
       [] d.kind = "path" -> WritePathMessage(front, d.path)
       [] d.kind = "offline" -> WriteOfflineHeader(front, d.id)

Unread == [kind |-> "unread", relay |-> 0, cid |-> -1, header |-> {}, records |-> <<>>, path |-> {}, id |-> 0]

SendGram ==
  /\ gram = {}
  /\ \E d \in Datagrams :
       /\ gram' = {d}
       /\ \E n \in 0..Encoded(d).wr : packet' = [Encoded(d) EXCEPT !.wr = n]
  /\ view' = Unread

\* The order in which an inbox looks at a datagram: relay, offline, online.
\* Behind a relay marker without its channel nothing is looked at.
Demux ==
  LET relay == ReadRelayHeader(packet)
      torn == ~relay.ok /\ ReadNumber(packet, 1).value = RelayMarker
      body == IF relay.ok THEN relay.buf ELSE packet
      offline == ReadOfflineHeader(body)
      online == ReadZDTHeader(body)
      path == ReadPathMessage(offline.buf)
      seen == [Unread EXCEPT !.relay = IF relay.ok THEN relay.value ELSE 0]
  IN /\ view.kind = "unread" /\ gram # {}
     /\ UNCHANGED gram
     /\ \/ /\ offline.ok /\ offline.value \notin {14, 15}
           /\ view' = [seen EXCEPT !.kind = "offline", !.id = offline.value] /\ UNCHANGED packet
        \/ /\ offline.ok /\ offline.value \in {14, 15}
           /\ view' = IF path.ok THEN [seen EXCEPT !.kind = "path", !.path = {path.value}, !.id = offline.value]
                      ELSE [seen EXCEPT !.kind = "refused"]
           /\ UNCHANGED packet
        \/ /\ ~torn /\ ~offline.ok /\ online.ok
           /\ view' = [seen EXCEPT !.kind = "online", !.header = {online.value},
                         !.cid = IF PeekCid(body).ok THEN PeekCid(body).value ELSE -1]
           /\ packet' = online.buf
        \/ /\ ~offline.ok /\ (torn \/ ~online.ok)
           /\ view' = [seen EXCEPT !.kind = "refused"] /\ UNCHANGED packet

\* OnDatagram()'s loop: records until one does not read.
NextRecord ==
  LET r == ReadZDTRecord(packet)
  IN /\ view.kind = "online" /\ r.ok
     /\ packet' = r.buf
     /\ view' = [view EXCEPT !.records = Append(@, r.value)]
     /\ UNCHANGED gram

GramInit == gram = {} /\ packet = Fresh("big") /\ view = Unread
GramNext == SendGram \/ Demux \/ NextRecord

Arrived(d) == packet.wr = Encoded(d).wr

\* A datagram is read as what it was written as or not at all, however much of
\* its tail is missing: the three kinds are never taken for one another (their
\* first bytes keep them apart), a header, a connection id or a path message is
\* whole, and the records are a prefix of those that were packed.
ReadAsWritten ==
  \A d \in gram :
    /\ view.kind \in {"unread", "refused", d.kind}
    /\ view.kind # "unread" /\ Arrived(d) => view.kind = d.kind /\ view.relay = d.relay
    /\ view.kind = "online" =>
         /\ view.header = {d.header}
         /\ view.cid = IF HasFlag(d.header.flags, FlagHasCid) THEN d.header.cid ELSE -1
         /\ IsPrefix(view.records, d.records)
         /\ Arrived(d) /\ ~ReadZDTRecord(packet).ok => view.records = d.records
    /\ view.kind = "path" => view.path = {[cid |-> d.path.cid, epoch |-> d.path.epoch, cookie |-> d.path.cookie]}
    /\ view.kind = "offline" => view.id = d.id
=============================================================================
