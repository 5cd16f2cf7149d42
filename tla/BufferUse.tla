------------------------------ MODULE BufferUse ------------------------------
(***************************************************************************)
(* A Buffer in use: values of every kind are written into it and read back, *)
(* in whatever order the two cursors allow, while it grows, is compacted,   *)
(* trimmed and copied, and perhaps reaches its reader cut short.            *)
(***************************************************************************)
EXTENDS ByteBuffer

CONSTANTS BufferScripts   \* sequences of [kind, value] to write

VARIABLES buf,     \* the buffer
          script,  \* values still to be written
          wrote,   \* values written
          got,     \* values read
          cut      \* bytes at the end were lost on the way

bufferVars == <<buf, script, wrote, got, cut>>

Put(item, b) ==
  CASE item.kind = "byte" -> WriteNumber(b, item.value, 1)
    [] item.kind = "word" -> WriteNumber(b, item.value, 2)
    [] item.kind = "var" -> WriteVarInt(b, item.value, 4)
    [] item.kind = "string" -> WriteString(b, item.value)
    [] item.kind \in {"vector", "map"} -> WriteCounted(b, item.kind, item.value)
    [] item.kind = "address" -> WriteInetAddress(b, item.value)
    [] item.kind = "bits" -> WriteBitset(b, item.value)

Get(item, b) ==
  CASE item.kind = "byte" -> ReadNumber(b, 1)
    [] item.kind = "word" -> ReadNumber(b, 2)
    [] item.kind = "var" -> ReadVarInt(b, 4)
    [] item.kind = "string" -> ReadString(b)
    [] item.kind \in {"vector", "map"} -> ReadCounted(b, item.kind)
    [] item.kind = "address" -> ReadInetAddress(b)
    [] item.kind = "bits" -> ReadBitset(b, Len(item.value))

\* A writer stops at the first error.
WriteNext ==
  /\ script # <<>> /\ Succeeds(buf) /\ ~cut
  /\ buf' = Put(Head(script), buf)
  /\ script' = Tail(script)
  /\ wrote' = Append(wrote, Head(script))
  /\ UNCHANGED <<got, cut>>

ReadNext ==
  LET r == Get(wrote[Len(got) + 1], buf)
  IN /\ Len(got) < Len(wrote) /\ Succeeds(buf)
     /\ buf' = r.buf
     /\ got' = Append(got, r.value)
     /\ UNCHANGED <<script, wrote, cut>>

Rearrange ==
  /\ Succeeds(buf) /\ ~buf.null
  /\ buf' \in {Compact(buf), Trim(buf), Copy(buf)}
  /\ UNCHANGED <<script, wrote, got, cut>>

\* The reader is given a buffer of only the first bytes.
ArriveShort ==
  /\ ~cut /\ script = <<>> /\ Succeeds(buf)
  /\ cut' = TRUE
  /\ \E n \in buf.rd..(buf.wr - 1) : buf' = [buf EXCEPT !.wr = n]
  /\ UNCHANGED <<script, wrote, got>>

BufferInit ==
  /\ \E endian \in {"little", "big"} : buf = Fresh(endian)
  /\ script \in BufferScripts
  /\ wrote = <<>> /\ got = <<>> /\ cut = FALSE

BufferNext == WriteNext \/ ReadNext \/ Rearrange \/ ArriveShort

BufferSpec == BufferInit /\ [][BufferNext]_bufferVars

\* While last_error_ is None every value read is the value written in its
\* place, however the bytes were moved in between; a read that finds its bytes
\* missing says so rather than return what was never written; and unless bytes
\* are missing no read complains.
ReadsWhatWasWritten ==
  /\ Succeeds(buf) => \A i \in DOMAIN got : got[i] = wrote[i].value
  /\ buf.error \in {"ReadOutOfBounds", "CorruptedFormat"} => cut
=============================================================================
