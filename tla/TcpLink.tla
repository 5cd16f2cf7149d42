------------------------------ MODULE TcpLink ------------------------------
(***************************************************************************)
(* A TCP session (TCPTransportLayer, tcp.cc) between a client, whose loop   *)
(* reads while a dedicated encoder may write, and a server, whose worker    *)
(* does both.  Frames are a two byte length and a body; a zero length marks *)
(* a control frame of one byte.  Writes and reads move any part of a frame. *)
(*                                                                          *)
(* A byte of a body is the number of its message, so a stream that is read  *)
(* from the wrong place yields wrong lengths and wrong messages.            *)
(***************************************************************************)
EXTENDS Integers, Sequences

CONSTANTS RecvCapacity,   \* ZNET_MAX_BUFFER_SIZE: what recv_buffer_ holds
          Header,     \* what Send() keeps free of it
          Room,       \* external: what the kernels hold of one direction
          Loads       \* [messages, pings, closes] of a behaviour: what each
                      \* side has queued, and how often it may ping and close

Sides == {"client", "server"}

ASSUME TcpAssumption ==
  /\ Header \in Nat /\ RecvCapacity \in Nat /\ RecvCapacity > Header /\ Room \in Nat \ {0}
  /\ RecvCapacity >= 3
  /\ \A l \in Loads : /\ l.messages \in [Sides -> Seq([len : Nat, id : Nat])]
                      /\ {l.pings, l.closes} \subseteq Nat

VARIABLES load,       \* the pings and closes left
          outgoing,   \* per side, the messages its session has queued
          claim,      \* per side, the thread that drains them
          lock,       \* per side, the thread that holds write_mutex_
          thread,     \* per side and thread, where it is and what it writes
          wire,       \* per side, the bytes it sent that the other has not read
          buffer,     \* per side, what recv_buffer_ holds
          closed,     \* per side, why is_closed_ is set, or "no"
          written,    \* per side, the messages whose writing began, in order
          received    \* per side, the bodies handed up, in order

tcpVars == <<load, outgoing, claim, lock, thread, wire, buffer, closed, written, received>>

Other(e) == CHOOSE o \in Sides : o # e

Threads(e) == IF e = "client" THEN {"loop", "encoder"} ELSE {"loop"}

Nobody == "nobody"

TcpInit ==
  /\ load \in Loads
  /\ outgoing = load.messages
  /\ claim = [e \in Sides |-> Nobody] /\ lock = [e \in Sides |-> Nobody]
  /\ thread = [e \in Sides |-> [t \in Threads(e) |->
                [pc |-> IF t = "loop" THEN "update" ELSE "drain", frame |-> <<>>, then |-> "drain"]]]
  /\ wire = [e \in Sides |-> <<>>] /\ buffer = [e \in Sides |-> <<>>]
  /\ closed = [e \in Sides |-> "no"]
  /\ written = [e \in Sides |-> <<>>] /\ received = [e \in Sides |-> <<>>]

At(e, t, pc) == thread[e][t].pc = pc

\* The thread goes on at pc, or first writes a frame.
GoesTo(e, t, pc) == thread' = [thread EXCEPT ![e][t].pc = pc]
Writes(e, t, frame, then) ==
  thread' = [thread EXCEPT ![e][t] = [pc |-> "lock", frame |-> frame, then |-> then]]

\* Close() keeps the reason it was first called for.
Closes(e, why) == closed' = [closed EXCEPT ![e] = IF @ = "no" THEN why ELSE @]

-----------------------------------------------------------------------------
\* Frames.

Prefix(size) == <<size \div 256, size % 256>>
BodyBytes(m) == [i \in 1..m.len |-> m.id]
Data(m) == Prefix(m.len) \o BodyBytes(m)
Control(type) == Prefix(0) \o <<type>>
Ping == 1
Pong == 2

\* Send() refuses an empty message, and one that would not fit the reader.
Fits(m) == m.len > 0 /\ m.len + 2 < RecvCapacity - Header

Size(bytes) == 256 * bytes[1] + bytes[2]
Needed(size) == IF size = 0 THEN 1 ELSE size

\* What ReadBuffer() finds at the front of the buffer.
FrameAhead(bytes) ==
  IF Len(bytes) < 2 THEN "more"
  ELSE IF Size(bytes) + 2 > RecvCapacity THEN "oversized"
  ELSE IF Len(bytes) - 2 < Needed(Size(bytes)) THEN "more"
  ELSE IF Size(bytes) = 0 THEN "control" ELSE "data"

BodyOf(bytes) == SubSeq(bytes, 3, 2 + Needed(Size(bytes)))
After(bytes) == SubSeq(bytes, 3 + Needed(Size(bytes)), Len(bytes))

-----------------------------------------------------------------------------
\* WriteAll(), by whichever thread has a frame.

Lock_Unheld(e, t) ==
  /\ At(e, t, "lock")
  /\ lock' = [lock EXCEPT ![e] = t]
  /\ written' = IF Size(thread[e][t].frame) = 0 THEN written
                ELSE [written EXCEPT ![e] = Append(@, BodyOf(thread[e][t].frame))]
  /\ GoesTo(e, t, "write")
  /\ UNCHANGED <<load, outgoing, claim, wire, buffer, closed, received>>

Lock(e, t) ==
  /\ At(e, t, "lock") /\ lock[e] = Nobody
  /\ lock' = [lock EXCEPT ![e] = t]
  /\ written' = IF Size(thread[e][t].frame) = 0 THEN written
                ELSE [written EXCEPT ![e] = Append(@, BodyOf(thread[e][t].frame))]
  /\ GoesTo(e, t, "write")
  /\ UNCHANGED <<load, outgoing, claim, wire, buffer, closed, received>>

\* The kernel takes as much as it has room for; without any, the thread waits.
WriteSome(e, t) ==
  LET frame == thread[e][t].frame
      done(n) == n = Len(frame)
  IN /\ At(e, t, "write") /\ closed[e] = "no" /\ closed[Other(e)] = "no"
     /\ \E n \in 1..Len(frame) :
          /\ Len(wire[e]) + n <= Room
          /\ wire' = [wire EXCEPT ![e] = @ \o SubSeq(frame, 1, n)]
          /\ thread' = [thread EXCEPT ![e][t].frame = SubSeq(frame, n + 1, Len(frame)),
                                      ![e][t].pc = IF done(n) THEN thread[e][t].then ELSE @]
          /\ lock' = IF done(n) THEN [lock EXCEPT ![e] = Nobody] ELSE lock
     /\ UNCHANGED <<load, outgoing, claim, buffer, closed, written, received>>

\* The session was closed underneath, or the other side is gone.
WriteFails(e, t) ==
  /\ At(e, t, "write") /\ (closed[e] # "no" \/ closed[Other(e)] # "no")
  /\ lock' = [lock EXCEPT ![e] = Nobody]
  /\ thread' = [thread EXCEPT ![e][t].frame = <<>>, ![e][t].pc = thread[e][t].then]
  /\ UNCHANGED <<load, outgoing, claim, wire, buffer, closed, written, received>>

-----------------------------------------------------------------------------
\* The loop: PeerSession::Process over Update(), Receive() and the drain.

\* Update() closes a session that heard nothing, or takes the mutex to see when
\* something was last sent, and may ping.
IdleTimeout(e) ==
  /\ At(e, "loop", "update") /\ closed[e] = "no" /\ load.closes > 0
  /\ load' = [load EXCEPT !.closes = @ - 1]
  /\ Closes(e, "idle")
  /\ GoesTo(e, "loop", "receive")
  /\ UNCHANGED <<outgoing, claim, lock, wire, buffer, written, received>>

Update(e) ==
  /\ At(e, "loop", "update") /\ closed[e] = "no" /\ lock[e] = Nobody
  /\ \/ GoesTo(e, "loop", "receive") /\ UNCHANGED load
     \/ /\ load.pings > 0
        /\ load' = [load EXCEPT !.pings = @ - 1]
        /\ Writes(e, "loop", Control(Ping), "receive")
  /\ UNCHANGED <<outgoing, claim, lock, wire, buffer, closed, written, received>>

\* ReadBuffer() has a frame: it is handed up, and Receive() is called again.
Dispatch(e) ==
  /\ thread[e].loop.pc \in {"receive", "reread"} /\ FrameAhead(buffer[e]) = "data"
  /\ received' = [received EXCEPT ![e] = Append(@, BodyOf(buffer[e]))]
  /\ buffer' = [buffer EXCEPT ![e] = After(@)]
  /\ GoesTo(e, "loop", "receive")
  /\ UNCHANGED <<load, outgoing, claim, lock, wire, closed, written>>

\* A control frame is consumed in place; a ping is answered unless closed.
HandleControl(e) ==
  /\ thread[e].loop.pc \in {"receive", "reread"} /\ FrameAhead(buffer[e]) = "control"
  /\ buffer' = [buffer EXCEPT ![e] = After(@)]
  /\ IF BodyOf(buffer[e]) = <<Ping>> /\ closed[e] = "no"
     THEN Writes(e, "loop", Control(Pong), thread[e].loop.pc) ELSE UNCHANGED thread
  /\ UNCHANGED <<load, outgoing, claim, lock, wire, closed, written, received>>

\* No whole frame is left: read what the rest of the buffer has room for.
Recv(e) ==
  LET coming == wire[Other(e)]
  IN /\ At(e, "loop", "receive") /\ FrameAhead(buffer[e]) = "more"
     /\ \E n \in 1..Len(coming) :
          /\ Len(buffer[e]) + n <= RecvCapacity
          /\ buffer' = [buffer EXCEPT ![e] = @ \o SubSeq(coming, 1, n)]
          /\ wire' = [wire EXCEPT ![Other(e)] = SubSeq(coming, n + 1, Len(coming))]
     /\ GoesTo(e, "loop", "reread")
     /\ UNCHANGED <<load, outgoing, claim, lock, closed, written, received>>

\* recv() returns 0 at the end of the stream, and also for a full buffer.
EndOfStream(e) ==
  \/ Len(buffer[e]) = RecvCapacity
  \/ wire[Other(e)] = <<>> /\ (closed[e] # "no" \/ closed[Other(e)] # "no")

RecvZero(e) ==
  /\ At(e, "loop", "receive") /\ FrameAhead(buffer[e]) = "more" /\ EndOfStream(e)
  /\ Closes(e, "eof")
  /\ GoesTo(e, "loop", "drain")
  /\ UNCHANGED <<load, outgoing, claim, lock, wire, buffer, written, received>>

\* Nothing has come, or only part of a frame; a length that could never be
\* completed ends the session.
NoFrame(e) ==
  LET ahead == FrameAhead(buffer[e])
  IN /\ ahead \in {"more", "oversized"}
     /\ ahead = "oversized" \/ At(e, "loop", "reread") \/ (wire[Other(e)] = <<>> /\ ~EndOfStream(e))
     /\ thread[e].loop.pc \in {"receive", "reread"}
     /\ IF ahead = "more" THEN UNCHANGED <<buffer, closed>>
        ELSE Closes(e, "oversized") /\ buffer' = [buffer EXCEPT ![e] = <<>>]
     /\ GoesTo(e, "loop", "drain")
     /\ UNCHANGED <<load, outgoing, claim, lock, wire, written, received>>

\* Whoever has the claim takes the next message; Send() may refuse it.
Drain(e, t) ==
  /\ At(e, t, "drain") /\ claim[e] \in {Nobody, t} /\ outgoing[e] # <<>>
  /\ claim' = [claim EXCEPT ![e] = t]
  /\ outgoing' = [outgoing EXCEPT ![e] = Tail(@)]
  /\ IF closed[e] = "no" /\ Fits(Head(outgoing[e]))
     THEN Writes(e, t, Data(Head(outgoing[e])), "drain") ELSE UNCHANGED thread
  /\ UNCHANGED <<load, lock, wire, buffer, closed, written, received>>

\* The queue is empty, or is another thread's to drain.
DrainEnds(e, t) ==
  /\ At(e, t, "drain") /\ (outgoing[e] = <<>> \/ claim[e] # t)
  /\ outgoing[e] # <<>> => (t = "loop" /\ "encoder" \in Threads(e))
  /\ claim[e] = t \/ t = "loop"
  /\ claim' = IF claim[e] = t THEN [claim EXCEPT ![e] = Nobody] ELSE claim
  /\ GoesTo(e, t, IF t = "loop" THEN "update" ELSE "drain")
  /\ UNCHANGED <<load, outgoing, lock, wire, buffer, closed, written, received>>

\* Close() from a thread of the application, at any moment.
CloseSession(e) ==
  /\ closed[e] = "no" /\ load.closes > 0
  /\ load' = [load EXCEPT !.closes = @ - 1]
  /\ Closes(e, "application")
  /\ UNCHANGED <<outgoing, claim, lock, thread, wire, buffer, written, received>>

Step(e, t) == Lock(e, t) \/ WriteSome(e, t) \/ WriteFails(e, t) \/ Drain(e, t) \/ DrainEnds(e, t)

LoopStep(e) ==
  Update(e) \/ Dispatch(e) \/ HandleControl(e) \/ Recv(e) \/ RecvZero(e) \/ NoFrame(e)

TcpNext ==
  \E e \in Sides : (\E t \in Threads(e) : Step(e, t)) \/ LoopStep(e) \/ IdleTimeout(e)
                     \/ CloseSession(e)

TcpSpec == TcpInit /\ [][TcpNext]_tcpVars

-----------------------------------------------------------------------------
\* What a side hands up is what the other began to write, whole and in order,
\* however frames are cut up by writes and reads and whichever thread writes them
\* ("interleaved send()s would splice two frames together"); and nobody takes a
\* stream that goes on for one that ended ("there is always room to make
\* progress") or that is damaged.
StreamIntact ==
  \A e \in Sides :
    /\ Len(received[e]) <= Len(written[Other(e)])
    /\ received[e] = SubSeq(written[Other(e)], 1, Len(received[e]))
    /\ closed[e] # "oversized"
    /\ closed[e] = "eof" => closed[Other(e)] # "no"
=============================================================================
