--------------------------- MODULE OutboundQueue ---------------------------
(***************************************************************************)
(* The send path of a session up to the encoder: the many-producer ring     *)
(* (mpsc_queue.h), the claim that elects one encoding thread and the wake   *)
(* handshake (outbound_queue.h), and the loops that drain it: the session's *)
(* own worker (peer_session.cc, client.cc, server.cc) and, on a client, the *)
(* dedicated SessionEncoder thread (session_encoder.cc).                    *)
(*                                                                          *)
(* One step is one access to shared memory, so every interleaving of the    *)
(* threads' loads and stores is a behaviour.  Memory is sequentially        *)
(* consistent here; the weaker orders of the code are not modelled.         *)
(***************************************************************************)
EXTENDS Integers, Sequences, FiniteSets

CONSTANTS Producers,   \* application threads calling SendPacket
          Workers,     \* the loop that processes the session
          Encoders,    \* {} on a server, one SessionEncoder on a client
          Slots,       \* ring slots: the capacity rounded up by the constructor
          MaxPushes,   \* bound: packets each producer sends
          MayClose     \* whether the instance lets the session end

ASSUME SlotsAssumption == Slots \in Nat /\ Slots >= 2
ASSUME BoundsAssumption == MaxPushes \in Nat /\ MayClose \in BOOLEAN
ASSUME ThreadsAssumption ==
  /\ Workers \cap Encoders = {}
  /\ Producers \cap (Workers \cup Encoders) = {}

Drainers == Workers \cup Encoders
Packet == Producers \X (1..MaxPushes)

\* OutboundQueue::kInlineEncodeDepth
InlineEncodeDepth == 1

VARIABLES
  enqueue, dequeue,   \* the two cursors of the ring
  sequence, value,    \* per slot: Cell::sequence and Cell::value
  encoding,           \* the encode claim
  hasEncoder,         \* has_encoder_
  woken,              \* the loops whose WorkerSignal::woken is set
  alive, stop,        \* the session's transport; the encoder's stop request
  ppc, ppos, pqueued, \* a producer inside Push(): place, pos, *out_queued
  pushed,             \* packets each producer has claimed a slot for
  dpc, dpos, ditem,   \* a drainer: place, the cursor it loaded, the popped item
  dslot, dencoded,    \* the cell NextReadable() returned; Drain()'s result
  claims, drained     \* history: packets in slot order; packets handed to encode()

ringVars == <<enqueue, dequeue, sequence, value>>
loopVars == <<encoding, hasEncoder, woken, alive, stop>>
producerVars == <<ppc, ppos, pqueued, pushed, claims>>
drainerVars == <<dpc, dpos, ditem, dslot, dencoded, drained>>
vars == <<ringVars, loopVars, producerVars, drainerVars>>

\* a default-constructed Item
None == <<>>

Slot(pos) == pos % Slots

Goto(pc, t, place) == pc' = [pc EXCEPT ![t] = place]

\* wake_(): raises every loop's signal.  WorkerSignal::Raise() returns at once
\* on the loop's own thread, so a loop never wakes itself.
WakeFrom(t) == woken' = woken \cup (Drainers \ {t})

Init ==
  /\ enqueue = 0 /\ dequeue = 0
  /\ sequence = [i \in 0..(Slots - 1) |-> i]
  /\ value = [i \in 0..(Slots - 1) |-> None]
  /\ encoding = FALSE
  /\ hasEncoder = (Encoders # {})
  /\ woken = {}
  /\ alive = TRUE /\ stop = FALSE
  /\ ppc = [p \in Producers |-> "idle"]
  /\ ppos = [p \in Producers |-> 0]
  /\ pqueued = [p \in Producers |-> 0]
  /\ pushed = [p \in Producers |-> 0]
  /\ dpc = [d \in Drainers |-> IF d \in Encoders THEN "claim" ELSE "wait"]
  /\ dpos = [d \in Drainers |-> 0]
  /\ ditem = [d \in Drainers |-> None]
  /\ dslot = [d \in Drainers |-> 0]
  /\ dencoded = [d \in Drainers |-> FALSE]
  /\ claims = <<>> /\ drained = <<>>

-----------------------------------------------------------------------------
(* The producer: PeerSession::SendPacket, OutboundQueue::Push, Push().      *)

\* A dead session refuses; otherwise Push() loads the write cursor.
SendPacket(p) ==
  /\ ppc[p] = "idle" /\ alive /\ pushed[p] < MaxPushes
  /\ ppos' = [ppos EXCEPT ![p] = enqueue]
  /\ Goto(ppc, p, "check")
  /\ UNCHANGED <<ringVars, loopVars, drainerVars, pqueued, pushed, claims>>

\* The slot's sequence tells a free slot from a full ring (the caller is told
\* QueueFull and may retry) and from a position another producer took.
PushCheck(p) ==
  /\ ppc[p] = "check"
  /\ LET distance == sequence[Slot(ppos[p])] - ppos[p]
     IN \/ distance = 0 /\ Goto(ppc, p, "claim") /\ UNCHANGED ppos
        \/ distance < 0 /\ Goto(ppc, p, "idle") /\ UNCHANGED ppos
        \/ distance > 0 /\ ppos' = [ppos EXCEPT ![p] = enqueue] /\ UNCHANGED ppc
  /\ UNCHANGED <<ringVars, loopVars, drainerVars, pqueued, pushed, claims>>

\* Mutant: the cursor is stored without being compared, so a position another
\* producer took meanwhile is taken again.
PushClaim_NoCompare(p) ==
  /\ ppc[p] = "claim"
  /\ enqueue' = ppos[p] + 1
  /\ pushed' = [pushed EXCEPT ![p] = @ + 1]
  /\ claims' = Append(claims, <<p, pushed[p] + 1>>)
  /\ Goto(ppc, p, "depth")
  /\ UNCHANGED <<dequeue, sequence, value, loopVars, drainerVars, ppos, pqueued>>

\* compare_exchange on the write cursor.
PushClaim(p) ==
  /\ ppc[p] = "claim"
  /\ \/ /\ enqueue = ppos[p]
        /\ enqueue' = enqueue + 1
        /\ pushed' = [pushed EXCEPT ![p] = @ + 1]
        /\ claims' = Append(claims, <<p, pushed[p] + 1>>)
        /\ Goto(ppc, p, "depth")
        /\ UNCHANGED ppos
     \/ /\ enqueue # ppos[p]
        /\ ppos' = [ppos EXCEPT ![p] = enqueue]
        /\ Goto(ppc, p, "check")
        /\ UNCHANGED <<enqueue, pushed, claims>>
  /\ UNCHANGED <<dequeue, sequence, value, loopVars, drainerVars, pqueued>>

\* How many items are ahead, read before the slot is published.
PushDepth(p) ==
  /\ ppc[p] = "depth"
  /\ pqueued' = [pqueued EXCEPT ![p] = ppos[p] - dequeue]
  /\ Goto(ppc, p, "store")
  /\ UNCHANGED <<ringVars, loopVars, drainerVars, ppos, pushed, claims>>

PushStore(p) ==
  /\ ppc[p] = "store"
  /\ value' = [value EXCEPT ![Slot(ppos[p])] = <<p, pushed[p]>>]
  /\ Goto(ppc, p, "publish")
  /\ UNCHANGED <<enqueue, dequeue, sequence, loopVars, drainerVars,
                 ppos, pqueued, pushed, claims>>

PushPublish(p) ==
  /\ ppc[p] = "publish"
  /\ sequence' = [sequence EXCEPT ![Slot(ppos[p])] = ppos[p] + 1]
  /\ Goto(ppc, p, IF pqueued[p] = 0 THEN "wake" ELSE "idle")
  /\ UNCHANGED <<enqueue, dequeue, value, loopVars, drainerVars,
                 ppos, pqueued, pushed, claims>>

PushWake(p) ==
  /\ ppc[p] = "wake"
  /\ WakeFrom(p)
  /\ Goto(ppc, p, "idle")
  /\ UNCHANGED <<ringVars, encoding, hasEncoder, alive, stop, drainerVars,
                 ppos, pqueued, pushed, claims>>

-----------------------------------------------------------------------------
(* OutboundQueue::Drain, run by whichever loop gets the claim.              *)

\* Mutant: the claim is not tested.
DrainTry_NoClaim(d) ==
  /\ dpc[d] = "claim"
  /\ encoding' = TRUE /\ Goto(dpc, d, "pop")
  /\ UNCHANGED <<ringVars, hasEncoder, woken, alive, stop, producerVars,
                 dpos, ditem, dslot, dencoded, drained>>

DrainTry(d) ==
  /\ dpc[d] = "claim"
  /\ \/ ~encoding /\ encoding' = TRUE /\ Goto(dpc, d, "pop")
     \/ encoding /\ Goto(dpc, d, "wait") /\ UNCHANGED encoding
  /\ UNCHANGED <<ringVars, hasEncoder, woken, alive, stop, producerVars,
                 dpos, ditem, dslot, dencoded, drained>>

\* Mutant: readable is judged by the cursors, not by the cell's sequence.
DrainPop_ByCursor(d) ==
  /\ dpc[d] = "pop"
  /\ \/ /\ dequeue < enqueue
        /\ ditem' = [ditem EXCEPT ![d] = value[Slot(dequeue)]]
        /\ dslot' = [dslot EXCEPT ![d] = Slot(dequeue)]
        /\ Goto(dpc, d, "free")
     \/ /\ dequeue >= enqueue
        /\ Goto(dpc, d, "release")
        /\ UNCHANGED <<ditem, dslot>>
  /\ UNCHANGED <<ringVars, loopVars, producerVars, dpos, dencoded, drained>>

\* NextReadable() and the move out of the cell.
DrainPop(d) ==
  /\ dpc[d] = "pop"
  /\ \/ /\ sequence[Slot(dequeue)] = dequeue + 1
        /\ ditem' = [ditem EXCEPT ![d] = value[Slot(dequeue)]]
        /\ dslot' = [dslot EXCEPT ![d] = Slot(dequeue)]
        /\ Goto(dpc, d, "free")
     \/ /\ sequence[Slot(dequeue)] # dequeue + 1
        /\ Goto(dpc, d, "release")
        /\ UNCHANGED <<ditem, dslot>>
  /\ UNCHANGED <<ringVars, loopVars, producerVars, dpos, dencoded, drained>>

\* ReleaseRead() loads the cursor again, frees the cell, then moves the cursor.
DrainFree(d) ==
  /\ dpc[d] = "free"
  /\ dpos' = [dpos EXCEPT ![d] = dequeue]
  /\ sequence' = [sequence EXCEPT ![dslot[d]] = dequeue + Slots]
  /\ Goto(dpc, d, "advance")
  /\ UNCHANGED <<enqueue, dequeue, value, loopVars, producerVars,
                 ditem, dslot, dencoded, drained>>

DrainAdvance(d) ==
  /\ dpc[d] = "advance"
  /\ dequeue' = dpos[d] + 1
  /\ Goto(dpc, d, "encode")
  /\ UNCHANGED <<enqueue, sequence, value, loopVars, producerVars,
                 dpos, ditem, dslot, dencoded, drained>>

\* The encode callback of DrainOutbound(): a dead session only lets go of it.
DrainEncode(d) ==
  /\ dpc[d] = "encode"
  /\ drained' = Append(drained, ditem[d])
  /\ dencoded' = [dencoded EXCEPT ![d] = @ \/ alive]
  /\ Goto(dpc, d, "pop")
  /\ UNCHANGED <<ringVars, loopVars, producerVars, dpos, ditem, dslot>>

\* Mutant: the claim is never given back.
DrainRelease_Kept(d) ==
  /\ dpc[d] = "release"
  /\ Goto(dpc, d, "emptyLoad")
  /\ UNCHANGED <<ringVars, loopVars, producerVars,
                 dpos, ditem, dslot, dencoded, drained>>

DrainRelease(d) ==
  /\ dpc[d] = "release"
  /\ encoding' = FALSE
  /\ Goto(dpc, d, "emptyLoad")
  /\ UNCHANGED <<ringVars, hasEncoder, woken, alive, stop, producerVars,
                 dpos, ditem, dslot, dencoded, drained>>

\* Empty(): load the read cursor, store it back, compare with the write cursor.
\* The claim has been given up by now.
EmptyLoad(d) ==
  /\ dpc[d] = "emptyLoad"
  /\ dpos' = [dpos EXCEPT ![d] = dequeue]
  /\ Goto(dpc, d, "emptyStore")
  /\ UNCHANGED <<ringVars, loopVars, producerVars,
                 ditem, dslot, dencoded, drained>>

EmptyStore(d) ==
  /\ dpc[d] = "emptyStore"
  /\ dequeue' = dpos[d]
  /\ Goto(dpc, d, "emptyCheck")
  /\ UNCHANGED <<enqueue, sequence, value, loopVars, producerVars,
                 dpos, ditem, dslot, dencoded, drained>>

EmptyCheck(d) ==
  /\ dpc[d] = "emptyCheck"
  /\ IF enqueue = dpos[d] THEN UNCHANGED woken ELSE WakeFrom(d)
  /\ Goto(dpc, d, "return")
  /\ UNCHANGED <<ringVars, encoding, hasEncoder, alive, stop, producerVars,
                 dpos, ditem, dslot, dencoded, drained>>

\* Back in the loop: an encoder that encoded something wakes the flusher.
DrainReturn(d) ==
  /\ dpc[d] = "return"
  /\ woken' = IF d \in Encoders /\ dencoded[d] THEN woken \cup Workers ELSE woken
  /\ dencoded' = [dencoded EXCEPT ![d] = FALSE]
  /\ Goto(dpc, d, "wait")
  /\ UNCHANGED <<ringVars, encoding, hasEncoder, alive, stop, producerVars,
                 dpos, ditem, dslot, drained>>

-----------------------------------------------------------------------------
(* The loops.                                                               *)

\* The worker's sleep ends on its signal or with the tick, so a tick may come
\* at any time; a dead session is no longer processed.
WorkerTick(w) ==
  /\ dpc[w] = "wait" /\ alive
  /\ woken' = woken \ {w}
  /\ Goto(dpc, w, "decide")
  /\ UNCHANGED <<ringVars, encoding, hasEncoder, alive, stop, producerVars,
                 dpos, ditem, dslot, dencoded, drained>>

Size == IF enqueue > dequeue THEN enqueue - dequeue ELSE 0

ShouldEncodeInline == ~hasEncoder \/ Size <= InlineEncodeDepth

\* PeerSession::Process: encode here, or leave it to the encoder.
WorkerDecide(w) ==
  /\ dpc[w] = "decide"
  /\ Goto(dpc, w, IF ShouldEncodeInline \/ ~alive THEN "claim" ELSE "wait")
  /\ UNCHANGED <<ringVars, loopVars, producerVars,
                 dpos, ditem, dslot, dencoded, drained>>

\* SessionEncoder::Loop waits on its signal with no timeout.
EncoderWake(e) ==
  /\ dpc[e] = "wait" /\ e \in woken /\ ~stop
  /\ woken' = woken \ {e}
  /\ Goto(dpc, e, "claim")
  /\ UNCHANGED <<ringVars, encoding, hasEncoder, alive, stop, producerVars,
                 dpos, ditem, dslot, dencoded, drained>>

\* Mutant: the stop request is not part of the wait's predicate.
EncoderExit_OnlyWhenWoken(e) ==
  /\ dpc[e] = "wait" /\ stop /\ e \in woken
  /\ Goto(dpc, e, "exited")
  /\ woken' = woken \ {e}
  /\ hasEncoder' = FALSE
  /\ UNCHANGED <<ringVars, encoding, alive, stop, producerVars,
                 dpos, ditem, dslot, dencoded, drained>>

\* The loop sees the stop request; Stop() joins it and gives encoding back.
EncoderExit(e) ==
  /\ dpc[e] = "wait" /\ stop
  /\ Goto(dpc, e, "exited")
  /\ woken' = woken \ {e}
  /\ hasEncoder' = FALSE
  /\ UNCHANGED <<ringVars, encoding, alive, stop, producerVars,
                 dpos, ditem, dslot, dencoded, drained>>

\* The transport closes, from either side.
Close ==
  /\ MayClose /\ alive /\ alive' = FALSE
  /\ UNCHANGED <<ringVars, encoding, hasEncoder, woken, stop,
                 producerVars, drainerVars>>

\* Client::Disconnect: close, raise the loop's signal, stop the encoder.
Disconnect ==
  /\ MayClose /\ Encoders # {} /\ ~stop
  /\ alive' = FALSE /\ stop' = TRUE
  /\ woken' = woken \cup Workers
  /\ UNCHANGED <<ringVars, encoding, hasEncoder, producerVars, drainerVars>>

-----------------------------------------------------------------------------
Push(p) == \/ PushCheck(p) \/ PushClaim(p) \/ PushDepth(p)
           \/ PushStore(p) \/ PushPublish(p) \/ PushWake(p)

Drain(d) == \/ DrainTry(d) \/ DrainPop(d) \/ DrainFree(d) \/ DrainAdvance(d)
            \/ DrainEncode(d) \/ DrainRelease(d)
            \/ EmptyLoad(d) \/ EmptyStore(d) \/ EmptyCheck(d) \/ DrainReturn(d)

Next == \/ \E p \in Producers : SendPacket(p) \/ Push(p)
        \/ \E d \in Drainers : Drain(d)
        \/ \E w \in Workers : WorkerTick(w) \/ WorkerDecide(w)
        \/ \E e \in Encoders : EncoderWake(e) \/ EncoderExit(e)
        \/ Close \/ Disconnect

Spec == Init /\ [][Next]_vars

\* Every thread keeps running: a started Push() and a started Drain() finish,
\* the worker ticks on its timeout, the encoder reacts to its signal.
Fairness ==
  /\ \A p \in Producers : WF_vars(Push(p))
  /\ \A d \in Drainers : WF_vars(Drain(d))
  /\ \A w \in Workers : WF_vars(WorkerTick(w) \/ WorkerDecide(w))
  /\ \A e \in Encoders : WF_vars(EncoderWake(e) \/ EncoderExit(e))

FairSpec == Spec /\ Fairness

-----------------------------------------------------------------------------
(* Properties.                                                              *)

\* The places in Drain() between taking the encode claim and giving it up.
Holding == {"pop", "free", "advance", "encode", "release"}

\* Drain() elects one encoding thread: no two are ever between the exchange and
\* the release of encoding_, so the cipher's counters see one caller.
OneEncoder ==
  \A d1, d2 \in Drainers : dpc[d1] \in Holding /\ dpc[d2] \in Holding => d1 = d2

\* The places in Push() between winning a position and publishing its cell.
Storing == {"depth", "store", "publish"}

\* Cell::value is a plain object: no two producers that won a position share a
\* cell, and none is given the cell a drain is still moving out of.
CellExclusive ==
  \A p \in Producers : ppc[p] \in Storing =>
    /\ \A q \in Producers \ {p} :
         ppc[q] \in Storing => Slot(ppos[q]) # Slot(ppos[p])
    /\ \A d \in Drainers : dpc[d] = "free" => dslot[d] # Slot(ppos[p])

Fifo == INSTANCE FifoChannel
          WITH Message <- Packet, Window <- Slots + 1,
               sent <- claims, received <- drained

\* What encode() sees is what SendPacket accepted: every packet once, none lost
\* or torn, in the order the producers won their positions, and never more than
\* the ring plus the one being encoded outstanding.
ImplementsFifo == Fifo!Spec

\* Empty() "republishes the read cursor": neither it nor a drain ever moves the
\* cursor back over a packet that was already taken.
CursorForward == [][dequeue' >= dequeue]_dequeue

\* A packet SendPacket accepted is encoded, or the session dies first.
EventuallyDrained ==
  \A m \in Packet :
    (\E i \in DOMAIN claims : claims[i] = m)
      ~> (~alive \/ \E i \in DOMAIN drained : drained[i] = m)

\* Client::Disconnect returns: the stop request reaches an encoder that is
\* draining, about to wait or asleep.
StopReturns == stop ~> \A e \in Encoders : dpc[e] = "exited"

\* "A dead session drains anyway, to release what it queued rather than hold it
\* until destruction."
DeadSessionReleases ==
  \A m \in Packet :
    (~alive /\ \E i \in DOMAIN claims : claims[i] = m)
      ~> \E i \in DOMAIN drained : drained[i] = m

Readable == sequence[Slot(dequeue)] = dequeue + 1

\* "a producer and a sleeping consumer cannot both decide the other will deal
\* with a message": once the producers are done, a readable packet finds a loop
\* that is running or has been woken.
NobodySleepsOnAPacket ==
  (alive /\ Readable /\ \A p \in Producers : ppc[p] = "idle")
    => \E d \in Drainers : dpc[d] # "wait" \/ d \in woken
=============================================================================
