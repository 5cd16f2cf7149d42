------------------------ MODULE OutboundQueueProofs ------------------------
(***************************************************************************)
(* Proofs about OutboundQueue for any threads, ring size and number of      *)
(* packets.                                                                 *)
(***************************************************************************)
EXTENDS OutboundQueue, TLAPS

\* Division with remainder.
LEMMA ModDef ==
  ASSUME NEW N \in Nat \ {0}, NEW a \in Nat
  PROVE  a % N \in 0..(N-1) /\ a = N * (a \div N) + (a % N) /\ (a \div N) \in Nat
OBVIOUS

\* Multiples of N are at least N apart.
LEMMA MulLe ==
  ASSUME NEW N \in Nat \ {0}, NEW x \in Nat, NEW y \in Nat, x < y
  PROVE  N * x + N <= N * y
<1>1. x + 1 <= y OBVIOUS
<1>2. PICK k \in Nat : y = x + 1 + k BY <1>1, y - x - 1 \in Nat
<1>3. N * y = N * x + N + N * k BY <1>2
<1>4. N * k >= 0 OBVIOUS
<1> QED BY <1>3, <1>4

\* The remainder is unique.
LEMMA ModUnique ==
  ASSUME NEW N \in Nat \ {0}, NEW q \in Nat, NEW r \in 0..(N-1)
  PROVE  (N * q + r) % N = r
OBVIOUS

\* The ring index repeats every N positions (mpsc_queue.h masks the cursor).
LEMMA SlotPeriod ==
  ASSUME NEW N \in Nat \ {0}, NEW a \in Nat
  PROVE (a + N) % N = a % N
<1> DEFINE q == a \div N
           r == a % N
<1>1. q \in Nat /\ r \in 0..(N - 1) /\ a = N * q + r BY Zenon, ModDef
<1>2. a + N = N * (q + 1) + r BY <1>1
<1>3. (N * (q + 1) + r) % N = r
  <2> HIDE DEF q, r
  <2>1. q + 1 \in Nat BY <1>1
  <2> QED BY <1>1, <2>1, ModUnique
<1> QED BY <1>2, <1>3

\* Positions less than a lap apart have different ring indexes.
LEMMA SlotDistinct ==
  ASSUME NEW N \in Nat \ {0}, NEW a \in Nat, NEW b \in Nat, a < b, b < a + N
  PROVE a % N # b % N
<1> SUFFICES ASSUME a % N = b % N PROVE FALSE OBVIOUS
<1> DEFINE qa == a \div N
           qb == b \div N
           r == a % N
<1>1. qa \in Nat /\ qb \in Nat /\ r \in 0..(N - 1) /\ a = N * qa + r /\ b = N * qb + r
  BY Zenon, ModDef
<1> HIDE DEF qa, qb, r
<1>2. N * qa \in Int /\ N * qb \in Int BY <1>1
<1>3. N * qa < N * qb /\ N * qb < N * qa + N BY <1>1, <1>2
<1>4. CASE qa < qb BY <1>1, <1>2, <1>3, <1>4, MulLe
<1>5. CASE qb < qa
  <2>1. N * qb + N <= N * qa BY <1>1, <1>5, MulLe
  <2> QED BY <2>1, <1>3, <1>2
<1>6. CASE qa = qb BY <1>3, <1>6, <1>1, <1>2
<1> QED BY <1>1, <1>4, <1>5, <1>6

-----------------------------------------------------------------------------

DrainPlaces == {"wait", "decide", "claim", "pop", "free", "advance", "encode",
                "release", "emptyLoad", "emptyStore", "emptyCheck", "return", "exited"}

(* The encode claim, with any number of drainers.                           *)

\* A drain between the exchange and the release of encoding_ has set the flag,
\* and nobody else is there.
ClaimInv ==
  /\ dpc \in [Drainers -> DrainPlaces]
  /\ \A d \in Drainers : dpc[d] \in Holding => encoding = TRUE
  /\ OneEncoder

\* Only the exchange in Drain() enters the held places, and only with the flag
\* clear; only the holder clears it.
LEMMA ClaimStep == ClaimInv /\ [Next]_vars => ClaimInv'
<1> SUFFICES ASSUME ClaimInv, [Next]_vars PROVE ClaimInv'
  OBVIOUS
<1> USE DEF ClaimInv, OneEncoder, Holding, DrainPlaces, Goto
<1>1. ASSUME NEW p \in Producers, SendPacket(p) \/ Push(p) PROVE ClaimInv'
  BY <1>1 DEF SendPacket, Push, PushCheck, PushClaim, PushDepth, PushStore,
              PushPublish, PushWake, drainerVars, loopVars
<1>2. ASSUME NEW d \in Drainers, Drain(d) PROVE ClaimInv'
  <2>1. CASE DrainTry(d)
    <3>1. CASE ~encoding
      <4>1. encoding # TRUE
        BY Zenon, <3>1
      <4>2. \A e \in Drainers : dpc[e] \notin Holding
        BY Zenon, <4>1
      <4>3. encoding' = TRUE /\ dpc' = [dpc EXCEPT ![d] = "pop"]
        BY <2>1, <3>1 DEF DrainTry
      <4> QED
        BY <4>2, <4>3
    <3>2. CASE encoding
      <4>1. encoding' = encoding /\ dpc' = [dpc EXCEPT ![d] = "wait"]
        BY <2>1, <3>2 DEF DrainTry
      <4> QED
        BY <4>1
    <3> QED
      BY Zenon, <3>1, <3>2
  <2>2. CASE DrainPop(d)
    BY <2>2 DEF DrainPop, loopVars
  <2>3. CASE DrainFree(d) \/ DrainAdvance(d) \/ DrainEncode(d)
    BY <2>3 DEF DrainFree, DrainAdvance, DrainEncode, loopVars
  <2>4. CASE DrainRelease(d)
    BY <2>4 DEF DrainRelease
  <2>5. CASE EmptyLoad(d) \/ EmptyStore(d) \/ EmptyCheck(d) \/ DrainReturn(d)
    BY <2>5 DEF EmptyLoad, EmptyStore, EmptyCheck, DrainReturn, loopVars
  <2> QED
    BY Zenon, <1>2, <2>1, <2>2, <2>3, <2>4, <2>5 DEF Drain
<1>3. ASSUME NEW w \in Workers, WorkerTick(w) \/ WorkerDecide(w) PROVE ClaimInv'
  BY <1>3 DEF WorkerTick, WorkerDecide, loopVars, Drainers
<1>4. ASSUME NEW e \in Encoders, EncoderWake(e) \/ EncoderExit(e) PROVE ClaimInv'
  BY <1>4 DEF EncoderWake, EncoderExit, Drainers
<1>5. CASE Close \/ Disconnect
  BY <1>5 DEF Close, Disconnect, drainerVars
<1>6. CASE UNCHANGED vars
  BY <1>6 DEF vars, drainerVars, loopVars
<1> QED
  BY Zenon, <1>1, <1>2, <1>3, <1>4, <1>5, <1>6 DEF Next

\* One thread encodes at a time, however many loops drain the session's queue.
THEOREM OneEncoderTheorem == Spec => []OneEncoder
<1>1. Init => ClaimInv
  BY DEF Init, ClaimInv, OneEncoder, Holding, DrainPlaces
<1>2. ClaimInv => OneEncoder
  BY DEF ClaimInv
<1> QED
  BY <1>1, <1>2, ClaimStep, PTL DEF Spec

-----------------------------------------------------------------------------
(* A server's session, whose one worker is the only drainer.                *)

ProducerPlaces == {"idle", "check", "claim", "depth", "store", "publish", "wake"}

\* The oldest position whose cell has not been freed.
Base(w) == IF dpc[w] = "advance" THEN dequeue + 1 ELSE dequeue

Types ==
  /\ enqueue \in Nat /\ dequeue \in Nat
  /\ sequence \in [0..(Slots - 1) -> Nat]
  /\ value \in [0..(Slots - 1) -> Packet \cup {None}]
  /\ ppc \in [Producers -> ProducerPlaces]
  /\ ppos \in [Producers -> Nat] /\ pushed \in [Producers -> 0..MaxPushes]
  /\ dpc \in [Drainers -> DrainPlaces]
  /\ dpos \in [Drainers -> Nat]
  /\ ditem \in [Drainers -> Packet \cup {None}]
  /\ dslot \in [Drainers -> 0..(Slots - 1)]
  /\ claims \in Seq(Packet) /\ drained \in Seq(Packet)
  /\ Len(claims) = enqueue

\* The live positions fit the ring; a claimed one is being written (its cell's
\* sequence is the position) or readable (one more, and the value is the claim);
\* an unclaimed one is free.
Ring(w) ==
  /\ Base(w) <= enqueue /\ enqueue <= Base(w) + Slots
  /\ \A n \in Base(w)..(enqueue - 1) :
       \/ sequence[Slot(n)] = n
       \/ sequence[Slot(n)] = n + 1 /\ value[Slot(n)] = claims[n + 1]
  /\ \A n \in enqueue..(Base(w) + Slots - 1) : sequence[Slot(n)] = n

\* A producer inside Push(): what it may rely on at each place.
Pushing(w, p) ==
  /\ ppos[p] <= enqueue
  /\ ppc[p] \in {"check", "claim"} => pushed[p] < MaxPushes
  /\ ppc[p] = "claim" /\ ppos[p] = enqueue => enqueue < Base(w) + Slots
  /\ ppc[p] \in Storing =>
       /\ Base(w) <= ppos[p] /\ ppos[p] < enqueue
       /\ sequence[Slot(ppos[p])] = ppos[p]
       /\ claims[ppos[p] + 1] = <<p, pushed[p]>>
  /\ ppc[p] = "publish" => value[Slot(ppos[p])] = <<p, pushed[p]>>

Producing(w) == \A p \in Producers : Pushing(w, p)

\* The drainer: what it holds at each place, and what it has handed to encode().
Draining(w) ==
  /\ dpc[w] = "free" =>
       /\ dequeue < enqueue /\ sequence[Slot(dequeue)] = dequeue + 1
       /\ ditem[w] = claims[dequeue + 1] /\ dslot[w] = Slot(dequeue)
  /\ dpc[w] = "advance" => dpos[w] = dequeue /\ ditem[w] = claims[dequeue + 1]
  /\ dpc[w] = "encode" => dequeue > 0 /\ ditem[w] = claims[dequeue]
  /\ dpc[w] \in {"emptyStore", "emptyCheck"} => dpos[w] = dequeue
  /\ Len(drained) = IF dpc[w] = "encode" THEN dequeue - 1 ELSE dequeue
  /\ \A i \in 1..Len(drained) : drained[i] = claims[i]

ServerInv(w) == Types /\ Ring(w) /\ Producing(w) /\ Draining(w)

\* A ring index is in range, repeats after a lap, and within a lap is unique.
LEMMA SlotFacts ==
  /\ \A n \in Nat : Slot(n) \in 0..(Slots - 1) /\ Slot(n + Slots) = Slot(n)
  /\ \A m, n \in Nat : m < n /\ n < m + Slots => Slot(m) # Slot(n)
<1> USE SlotsAssumption DEF Slot
<1>1. Slots \in Nat \ {0}
  OBVIOUS
<1>2. \A n \in Nat : Slot(n) \in 0..(Slots - 1)
  BY <1>1, ModDef
<1>3. \A n \in Nat : Slot(n + Slots) = Slot(n)
  BY Zenon, <1>1, SlotPeriod
<1>4. \A m, n \in Nat : m < n /\ n < m + Slots => Slot(m) # Slot(n)
  BY Zenon, <1>1, SlotDistinct
<1> QED
  BY Zenon, <1>2, <1>3, <1>4

\* The initial ring: every cell is free under its own index.
LEMMA ServerInit ==
  ASSUME NEW w, Workers = {w}, Encoders = {}, Init
  PROVE  ServerInv(w)
<1> USE SlotsAssumption, BoundsAssumption
<1>1. Drainers = {w}
  BY DEF Drainers
<1>2. Types
  BY <1>1 DEF Init, Types, None, ProducerPlaces, DrainPlaces, Packet
<1>3. \A n \in Nat : n < Slots => Slot(n) = n
  <2> TAKE n \in Nat
  <2> HAVE n < Slots
  <2>1. n = Slots * 0 + n
    OBVIOUS
  <2> QED
    BY <2>1, ModUnique DEF Slot
<1>4. Base(w) = 0
  BY <1>1 DEF Base, Init
<1>5. Ring(w)
  BY <1>3, <1>4 DEF Ring, Init
<1>6. Producing(w)
  BY DEF Producing, Pushing, Init, Storing
<1>7. Draining(w)
  BY <1>1 DEF Draining, Init
<1> QED
  BY <1>2, <1>5, <1>6, <1>7 DEF ServerInv

\* A producer's step keeps the types.
LEMMA ProducerTypes ==
  ASSUME NEW w, Workers = {w}, Encoders = {}, ServerInv(w),
         NEW p \in Producers, SendPacket(p) \/ Push(p)
  PROVE  Types'
<1>1. Types /\ Pushing(w, p)
  BY DEF ServerInv, Producing
<1>2. \A i \in Nat : Slot(i) \in 0..(Slots - 1)
  BY SlotFacts
<1> USE <1>1 DEF Types, ProducerPlaces, Goto, drainerVars, ringVars
<1>3. CASE SendPacket(p)
  BY <1>3 DEF SendPacket
<1>4. CASE PushCheck(p)
  BY Zenon, <1>4 DEF PushCheck
<1>5. CASE PushClaim(p)
  <2>1. CASE enqueue = ppos[p]
    <3>1. pushed[p] + 1 \in 1..MaxPushes
      BY <1>5, BoundsAssumption DEF PushClaim, Pushing
    <3>2. <<p, pushed[p] + 1>> \in Packet
      BY <3>1 DEF Packet
    <3>3. /\ enqueue' = enqueue + 1 /\ claims' = Append(claims, <<p, pushed[p] + 1>>)
          /\ pushed' = [pushed EXCEPT ![p] = pushed[p] + 1]
          /\ ppc' = [ppc EXCEPT ![p] = "depth"]
          /\ UNCHANGED <<dequeue, sequence, value, drainerVars, ppos>>
      BY <1>5, <2>1 DEF PushClaim
    <3>4. claims' \in Seq(Packet) /\ Len(claims') = enqueue'
      BY <3>2, <3>3
    <3>5. pushed' \in [Producers -> 0..MaxPushes]
      BY <3>1, <3>3
    <3> QED
      BY SMTT(30), <3>3, <3>4, <3>5
  <2>2. CASE enqueue # ppos[p]
    BY Zenon, <1>5, <2>2 DEF PushClaim
  <2> QED
    BY SMTT(30), <2>1, <2>2
<1>6. CASE PushDepth(p)
  BY <1>6 DEF PushDepth
<1>7. CASE PushStore(p)
  <2>1. <<p, pushed[p]>> \in Packet
    <3>1. ppos[p] < enqueue /\ claims[ppos[p] + 1] = <<p, pushed[p]>>
      BY <1>7 DEF PushStore, Pushing, Storing
    <3>2. ppos[p] + 1 \in 1..Len(claims)
      BY <3>1
    <3>3. claims[ppos[p] + 1] \in Packet
      BY <3>2
    <3> QED
      BY <3>1, <3>3
  <2>2. value' \in [0..(Slots - 1) -> Packet \cup {None}]
    BY SMTT(30), <1>7, <2>1, <1>2 DEF PushStore
  <2> QED
    BY <1>7, <2>2 DEF PushStore
<1>8. CASE PushPublish(p)
  <2>0. ppos[p] \in Nat /\ ppos[p] + 1 \in Nat
    OBVIOUS
  <2>1. sequence' \in [0..(Slots - 1) -> Nat]
    BY Zenon, <1>8, <2>0 DEF PushPublish
  <2> QED
    BY SMTT(30), <1>8, <2>1 DEF PushPublish
<1>9. CASE PushWake(p)
  BY <1>9 DEF PushWake
<1> QED
  BY Zenon, <1>3, <1>4, <1>5, <1>6, <1>7, <1>8, <1>9 DEF Push

\* The steps of a producer that leave the ring as it is.
RingUntouched(p) ==
  SendPacket(p) \/ PushCheck(p) \/ PushDepth(p) \/ PushWake(p)
  \/ (PushClaim(p) /\ enqueue # ppos[p])

\* Facts about a producer's step that its other lemmas share.
LEMMA ProducerContext ==
  ASSUME NEW w, Workers = {w}, Encoders = {}, ServerInv(w),
         NEW p \in Producers, SendPacket(p) \/ Push(p)
  PROVE  /\ UNCHANGED <<dequeue, dpc, dpos, ditem, dslot, drained>>
         /\ Base(w) \in Nat /\ Base(w)' = Base(w)
         /\ RingUntouched(p) => UNCHANGED <<enqueue, sequence, value, pushed, claims>>
         /\ RingUntouched(p) \/ (PushClaim(p) /\ enqueue = ppos[p])
              \/ PushStore(p) \/ PushPublish(p)
         /\ \A m, n \in Base(w)..(Base(w) + Slots - 1) : m # n => Slot(m) # Slot(n)
<1>1. w \in Drainers
  BY DEF Drainers
<1>2. UNCHANGED <<dequeue, dpc, dpos, ditem, dslot, drained>>
  BY SMTT(30) DEF SendPacket, Push, PushCheck, PushClaim, PushDepth, PushStore, PushPublish,
         PushWake, ringVars, drainerVars
<1>3. Base(w) \in Nat /\ Base(w)' = Base(w)
  BY SMTT(30), <1>1, <1>2 DEF ServerInv, Types, Base
<1>4. RingUntouched(p) => UNCHANGED <<enqueue, sequence, value, pushed, claims>>
  BY SMTT(30) DEF RingUntouched, SendPacket, PushCheck, PushClaim, PushDepth, PushWake, ringVars
<1>5. RingUntouched(p) \/ (PushClaim(p) /\ enqueue = ppos[p])
        \/ PushStore(p) \/ PushPublish(p)
  BY DEF RingUntouched, Push
<1>6. ASSUME NEW m \in Base(w)..(Base(w) + Slots - 1),
             NEW n \in Base(w)..(Base(w) + Slots - 1), m # n
      PROVE  Slot(m) # Slot(n)
  <2>1. m \in Nat /\ n \in Nat /\ m < n + Slots /\ n < m + Slots
    BY <1>3, SlotsAssumption
  <2>2. CASE m < n
    BY <2>1, <2>2, SlotFacts
  <2>3. CASE n < m
    BY <2>1, <2>3, SlotFacts
  <2> QED
    BY <2>1, <2>2, <2>3, <1>6
<1> QED
  BY <1>2, <1>3, <1>4, <1>5, <1>6

\* A producer's step keeps the ring: a claim takes the first free position, a
\* store and a publish touch the cell of the position the producer owns.
LEMMA ProducerRing ==
  ASSUME NEW w, Workers = {w}, Encoders = {}, ServerInv(w),
         NEW p \in Producers, SendPacket(p) \/ Push(p)
  PROVE  Ring(w)'
<1> DEFINE B == Base(w)
<1>0. /\ UNCHANGED <<dequeue, dpc>> /\ B \in Nat /\ B' = B
      /\ \A m, n \in B..(B + Slots - 1) : m # n => Slot(m) # Slot(n)
  BY ProducerContext
<1>t. /\ enqueue \in Nat /\ ppos[p] \in Nat /\ claims \in Seq(Packet) /\ Len(claims) = enqueue
      /\ sequence \in [0..(Slots - 1) -> Nat] /\ value \in [0..(Slots - 1) -> Packet \cup {None}]
      /\ Slots \in Nat /\ \A i \in Nat : Slot(i) \in 0..(Slots - 1)
  BY Zenon, SlotsAssumption, SlotFacts DEF ServerInv, Types
<1>r. /\ B <= enqueue /\ enqueue <= B + Slots
      /\ \A n \in B..(enqueue - 1) :
           \/ sequence[Slot(n)] = n
           \/ sequence[Slot(n)] = n + 1 /\ value[Slot(n)] = claims[n + 1]
      /\ \A n \in enqueue..(B + Slots - 1) : sequence[Slot(n)] = n
  BY DEF ServerInv, Ring
<1>p. Pushing(w, p)
  BY DEF ServerInv, Producing
<1> HIDE DEF B
<1>n. /\ B \in Nat /\ enqueue \in Nat /\ ppos[p] \in Nat /\ Slots \in Nat
      /\ B <= enqueue /\ enqueue <= B + Slots
  BY <1>0, <1>t, <1>r
<1>g. SUFFICES
        /\ B <= enqueue' /\ enqueue' <= B + Slots
        /\ \A n \in B..(enqueue' - 1) :
             \/ sequence'[Slot(n)] = n
             \/ sequence'[Slot(n)] = n + 1 /\ value'[Slot(n)] = claims'[n + 1]
        /\ \A n \in enqueue'..(B + Slots - 1) : sequence'[Slot(n)] = n
  BY <1>0 DEF Ring, B
<1>1. CASE RingUntouched(p)
  <2>1. UNCHANGED <<enqueue, sequence, value, claims>>
    BY <1>1, ProducerContext
  <2> QED
    BY <2>1, <1>r
<1>2. CASE PushClaim(p) /\ enqueue = ppos[p]
  <2>1. /\ UNCHANGED <<sequence, value>> /\ enqueue' = enqueue + 1
        /\ claims' = Append(claims, <<p, pushed[p] + 1>>)
    BY <1>2 DEF PushClaim
  <2>2. enqueue < B + Slots
    BY <1>2, <1>p DEF PushClaim, Pushing, B
  <2>3. \A n \in B..(enqueue - 1) : claims'[n + 1] = claims[n + 1]
    BY <2>1, <1>t, <1>0
  <2>4. sequence[Slot(enqueue)] = enqueue
    BY <2>2, <1>r, <1>t, <1>0
  <2>5. ASSUME NEW n \in B..enqueue
        PROVE  \/ sequence[Slot(n)] = n
               \/ sequence[Slot(n)] = n + 1 /\ value[Slot(n)] = claims'[n + 1]
    <3>1. CASE n = enqueue
      BY <3>1, <2>4
    <3>2. CASE n \in B..(enqueue - 1)
      BY <3>2, <2>3, <1>r
    <3> QED
      BY <3>1, <3>2, <1>n
  <2>6. B..(enqueue' - 1) = B..enqueue
    BY <2>1, <1>n
  <2>7. \A n \in enqueue'..(B + Slots - 1) : n \in enqueue..(B + Slots - 1)
    BY <2>1, <1>n
  <2>8. B <= enqueue' /\ enqueue' <= B + Slots
    BY <2>1, <2>2, <1>n
  <2>9. \A n \in enqueue'..(B + Slots - 1) : sequence'[Slot(n)] = n
    BY <2>1, <2>7, <1>r
  <2> QED
    BY Zenon, <2>1, <2>5, <2>6, <2>8, <2>9
<1>3. CASE PushStore(p)
  <2>1. /\ UNCHANGED <<enqueue, sequence, claims>>
        /\ value' = [value EXCEPT ![Slot(ppos[p])] = <<p, pushed[p]>>]
    BY <1>3 DEF PushStore
  <2>2. ppos[p] \in B..(enqueue - 1) /\ sequence[Slot(ppos[p])] = ppos[p]
    BY <1>3, <1>p, <1>n DEF PushStore, Pushing, Storing, B
  <2>3. ASSUME NEW n \in B..(enqueue - 1)
        PROVE  \/ sequence[Slot(n)] = n
               \/ sequence[Slot(n)] = n + 1 /\ value'[Slot(n)] = claims[n + 1]
    <3>1. CASE n = ppos[p]
      BY <3>1, <2>2
    <3>2. CASE n # ppos[p]
      <4>1. Slot(n) # Slot(ppos[p])
        <5>1. n \in B..(B + Slots - 1) /\ ppos[p] \in B..(B + Slots - 1)
          BY <2>2, <1>n
        <5> QED
          BY <5>1, <3>2, <1>0
      <4>2. value'[Slot(n)] = value[Slot(n)]
        BY <4>1, <2>1, <1>t
      <4> QED
        BY <4>2, <1>r
    <3> QED
      BY <3>1, <3>2
  <2> QED
    BY <2>1, <2>3, <1>r
<1>4. CASE PushPublish(p)
  <2>1. /\ UNCHANGED <<enqueue, value, claims>>
        /\ sequence' = [sequence EXCEPT ![Slot(ppos[p])] = ppos[p] + 1]
    BY SMTT(30), <1>4 DEF PushPublish
  <2>2. ppos[p] \in B..(enqueue - 1) /\ value[Slot(ppos[p])] = claims[ppos[p] + 1]
    BY <1>4, <1>p, <1>n DEF PushPublish, Pushing, Storing, B
  <2>3. \A n \in B..(B + Slots - 1) : n # ppos[p] => sequence'[Slot(n)] = sequence[Slot(n)]
    <3> TAKE n \in B..(B + Slots - 1)
    <3> HAVE n # ppos[p]
    <3>0. ppos[p] \in B..(B + Slots - 1)
      BY <2>2, <1>n
    <3>1. Slot(n) # Slot(ppos[p])
      BY <3>0, <1>0
    <3> QED
      BY <3>1, <2>1, <1>t
  <2>4. sequence'[Slot(ppos[p])] = ppos[p] + 1
    BY Zenon, <2>1, <1>t
  <2>5. ASSUME NEW n \in B..(enqueue - 1)
        PROVE  \/ sequence'[Slot(n)] = n
               \/ sequence'[Slot(n)] = n + 1 /\ value[Slot(n)] = claims[n + 1]
    <3>1. CASE n = ppos[p]
      BY <3>1, <2>2, <2>4
    <3>2. CASE n # ppos[p]
      <4>1. n \in B..(B + Slots - 1)
        BY <1>n
      <4> QED
        BY <4>1, <3>2, <2>3, <1>r
    <3> QED
      BY <3>1, <3>2
  <2>6. ASSUME NEW n \in enqueue..(B + Slots - 1) PROVE sequence'[Slot(n)] = n
    <3>1. n \in B..(B + Slots - 1) /\ n # ppos[p]
      BY <2>2, <1>n
    <3> QED
      BY <3>1, <2>3, <1>r
  <2> QED
    BY SMTT(30), <2>1, <2>5, <2>6, <1>r
<1> QED
  BY <1>1, <1>2, <1>3, <1>4, ProducerContext

\* A producer's step keeps what every producer relies on: two producers never own
\* one position, because a claim names its producer.
LEMMA ProducerPushing ==
  ASSUME NEW w, Workers = {w}, Encoders = {}, ServerInv(w),
         NEW p \in Producers, SendPacket(p) \/ Push(p)
  PROVE  Producing(w)'
<1> DEFINE B == Base(w)
<1>0. B' = B /\ \A m, n \in B..(B + Slots - 1) : m # n => Slot(m) # Slot(n)
  BY ProducerContext
<1>b. Base(w)' = Base(w)
  BY ProducerContext
<1>t. /\ ppos \in [Producers -> Nat] /\ pushed \in [Producers -> 0..MaxPushes]
      /\ ppc \in [Producers -> ProducerPlaces] /\ claims \in Seq(Packet) /\ Len(claims) = enqueue
      /\ sequence \in [0..(Slots - 1) -> Nat] /\ value \in [0..(Slots - 1) -> Packet \cup {None}]
  BY DEF ServerInv, Types
<1>s. \A i \in Nat : Slot(i) \in 0..(Slots - 1) /\ Slot(i + Slots) = Slot(i)
  BY SlotFacts
<1>p. \A q \in Producers : Pushing(w, q)
  BY DEF ServerInv, Producing
<1>n. /\ B \in Nat /\ enqueue \in Nat /\ Slots \in Nat /\ Slots >= 2
      /\ B <= enqueue /\ enqueue <= B + Slots
  BY Zenon, SlotsAssumption, ProducerContext DEF ServerInv, Types, Ring
<1>w. \A q \in Producers : ppc[q] \in Storing =>
        ppos[q] \in B..(B + Slots - 1) /\ ppos[q] + 1 \in 1..enqueue
  <2> SUFFICES ASSUME NEW q \in Producers, ppc[q] \in Storing
               PROVE  ppos[q] \in B..(B + Slots - 1) /\ ppos[q] + 1 \in 1..enqueue
    OBVIOUS
  <2>1. B <= ppos[q] /\ ppos[q] < enqueue
    BY SMTT(30), <1>p DEF Pushing
  <2>2. ppos[q] \in Nat
    BY <1>t
  <2> HIDE DEF B
  <2> QED
    BY SMTT(30), <2>1, <2>2, <1>n
<1>d. \A q \in Producers : q # p /\ ppc[p] \in Storing /\ ppc[q] \in Storing =>
        Slot(ppos[q]) # Slot(ppos[p])
  <2> SUFFICES ASSUME NEW q \in Producers, q # p, ppc[p] \in Storing, ppc[q] \in Storing
               PROVE  Slot(ppos[q]) # Slot(ppos[p])
    BY SMTT(30)
  <2>1. claims[ppos[p] + 1] = <<p, pushed[p]>> /\ claims[ppos[q] + 1] = <<q, pushed[q]>>
    BY <1>p DEF Pushing
  <2>2. ppos[p] # ppos[q]
    BY <2>1
  <2> HIDE DEF B
  <2> QED
    BY <2>2, <1>w, <1>0
<1>1. CASE RingUntouched(p)
  <2>1. UNCHANGED <<enqueue, sequence, value, claims, pushed>>
    BY <1>1, ProducerContext
  <2>2. /\ ppc' = [ppc EXCEPT ![p] = ppc'[p]] /\ ppos' = [ppos EXCEPT ![p] = ppos'[p]]
    BY SMTT(30), <1>1, <1>t DEF RingUntouched, SendPacket, PushCheck, PushDepth, PushWake, PushClaim, Goto
  <2>3. ASSUME NEW q \in Producers \ {p} PROVE Pushing(w, q)'
    <3>1. ppc'[q] = ppc[q] /\ ppos'[q] = ppos[q]
      BY <2>2, <1>t
    <3>2. Pushing(w, q)
      BY <1>p
    <3> QED
      BY Zenon, <3>1, <3>2, <2>1, <1>0 DEF Pushing
  <2>4. Pushing(w, p)'
    <3>1. CASE SendPacket(p)
      <4>1. ppc'[p] = "check" /\ ppos'[p] = enqueue /\ pushed[p] < MaxPushes
        BY SMTT(30), <3>1, <1>t DEF SendPacket, Goto
      <4> QED
        BY SMTT(30), <4>1, <2>1, <1>n DEF Pushing, Storing
    <3>2. CASE PushCheck(p)
      <4>1. ppc[p] = "check" /\ pushed[p] < MaxPushes /\ ppos[p] <= enqueue
        BY Zenon, <3>2, <1>p DEF PushCheck, Pushing
      <4>2. \/ ppc'[p] = "idle" /\ ppos'[p] = ppos[p]
            \/ ppc'[p] = "check" /\ ppos'[p] = enqueue
            \/ ppc'[p] = "claim" /\ ppos'[p] = ppos[p] /\ sequence[Slot(ppos[p])] - ppos[p] = 0
        BY <3>2, <4>1, <1>t DEF PushCheck, Goto
      <4>3. ASSUME ppc'[p] = "claim", ppos'[p] = enqueue PROVE enqueue < B + Slots
        <5>1. sequence[Slot(enqueue)] - enqueue = 0
          BY <4>2, <4>3
        <5>2. sequence[Slot(enqueue)] = enqueue
          <6>1. sequence[Slot(enqueue)] \in Nat
            BY Zenon, <1>t, <1>s, <1>n
          <6> QED
            BY <5>1, <6>1, <1>n
        <5> SUFFICES ASSUME enqueue = B + Slots PROVE FALSE
          BY <1>n
        <5>3. Slot(enqueue) = Slot(B)
          BY <1>n, <1>s
        <5>4. B \in B..(enqueue - 1)
          BY <1>n
        <5>5. sequence[Slot(B)] = B \/ sequence[Slot(B)] = B + 1
          BY <5>4 DEF ServerInv, Ring
        <5> QED
          BY <5>2, <5>3, <5>5, <1>n
      <4>4. CASE ppc'[p] = "idle" /\ ppos'[p] = ppos[p]
        BY <4>1, <4>4, <2>1 DEF Pushing, Storing
      <4>5. CASE ppc'[p] = "check" /\ ppos'[p] = enqueue
        <5>1. enqueue <= enqueue
          BY <1>n
        <5> QED
          BY <4>1, <4>5, <5>1, <2>1 DEF Pushing, Storing
      <4>6. CASE ppc'[p] = "claim" /\ ppos'[p] = ppos[p]
        <5>1. ppos'[p] = enqueue => enqueue < B + Slots
          BY <4>3, <4>6
        <5> QED
          BY <4>1, <4>6, <5>1, <2>1, <1>b DEF Pushing, Storing
      <4> QED
        BY SMTT(30), <4>2, <4>4, <4>5, <4>6
    <3>3. CASE PushDepth(p)
      <4>1. ppc[p] = "depth" /\ ppc'[p] = "store" /\ ppos' = ppos
        BY <3>3, <1>t DEF PushDepth, Goto
      <4> QED
        BY SMTT(30), <4>1, <2>1, <1>p, <1>0 DEF Pushing, Storing
    <3>4. CASE PushWake(p)
      <4>1. ppc'[p] = "idle" /\ ppos' = ppos
        BY <3>4, <1>t DEF PushWake, Goto
      <4> QED
        BY SMTT(30), <4>1, <2>1, <1>p DEF Pushing, Storing
    <3>5. CASE PushClaim(p) /\ enqueue # ppos[p]
      <4>1. ppc[p] = "claim" /\ ppc'[p] = "check" /\ ppos'[p] = enqueue
        BY <3>5, <1>t DEF PushClaim, Goto
      <4>2. pushed[p] < MaxPushes /\ enqueue <= enqueue
        <5>1. Pushing(w, p)
          BY <1>p
        <5>2. pushed[p] < MaxPushes
          BY Zenon, <4>1, <5>1 DEF Pushing
        <5>3. enqueue <= enqueue
          BY <1>n
        <5> QED
          BY <5>2, <5>3
      <4> QED
        BY Zenon, <4>1, <4>2, <2>1 DEF Pushing, Storing
    <3> QED
      BY <1>1, <3>1, <3>2, <3>3, <3>4, <3>5 DEF RingUntouched
  <2> QED
    BY <2>3, <2>4 DEF Producing
<1>2. CASE PushClaim(p) /\ enqueue = ppos[p]
  <2>1. /\ UNCHANGED <<sequence, value, ppos>> /\ enqueue' = enqueue + 1 /\ ppc[p] = "claim"
        /\ claims' = Append(claims, <<p, pushed[p] + 1>>)
        /\ pushed' = [pushed EXCEPT ![p] = pushed[p] + 1]
        /\ ppc' = [ppc EXCEPT ![p] = "depth"]
    BY <1>2 DEF PushClaim, Goto
  <2>c. claims \in Seq(Packet) /\ Len(claims) = enqueue
    BY <1>t, Zenon
  <2>2. enqueue < B + Slots
    BY Zenon, <1>2, <2>1, <1>p DEF Pushing
  <2>3. ASSUME NEW q \in Producers \ {p} PROVE Pushing(w, q)'
    <3>1. ppc'[q] = ppc[q] /\ pushed'[q] = pushed[q] /\ ppos'[q] = ppos[q]
      BY <2>1, <1>t
    <3>2. ppos[q] \in Nat /\ ppos[q] <= enqueue
      BY Zenon, <1>p, <1>t DEF Pushing
    <3>3. ppos[q] # enqueue' /\ ppos[q] <= enqueue'
      BY <3>2, <2>1, <1>n
    <3>4. ppc[q] \in Storing => claims'[ppos[q] + 1] = claims[ppos[q] + 1]
      <4>1. ppc[q] \in Storing => ppos[q] + 1 \in 1..enqueue
        BY <1>w, Zenon
      <4>2. \A i \in 1..enqueue : claims'[i] = claims[i]
        BY SMTT(60), <2>c, <2>1
      <4> QED
        BY <4>1, <4>2, Zenon
    <3>5. ppos[q] < enqueue => ppos[q] < enqueue'
      BY <3>2, <2>1, <1>n
    <3> QED
      BY Zenon, <3>1, <3>3, <3>4, <3>5, <2>1, <1>p, <1>0 DEF Pushing
  <2>4. Pushing(w, p)'
    <3>1. ppc'[p] = "depth" /\ pushed'[p] = pushed[p] + 1 /\ ppos'[p] = enqueue
      BY SMTT(30), <1>2, <2>1, <1>t
    <3>2. claims'[enqueue + 1] = <<p, pushed[p] + 1>>
      BY SMTT(30), <2>1, <1>t
    <3>3. enqueue \in enqueue..(B + Slots - 1)
      BY <2>2, <1>n
    <3>4. sequence[Slot(enqueue)] = enqueue
      <4>1. \A n \in enqueue..(B + Slots - 1) : sequence[Slot(n)] = n
        BY DEF ServerInv, Ring
      <4> QED
        BY SMTT(30), <4>1, <3>3
    <3>5. enqueue <= enqueue' /\ enqueue < enqueue' /\ B <= enqueue
      BY <2>1, <1>n
    <3> QED
      BY SMTT(30), <3>1, <3>2, <3>4, <3>5, <2>1, <1>0 DEF Pushing, Storing
  <2> QED
    BY <2>3, <2>4 DEF Producing
<1>3. CASE PushStore(p)
  <2>1. /\ UNCHANGED <<enqueue, sequence, claims, ppos, pushed>>
        /\ ppc[p] = "store" /\ ppc' = [ppc EXCEPT ![p] = "publish"]
        /\ value' = [value EXCEPT ![Slot(ppos[p])] = <<p, pushed[p]>>]
    BY SMTT(30), <1>3 DEF PushStore, Goto
  <2>2. ASSUME NEW q \in Producers \ {p} PROVE Pushing(w, q)'
    <3>1. ppc'[q] = ppc[q]
      BY <2>1, <1>t
    <3>2. ppc[q] = "publish" => value'[Slot(ppos[q])] = value[Slot(ppos[q])]
      BY <2>1, <1>t, <1>s, <1>d DEF Storing
    <3> QED
      BY Zenon, <3>1, <3>2, <2>1, <1>p, <1>0 DEF Pushing
  <2>3. Pushing(w, p)'
    <3>1. ppc'[p] = "publish" /\ value'[Slot(ppos[p])] = <<p, pushed[p]>>
      BY Zenon, <2>1, <1>t, <1>s
    <3> QED
      BY Zenon, <3>1, <2>1, <1>p, <1>0 DEF Pushing, Storing
  <2> QED
    BY <2>2, <2>3 DEF Producing
<1>4. CASE PushPublish(p)
  <2>1. /\ UNCHANGED <<enqueue, value, claims, ppos, pushed>> /\ ppc[p] = "publish"
        /\ ppc' = [ppc EXCEPT ![p] = ppc'[p]] /\ ppc'[p] \in {"wake", "idle"}
        /\ sequence' = [sequence EXCEPT ![Slot(ppos[p])] = ppos[p] + 1]
    BY <1>4, <1>t DEF PushPublish, Goto
  <2>2. ASSUME NEW q \in Producers \ {p} PROVE Pushing(w, q)'
    <3>1. ppc'[q] = ppc[q]
      BY <2>1, <1>t
    <3>2. ppc[q] \in Storing => sequence'[Slot(ppos[q])] = sequence[Slot(ppos[q])]
      BY SMTT(30), <2>1, <1>t, <1>s, <1>d DEF Storing
    <3> QED
      BY Zenon, <3>1, <3>2, <2>1, <1>p, <1>0 DEF Pushing
  <2>3. Pushing(w, p)'
    BY SMTT(30), <2>1, <1>p DEF Pushing, Storing
  <2> QED
    BY <2>2, <2>3 DEF Producing
<1> QED
  BY <1>1, <1>2, <1>3, <1>4, ProducerContext

\* A producer's step keeps what the drainer relies on: it never touches a readable
\* cell, and the claims it adds come after the ones being drained.
LEMMA ProducerDraining ==
  ASSUME NEW w, Workers = {w}, Encoders = {}, ServerInv(w),
         NEW p \in Producers, SendPacket(p) \/ Push(p)
  PROVE  Draining(w)'
<1>0. UNCHANGED <<dequeue, dpc, dpos, ditem, dslot, drained>>
  BY ProducerContext
<1>1. Ring(w)' /\ Ring(w) /\ Draining(w) /\ w \in Drainers /\ Types
  BY ProducerRing DEF ServerInv, Drainers
<1>2. /\ enqueue \in Nat /\ enqueue' \in Nat /\ enqueue <= enqueue'
      /\ \A i \in 1..enqueue : claims'[i] = claims[i]
  <2>1. CASE PushClaim(p) /\ enqueue = ppos[p]
    <3>1. enqueue' = enqueue + 1 /\ claims' = Append(claims, <<p, pushed[p] + 1>>)
      BY <2>1 DEF PushClaim
    <3> QED
      BY SMTT(30), <3>1, <1>1 DEF Types
  <2>2. CASE ~(PushClaim(p) /\ enqueue = ppos[p])
    <3>1. UNCHANGED <<enqueue, claims>>
      BY Zenon, <2>2, ProducerContext DEF PushStore, PushPublish
    <3> QED
      BY <3>1, <1>1 DEF Types
  <2> QED
    BY <2>1, <2>2
<1>3. dpc[w] = "free" => sequence'[Slot(dequeue)] = dequeue + 1
  <2> SUFFICES ASSUME dpc[w] = "free" PROVE sequence'[Slot(dequeue)] = dequeue + 1
    OBVIOUS
  <2>1. dequeue \in Nat /\ dequeue < enqueue /\ sequence[Slot(dequeue)] = dequeue + 1
        /\ Base(w) = dequeue
    BY SMTT(30), <1>1 DEF Draining, Base, Types
  <2>2. CASE PushPublish(p)
    <3>1. ppos[p] \in Nat /\ sequence[Slot(ppos[p])] = ppos[p] /\ Base(w) <= ppos[p]
          /\ sequence' = [sequence EXCEPT ![Slot(ppos[p])] = ppos[p] + 1]
      BY Zenon, <2>2 DEF PushPublish, ServerInv, Producing, Pushing, Storing, Types
    <3>2. Slot(ppos[p]) # Slot(dequeue)
      <4>1. Slot(dequeue) # Slot(dequeue + 1)
        BY <2>1, SlotFacts, SlotsAssumption
      <4> QED
        BY <2>1, <3>1, <4>1
    <3> QED
      BY <2>1, <3>1, <3>2, <1>1, SlotFacts DEF Types
  <2>3. CASE ~PushPublish(p)
    <3>1. sequence' = sequence
      BY <2>3, ProducerContext DEF PushClaim, PushStore
    <3> QED
      BY <2>1, <3>1
  <2> QED
    BY <2>2, <2>3
<1>4. dequeue \in Nat /\ Base(w) <= enqueue /\ Base(w) = IF dpc[w] = "advance" THEN dequeue + 1 ELSE dequeue
  BY Zenon, <1>1 DEF Types, Ring, Base
<1>5. dpc[w] = "free" => claims'[dequeue + 1] = claims[dequeue + 1] /\ dequeue < enqueue'
  <2> SUFFICES ASSUME dpc[w] = "free"
               PROVE  claims'[dequeue + 1] = claims[dequeue + 1] /\ dequeue < enqueue'
    BY SMTT(30)
  <2>1. dequeue < enqueue
    BY <1>1, Zenon DEF Draining
  <2>2. dequeue + 1 \in 1..enqueue /\ dequeue < enqueue'
    BY SMTT(60), <2>1, <1>2, <1>4
  <2> QED
    BY <2>2, <1>2, Zenon
<1>6. dpc[w] = "advance" => claims'[dequeue + 1] = claims[dequeue + 1]
  BY <1>2, <1>4
<1>7. dpc[w] = "encode" => claims'[dequeue] = claims[dequeue]
  <2> SUFFICES ASSUME dpc[w] = "encode" PROVE claims'[dequeue] = claims[dequeue]
    OBVIOUS
  <2>1. dequeue > 0 /\ dequeue \in Nat
    BY Zenon, <1>1, <1>4 DEF Draining
  <2>2. Base(w) = dequeue /\ dequeue <= enqueue /\ enqueue \in Nat
    BY <1>2, <1>4
  <2>3. dequeue \in 1..enqueue
    BY <2>1, <2>2
  <2> QED
    BY Zenon, <2>3, <1>2
<1>8. Len(drained) <= enqueue /\ Len(drained) \in Nat
  BY SMTT(30), <1>1, <1>2, <1>4 DEF Draining, Types
<1>9. \A i \in 1..Len(drained) : claims'[i] = claims[i]
  BY <1>2, <1>8
<1>10. dpc[w] = "free" =>
         /\ dequeue < enqueue' /\ sequence'[Slot(dequeue)] = dequeue + 1
         /\ ditem[w] = claims'[dequeue + 1] /\ dslot[w] = Slot(dequeue)
  BY Zenon, <1>1, <1>3, <1>5 DEF Draining
<1>11. dpc[w] = "advance" => dpos[w] = dequeue /\ ditem[w] = claims'[dequeue + 1]
  BY Zenon, <1>1, <1>6 DEF Draining
<1>12. dpc[w] = "encode" => dequeue > 0 /\ ditem[w] = claims'[dequeue]
  BY Zenon, <1>1, <1>7 DEF Draining
<1>13. /\ dpc[w] \in {"emptyStore", "emptyCheck"} => dpos[w] = dequeue
       /\ Len(drained) = IF dpc[w] = "encode" THEN dequeue - 1 ELSE dequeue
       /\ \A i \in 1..Len(drained) : drained[i] = claims'[i]
  BY Zenon, <1>1, <1>9 DEF Draining
<1> QED
  BY Zenon, <1>0, <1>10, <1>11, <1>12, <1>13 DEF Draining

\* A step that leaves the ring and the producers alone and does not take the
\* drainer into, or out of, the middle of a read.
Quiet(w) ==
  /\ UNCHANGED <<enqueue, dequeue, sequence, value, ppc, ppos, pushed, claims, ditem, dslot, drained>>
  /\ dpc' \in [Drainers -> DrainPlaces] /\ dpos' \in [Drainers -> Nat]
  /\ \/ dpc'[w] = dpc[w] /\ dpos'[w] = dpos[w]
     \/ /\ dpc[w] \notin {"free", "advance", "encode"}
        /\ dpc'[w] \notin {"free", "advance", "encode"}
        /\ dpc'[w] \in {"emptyStore", "emptyCheck"} => dpos'[w] = dequeue

\* A quiet step keeps the invariant.
LEMMA QuietStep ==
  ASSUME NEW w, Workers = {w}, Encoders = {}, ServerInv(w), Quiet(w)
  PROVE  ServerInv(w)'
<1>1. Base(w)' = Base(w)
  BY Zenon DEF Quiet, Base
<1>2. Types'
  BY DEF ServerInv, Types, Quiet
<1>3. Ring(w)'
  BY SMTT(30), <1>1 DEF ServerInv, Ring, Quiet
<1>4. Producing(w)'
  BY Zenon, <1>1 DEF ServerInv, Producing, Pushing, Quiet
<1>5. Draining(w)'
  BY SMTT(30) DEF ServerInv, Draining, Quiet
<1> QED
  BY <1>2, <1>3, <1>4, <1>5 DEF ServerInv

\* Every step of the drainer but the four of a read is quiet: Empty() in particular
\* stores back the cursor it loaded, which nobody else has moved.
LEMMA DrainerQuiet ==
  ASSUME NEW w, Workers = {w}, Encoders = {}, ServerInv(w),
         \/ DrainTry(w) \/ DrainRelease(w) \/ EmptyLoad(w) \/ EmptyStore(w)
         \/ EmptyCheck(w) \/ DrainReturn(w) \/ WorkerTick(w) \/ WorkerDecide(w)
         \/ (DrainPop(w) /\ sequence[Slot(dequeue)] # dequeue + 1)
         \/ Close \/ Disconnect \/ UNCHANGED vars
  PROVE  Quiet(w)
<1>1. /\ w \in Drainers /\ dpc \in [Drainers -> DrainPlaces] /\ dpos \in [Drainers -> Nat]
      /\ dequeue \in Nat
  BY DEF Drainers, ServerInv, Types
<1> USE <1>1 DEF Quiet, DrainPlaces, Goto
<1>2. CASE DrainTry(w)
  BY SMTT(30), <1>2 DEF DrainTry, ringVars, producerVars
<1>3. CASE DrainRelease(w) \/ EmptyLoad(w) \/ EmptyCheck(w) \/ DrainReturn(w)
  BY Zenon, <1>3 DEF DrainRelease, EmptyLoad, EmptyCheck, DrainReturn, ringVars, producerVars,
              ServerInv, Draining
<1>4. CASE EmptyStore(w)
  BY Zenon, <1>4 DEF EmptyStore, producerVars, ServerInv, Draining
<1>5. CASE WorkerTick(w) \/ WorkerDecide(w)
  BY SMTT(30), <1>5 DEF WorkerTick, WorkerDecide, ringVars, producerVars
<1>6. CASE DrainPop(w) /\ sequence[Slot(dequeue)] # dequeue + 1
  BY Zenon, <1>6 DEF DrainPop, ringVars, producerVars
<1>7. CASE Close \/ Disconnect
  BY SMTT(30), <1>7 DEF Close, Disconnect, ringVars, producerVars, drainerVars
<1>8. CASE UNCHANGED vars
  BY SMTT(30), <1>8 DEF vars, ringVars, producerVars, drainerVars
<1> HIDE DEF Quiet, DrainPlaces, Goto
<1> QED
  BY Zenon, <1>2, <1>3, <1>4, <1>5, <1>6, <1>7, <1>8

\* Facts that the steps of a read share.
LEMMA ReadContext ==
  ASSUME NEW w, Workers = {w}, Encoders = {}, ServerInv(w)
  PROVE  /\ w \in Drainers /\ Slots \in Nat /\ Slots >= 2
         /\ enqueue \in Nat /\ dequeue \in Nat
         /\ sequence \in [0..(Slots - 1) -> Nat]
         /\ value \in [0..(Slots - 1) -> Packet \cup {None}]
         /\ dpc \in [Drainers -> DrainPlaces] /\ dpos \in [Drainers -> Nat]
         /\ ditem \in [Drainers -> Packet \cup {None}]
         /\ dslot \in [Drainers -> 0..(Slots - 1)]
         /\ claims \in Seq(Packet) /\ drained \in Seq(Packet) /\ Len(claims) = enqueue
         /\ Slot(dequeue) \in 0..(Slots - 1)
BY Zenon, SlotsAssumption, SlotFacts DEF ServerInv, Types, Drainers

\* Taking a readable cell: what it holds is the oldest claim not yet drained.
LEMMA PopStep ==
  ASSUME NEW w, Workers = {w}, Encoders = {}, ServerInv(w), DrainPop(w),
         sequence[Slot(dequeue)] = dequeue + 1
  PROVE  ServerInv(w)'
<1>1. /\ dpc[w] = "pop" /\ dpc' = [dpc EXCEPT ![w] = "free"]
      /\ ditem' = [ditem EXCEPT ![w] = value[Slot(dequeue)]]
      /\ dslot' = [dslot EXCEPT ![w] = Slot(dequeue)]
      /\ UNCHANGED <<enqueue, dequeue, sequence, value, ppc, ppos, pushed, claims, dpos, drained>>
  BY SMTT(30) DEF DrainPop, Goto, ringVars, producerVars
<1>2. Base(w) = dequeue /\ Base(w)' = dequeue
  BY <1>1, ReadContext DEF Base
<1>3. dpc'[w] = "free" /\ ditem'[w] = value[Slot(dequeue)] /\ dslot'[w] = Slot(dequeue)
  BY <1>1, ReadContext
<1>4. dequeue < enqueue
  <2> SUFFICES ASSUME dequeue = enqueue PROVE FALSE
    BY SMTT(30), <1>2, ReadContext DEF ServerInv, Ring
  <2>1. enqueue \in enqueue..(dequeue + Slots - 1)
    BY SMTT(30), ReadContext
  <2>2. sequence[Slot(enqueue)] = enqueue
    BY <2>1, <1>2 DEF ServerInv, Ring
  <2> QED
    BY SMTT(30), <2>2, ReadContext
<1>5. value[Slot(dequeue)] = claims[dequeue + 1]
  <2>1. dequeue \in dequeue..(enqueue - 1)
    BY SMTT(30), <1>4, ReadContext
  <2>2. sequence[Slot(dequeue)] = dequeue \/ value[Slot(dequeue)] = claims[dequeue + 1]
    BY <2>1, <1>2 DEF ServerInv, Ring
  <2> QED
    BY <2>2, ReadContext
<1>6. Types'
  BY Zenon, <1>1, ReadContext DEF ServerInv, Types, DrainPlaces
<1>7. Ring(w)'
  BY Zenon, <1>1, <1>2 DEF ServerInv, Ring
<1>8. Producing(w)'
  BY Zenon, <1>1, <1>2 DEF ServerInv, Producing, Pushing
<1>9. Draining(w)'
  BY Zenon, <1>1, <1>3, <1>4, <1>5 DEF ServerInv, Draining
<1> QED
  BY <1>6, <1>7, <1>8, <1>9 DEF ServerInv

\* Freeing the cell opens the window by one position: the cell now stands for the
\* position a lap ahead, and no producer owned it.
LEMMA FreeStep ==
  ASSUME NEW w, Workers = {w}, Encoders = {}, ServerInv(w), DrainFree(w)
  PROVE  ServerInv(w)'
<1>1. /\ dpc[w] = "free" /\ dpc' = [dpc EXCEPT ![w] = "advance"]
      /\ dpos' = [dpos EXCEPT ![w] = dequeue]
      /\ sequence' = [sequence EXCEPT ![dslot[w]] = dequeue + Slots]
      /\ UNCHANGED <<enqueue, dequeue, value, ppc, ppos, pushed, claims, ditem, dslot, drained>>
  BY DEF DrainFree, Goto, producerVars
<1>2. Base(w) = dequeue /\ Base(w)' = dequeue + 1
  BY SMTT(30), <1>1, ReadContext DEF Base
<1>3. /\ dequeue < enqueue /\ sequence[Slot(dequeue)] = dequeue + 1
      /\ ditem[w] = claims[dequeue + 1] /\ dslot[w] = Slot(dequeue)
      /\ enqueue <= dequeue + Slots
  BY SMTT(30), <1>1, <1>2 DEF ServerInv, Draining, Ring
<1>n. enqueue \in Nat /\ dequeue \in Nat /\ Slots \in Nat /\ Slots >= 2
  BY ReadContext
<1>4. \A n \in (dequeue + 1)..(dequeue + Slots - 1) : sequence'[Slot(n)] = sequence[Slot(n)]
  <2> TAKE n \in (dequeue + 1)..(dequeue + Slots - 1)
  <2>1. n \in Nat /\ dequeue < n /\ n < dequeue + Slots
    BY <1>n
  <2>2. Slot(n) # Slot(dequeue)
    BY <2>1, <1>n, SlotFacts
  <2>3. Slot(n) \in 0..(Slots - 1)
    BY <2>1, SlotFacts
  <2> QED
    BY SMTT(30), <1>1, <1>3, <2>2, <2>3, ReadContext
<1>5. sequence'[Slot(dequeue + Slots)] = dequeue + Slots
  <2>1. Slot(dequeue + Slots) = Slot(dequeue)
    BY <1>n, SlotFacts
  <2> QED
    BY SMTT(30), <2>1, <1>1, <1>3, ReadContext
<1>6. Types'
  <2>1. sequence' \in [0..(Slots - 1) -> Nat]
    <3>1. dequeue + Slots \in Nat
      BY <1>n
    <3> QED
      BY SMTT(30), <3>1, <1>1, ReadContext
  <2>2. dpos' \in [Drainers -> Nat] /\ dpc' \in [Drainers -> DrainPlaces]
    BY SMTT(30), <1>1, ReadContext DEF DrainPlaces
  <2> QED
    BY SMTT(30), <1>1, <2>1, <2>2 DEF ServerInv, Types
<1>7. Ring(w)'
  <2>1. ASSUME NEW n \in (dequeue + 1)..(enqueue - 1)
        PROVE  \/ sequence'[Slot(n)] = n
               \/ sequence'[Slot(n)] = n + 1 /\ value[Slot(n)] = claims[n + 1]
    <3>1. n \in dequeue..(enqueue - 1) /\ n \in (dequeue + 1)..(dequeue + Slots - 1)
      BY <1>n, <1>3
    <3>2. \/ sequence[Slot(n)] = n
          \/ sequence[Slot(n)] = n + 1 /\ value[Slot(n)] = claims[n + 1]
      BY SMTT(30), <3>1, <1>2 DEF ServerInv, Ring
    <3> QED
      BY SMTT(30), <3>1, <3>2, <1>4
  <2>2. ASSUME NEW n \in enqueue..(dequeue + 1 + Slots - 1) PROVE sequence'[Slot(n)] = n
    <3>1. CASE n = dequeue + Slots
      BY <3>1, <1>5
    <3>2. CASE n # dequeue + Slots
      <4>1. n \in enqueue..(dequeue + Slots - 1) /\ n \in (dequeue + 1)..(dequeue + Slots - 1)
        BY <1>n, <1>3, <3>2
      <4>2. sequence[Slot(n)] = n
        BY SMTT(30), <4>1, <1>2 DEF ServerInv, Ring
      <4> QED
        BY <4>1, <4>2, <1>4
    <3> QED
      BY <3>1, <3>2
  <2>3. dequeue + 1 <= enqueue /\ enqueue <= dequeue + 1 + Slots
    BY <1>n, <1>3
  <2> QED
    BY SMTT(30), <1>1, <1>2, <2>1, <2>2, <2>3 DEF Ring
<1>8. Producing(w)'
  <2> SUFFICES ASSUME NEW p \in Producers PROVE Pushing(w, p)'
    BY DEF Producing
  <2>1. Pushing(w, p) /\ ppos[p] \in Nat
    BY DEF ServerInv, Producing, Types
  <2>2. ASSUME ppc[p] \in Storing
        PROVE  dequeue + 1 <= ppos[p] /\ sequence'[Slot(ppos[p])] = ppos[p]
    <3>1. dequeue <= ppos[p] /\ ppos[p] < enqueue /\ sequence[Slot(ppos[p])] = ppos[p]
      BY SMTT(30), <2>1, <2>2, <1>2 DEF Pushing
    <3>2. ppos[p] # dequeue
      BY SMTT(30), <3>1, <1>3, <1>n
    <3>3. ppos[p] \in (dequeue + 1)..(dequeue + Slots - 1)
      BY SMTT(30), <3>1, <3>2, <2>1, <1>3, <1>n
    <3> QED
      BY SMTT(30), <3>1, <3>3, <1>4, <1>n
  <2>3. enqueue < dequeue + Slots => enqueue < dequeue + 1 + Slots
    BY <1>n
  <2>4. /\ ppos[p] <= enqueue
        /\ ppc[p] \in {"check", "claim"} => pushed[p] < MaxPushes
        /\ ppc[p] \in Storing => /\ ppos[p] < enqueue
                                /\ claims[ppos[p] + 1] = <<p, pushed[p]>>
        /\ ppc[p] = "publish" => value[Slot(ppos[p])] = <<p, pushed[p]>>
    BY Zenon, <2>1 DEF Pushing
  <2>5. ppc[p] = "claim" /\ ppos[p] = enqueue => enqueue < dequeue + 1 + Slots
    BY Zenon, <1>2, <2>1, <2>3 DEF Pushing
  <2> QED
    BY Zenon, <1>1, <1>2, <2>2, <2>4, <2>5 DEF Pushing
<1>9. Draining(w)'
  <2>1. dpc'[w] = "advance" /\ dpos'[w] = dequeue
    BY <1>1, ReadContext
  <2> QED
    BY SMTT(30), <1>1, <1>3, <2>1 DEF ServerInv, Draining
<1> QED
  BY <1>6, <1>7, <1>8, <1>9 DEF ServerInv

\* Moving the cursor, and handing the packet to encode().
LEMMA AdvanceStep ==
  ASSUME NEW w, Workers = {w}, Encoders = {}, ServerInv(w), DrainAdvance(w)
  PROVE  ServerInv(w)'
<1>1. /\ dpc[w] = "advance" /\ dpc' = [dpc EXCEPT ![w] = "encode"] /\ dequeue' = dpos[w] + 1
      /\ UNCHANGED <<enqueue, sequence, value, ppc, ppos, pushed, claims,
                      dpos, ditem, dslot, drained>>
  BY DEF DrainAdvance, Goto, producerVars
<1>2. dequeue' = dequeue + 1 /\ dpc'[w] = "encode" /\ dequeue \in Nat
  BY Zenon, <1>1, ReadContext DEF ServerInv, Draining
<1>3. Base(w)' = Base(w)
  BY <1>1, <1>2 DEF Base
<1>4. Types'
  BY SMTT(30), <1>1, <1>2 DEF ServerInv, Types, DrainPlaces
<1>5. Ring(w)'
  BY Zenon, <1>1, <1>3 DEF ServerInv, Ring
<1>6. Producing(w)'
  BY Zenon, <1>1, <1>3 DEF ServerInv, Producing, Pushing
<1>7. Draining(w)'
  BY SMTT(30), <1>1, <1>2 DEF ServerInv, Draining
<1> QED
  BY <1>4, <1>5, <1>6, <1>7 DEF ServerInv

\* Handing a packet to encode(): the drained packets grow by the next claim.
LEMMA EncodeStep ==
  ASSUME NEW w, Workers = {w}, Encoders = {}, ServerInv(w), DrainEncode(w)
  PROVE  /\ ServerInv(w)'
         /\ drained' = Append(drained, claims[Len(drained) + 1])
         /\ Len(drained) < Len(claims) /\ UNCHANGED claims
<1>1. /\ dpc[w] = "encode" /\ dpc' = [dpc EXCEPT ![w] = "pop"]
      /\ drained' = Append(drained, ditem[w])
      /\ UNCHANGED <<enqueue, dequeue, sequence, value, ppc, ppos, pushed, claims,
                      dpos, ditem, dslot>>
  BY DEF DrainEncode, Goto, producerVars, ringVars
<1>2. Base(w)' = Base(w) /\ Base(w) = dequeue /\ dpc'[w] = "pop"
  BY SMTT(30), <1>1, ReadContext DEF Base
<1>3. /\ dequeue > 0 /\ ditem[w] = claims[dequeue] /\ Len(drained) = dequeue - 1
      /\ dequeue <= enqueue /\ \A i \in 1..Len(drained) : drained[i] = claims[i]
  BY SMTT(30), <1>1, <1>2 DEF ServerInv, Draining, Ring
<1>4. dequeue \in 1..Len(claims) /\ Len(drained) + 1 = dequeue /\ Len(drained) < Len(claims)
  <2>1. dequeue \in Nat /\ enqueue \in Nat /\ Len(claims) = enqueue
    BY ReadContext, Zenon
  <2>2. dequeue > 0 /\ Len(drained) = dequeue - 1 /\ dequeue <= enqueue
    BY <1>3, Zenon
  <2> QED
    BY <2>1, <2>2
<1>5. ditem[w] \in Packet
  <2>1. claims \in Seq(Packet)
    BY Zenon, ReadContext
  <2>2. claims[dequeue] \in Packet
    BY <1>4, <2>1
  <2> QED
    BY Zenon, <1>3, <2>2
<1>6. Types'
  <2>1. drained' \in Seq(Packet)
    BY <1>1, <1>5, ReadContext
  <2> QED
    BY Zenon, <1>1, <2>1 DEF ServerInv, Types, DrainPlaces
<1>7. Ring(w)'
  BY Zenon, <1>1, <1>2 DEF ServerInv, Ring
<1>8. Producing(w)'
  BY Zenon, <1>1, <1>2 DEF ServerInv, Producing, Pushing
<1>9. Draining(w)'
  <2>1. Len(drained') = dequeue
    BY <1>1, <1>4, ReadContext
  <2>2. \A i \in 1..Len(drained') : drained'[i] = claims[i]
    <3> TAKE i \in 1..Len(drained')
    <3>1. CASE i = dequeue
      <4>1. drained \in Seq(Packet) /\ i = Len(drained) + 1
        BY <3>1, <1>4, ReadContext
      <4>2. drained'[i] = ditem[w]
        BY <4>1, <1>1, <1>5
      <4> QED
        BY Zenon, <4>2, <3>1, <1>3
    <3>2. CASE i # dequeue
      <4>1. i \in 1..Len(drained)
        BY <3>2, <2>1, <1>4, ReadContext
      <4>2. drained[i] = claims[i]
        BY Zenon, <4>1, <1>3
      <4>3. drained' = Append(drained, ditem[w]) /\ drained \in Seq(Packet)
        BY Zenon, <1>1, ReadContext
      <4>4. drained'[i] = drained[i]
        BY <4>1, <4>3, <1>5
      <4> QED
        BY Zenon, <4>2, <4>4
    <3> QED
      BY SMTT(30), <3>1, <3>2
  <2> QED
    BY Zenon, <1>1, <1>2, <2>1, <2>2 DEF Draining
<1> QED
  BY Zenon, <1>1, <1>3, <1>4, <1>6, <1>7, <1>8, <1>9 DEF ServerInv

\* The drainer's steps and the loop's are quiet, or one of the four of a read.
LEMMA OtherSteps ==
  ASSUME NEW w, Workers = {w}, Encoders = {}, ServerInv(w), [Next]_vars,
         ~ \E p \in Producers : SendPacket(p) \/ Push(p)
  PROVE  \/ Quiet(w) \/ (DrainPop(w) /\ sequence[Slot(dequeue)] = dequeue + 1)
         \/ DrainFree(w) \/ DrainAdvance(w) \/ DrainEncode(w)
<1>1. Drainers = {w}
  BY DEF Drainers
<1>2. Drain(w) \/ WorkerTick(w) \/ WorkerDecide(w) \/ Close \/ Disconnect \/ UNCHANGED vars
  BY <1>1 DEF Next
<1> QED
  BY <1>2, DrainerQuiet DEF Drain

\* ServerInv is inductive.
LEMMA ServerStep ==
  ASSUME NEW w, Workers = {w}, Encoders = {}, ServerInv(w), [Next]_vars
  PROVE  ServerInv(w)'
<1>1. ASSUME NEW p \in Producers, SendPacket(p) \/ Push(p) PROVE ServerInv(w)'
  BY <1>1, ProducerTypes, ProducerRing, ProducerPushing, ProducerDraining DEF ServerInv
<1>2. CASE ~ \E p \in Producers : SendPacket(p) \/ Push(p)
  BY <1>2, OtherSteps, QuietStep, PopStep, FreeStep, AdvanceStep, EncodeStep
<1> QED
  BY <1>1, <1>2

\* CellExclusive on a server: Cell::value, a plain object, is never in two hands.
THEOREM ServerCellExclusive ==
  ASSUME NEW w, Workers = {w}, Encoders = {}
  PROVE  Spec => []CellExclusive
<1>1. Init => ServerInv(w)
  BY ServerInit
<1>2. ServerInv(w) /\ [Next]_vars => ServerInv(w)'
  BY SMTT(30), ServerStep
<1>3. ServerInv(w) => CellExclusive
  <2> SUFFICES ASSUME ServerInv(w), NEW p \in Producers, ppc[p] \in Storing
               PROVE  /\ \A q \in Producers \ {p} :
                           ppc[q] \in Storing => Slot(ppos[q]) # Slot(ppos[p])
                      /\ \A d \in Drainers : dpc[d] = "free" => dslot[d] # Slot(ppos[p])
    BY DEF CellExclusive
  <2>1. /\ sequence[Slot(ppos[p])] = ppos[p] /\ claims[ppos[p] + 1] = <<p, pushed[p]>>
        /\ ppos[p] \in Nat
    BY Zenon DEF ServerInv, Producing, Pushing, Types
  <2>2. ASSUME NEW q \in Producers \ {p}, ppc[q] \in Storing
        PROVE  Slot(ppos[q]) # Slot(ppos[p])
    <3>1. sequence[Slot(ppos[q])] = ppos[q] /\ claims[ppos[q] + 1] = <<q, pushed[q]>>
      <4>1. Pushing(w, q)
        BY Zenon DEF ServerInv, Producing
      <4> QED
        BY Zenon, <2>2, <4>1 DEF Pushing
    <3>2. ppos[p] # ppos[q]
      BY <2>1, <3>1
    <3> QED
      BY SMTT(30), <2>1, <3>1, <3>2
  <2>3. ASSUME NEW d \in Drainers, dpc[d] = "free" PROVE dslot[d] # Slot(ppos[p])
    <3>1. d = w /\ sequence[Slot(dequeue)] = dequeue + 1 /\ dslot[d] = Slot(dequeue) /\ dequeue \in Nat
      BY SMTT(30), <2>3 DEF Drainers, ServerInv, Draining, Types
    <3> SUFFICES ASSUME Slot(dequeue) = Slot(ppos[p]) PROVE FALSE
      BY <3>1
    <3>2. ppos[p] = dequeue + 1
      BY <2>1, <3>1
    <3>3. Slot(dequeue) # Slot(dequeue + 1)
      BY SMTT(30), <3>1, SlotFacts, SlotsAssumption
    <3> QED
      BY SMTT(30), <3>2, <3>3
  <2> QED
    BY SMTT(30), <2>2, <2>3
<1> QED
  BY <1>1, <1>2, <1>3, PTL DEF Spec

\* CursorForward on a server: neither Empty() nor a drain moves the read cursor back.
THEOREM ServerCursorForward ==
  ASSUME NEW w, Workers = {w}, Encoders = {}
  PROVE  Spec => CursorForward
<1>1. Init => ServerInv(w)
  BY ServerInit
<1>2. ServerInv(w) /\ [Next]_vars => ServerInv(w)'
  BY ServerStep
<1>3. ServerInv(w) /\ [Next]_vars => [dequeue' >= dequeue]_dequeue
  <2> SUFFICES ASSUME ServerInv(w), [Next]_vars, dequeue' # dequeue PROVE dequeue' >= dequeue
    OBVIOUS
  <2>1. \A p \in Producers : ~(SendPacket(p) \/ Push(p))
    BY ProducerContext
  <2>2. DrainAdvance(w)
    BY Zenon, <2>1, OtherSteps DEF Quiet, DrainPop, DrainFree, DrainEncode, ringVars
  <2>3. dequeue' = dpos[w] + 1 /\ dpc[w] = "advance"
    BY Zenon, <2>2 DEF DrainAdvance
  <2>4. dpos[w] = dequeue
    BY <2>3, Zenon DEF ServerInv, Draining
  <2>5. dequeue \in Nat
    BY ReadContext, Zenon
  <2> QED
    BY <2>3, <2>4, <2>5
<1> QED
  BY <1>1, <1>2, <1>3, PTL DEF Spec, CursorForward

\* ImplementsFifo on a server: encode() sees what SendPacket accepted, every packet
\* once and in the order of the claims, for any ring and any number of producers.
THEOREM ServerImplementsFifo ==
  ASSUME NEW w, Workers = {w}, Encoders = {}
  PROVE  Spec => ImplementsFifo
<1>1. Init => ServerInv(w)
  BY ServerInit
<1>2. ServerInv(w) /\ [Next]_vars => ServerInv(w)'
  BY ServerStep
<1>3. Init => Fifo!Init
  BY DEF Init, Fifo!Init
<1>4. ServerInv(w) /\ [Next]_vars => [Fifo!Next]_<<claims, drained>>
  <2> SUFFICES ASSUME ServerInv(w), [Next]_vars PROVE [Fifo!Next]_<<claims, drained>>
    OBVIOUS
  <2>1. ASSUME NEW p \in Producers, SendPacket(p) \/ Push(p)
        PROVE  [Fifo!Next]_<<claims, drained>>
    <3>0. drained' = drained
      BY <2>1, ProducerContext
    <3>1. CASE PushClaim(p) /\ enqueue = ppos[p]
      <4>1. claims' = Append(claims, <<p, pushed[p] + 1>>)
        BY <3>1 DEF PushClaim
      <4>2. <<p, pushed[p] + 1>> \in Packet
        <5>1. pushed[p] \in 0..MaxPushes /\ pushed[p] < MaxPushes
          BY Zenon, <3>1 DEF PushClaim, ServerInv, Producing, Pushing, Types
        <5>2. pushed[p] + 1 \in 1..MaxPushes
          BY <5>1, BoundsAssumption
        <5> QED
          BY <5>2 DEF Packet
      <4>3. Len(claims) - Len(drained) < Slots + 1
        <5>1. enqueue < Base(w) + Slots
          BY SMTT(30), <3>1 DEF PushClaim, ServerInv, Producing, Pushing
        <5>2. Len(claims) = enqueue /\ Len(drained) = IF dpc[w] = "encode" THEN dequeue - 1 ELSE dequeue
          BY SMTT(30) DEF ServerInv, Draining, Types
        <5>3. enqueue \in Nat /\ dequeue \in Nat /\ Slots \in Nat
          BY Zenon, ReadContext
        <5>4. Base(w) <= dequeue + 1 /\ (dpc[w] = "encode" => Base(w) = dequeue)
          BY <5>3 DEF Base
        <5>5. Base(w) <= Len(drained) + 1 /\ Base(w) \in Nat
          BY <5>2, <5>3, <5>4 DEF Base
        <5> QED
          BY <5>1, <5>2, <5>3, <5>5
      <4> QED
        BY <3>0, <4>1, <4>2, <4>3 DEF Fifo!Next, Fifo!Send
    <3>2. CASE ~(PushClaim(p) /\ enqueue = ppos[p])
      BY Zenon, <3>0, <3>2, <2>1, ProducerContext DEF PushStore, PushPublish
    <3> QED
      BY <3>1, <3>2
  <2>2. ASSUME \A p \in Producers : ~(SendPacket(p) \/ Push(p))
        PROVE  [Fifo!Next]_<<claims, drained>>
    <3>1. CASE DrainEncode(w)
      <4>1. drained' \in Seq(Packet) /\ claims' = claims /\ Len(drained) < Len(claims)
            /\ Len(drained') = Len(drained) + 1 /\ claims \in Seq(Packet) /\ Len(drained) \in Nat
        <5>1. claims \in Seq(Packet) /\ drained \in Seq(Packet)
          BY ReadContext
        <5>2. drained' \in Seq(Packet)
          BY Zenon, <3>1, EncodeStep DEF ServerInv, Types
        <5>3. drained' = Append(drained, claims[Len(drained) + 1]) /\ claims' = claims
              /\ Len(drained) < Len(claims)
          BY <3>1, EncodeStep
        <5> QED
          BY <5>1, <5>2, <5>3
      <4>2. \A i \in 1..Len(drained') : drained'[i] = claims[i]
        BY Zenon, <3>1, EncodeStep DEF ServerInv, Draining
      <4>3. Len(drained') \in (Len(drained) + 1)..Len(claims)
        BY <4>1
      <4>4. drained' = SubSeq(claims, 1, Len(drained'))
        BY <4>1, <4>2, <4>3
      <4> QED
        BY <4>1, <4>3, <4>4 DEF Fifo!Next, Fifo!Deliver
    <3>2. CASE ~DrainEncode(w)
      BY Zenon, <2>2, <3>2, OtherSteps DEF Quiet, DrainPop, DrainFree, DrainAdvance, producerVars
    <3> QED
      BY <3>1, <3>2
  <2> QED
    BY <2>1, <2>2
<1> QED
  BY <1>1, <1>2, <1>3, <1>4, PTL DEF Spec, ImplementsFifo, Fifo!Spec
=============================================================================
