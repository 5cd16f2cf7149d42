---------------------------- MODULE SessionProofs ----------------------------
(***************************************************************************)
(* The nonces of a session, proved for any streams and any number of        *)
(* packets, counters and lost messages.                                     *)
(***************************************************************************)
EXTENDS SessionCrypto, SequenceTheorems, TLAPS

Items == [id : Nat, stream : Streams, kind : Kinds]

\* What of a session the nonces depend on: its counters, and that the packets in
\* its queue name streams.
Shaped(s) ==
  {"tx", "outbound"} \subseteq DOMAIN s /\ s.tx \in [Streams -> Nat] /\ s.outbound \in Seq(Items)

Stays(s, t) == Shaped(t) /\ t.tx = s.tx

\* A step's result: nothing ciphered goes out and no counter moves, or one message
\* does, under the stream's counter, which moves on.
Ciphers(e, s, r, stream) ==
  /\ r.s.tx = [s.tx EXCEPT ![stream] = @ + 1]
  /\ NoncesOf(r.out) = <<<<TxKey(e), stream, s.tx[stream]>>>>

Goes(e, s, r) ==
  /\ {"s", "out"} \subseteq DOMAIN r
  /\ Shaped(r.s)
  /\ \/ r.s.tx = s.tx /\ NoncesOf(r.out) = <<>>
     \/ \E stream \in Streams : Ciphers(e, s, r, stream)

Nonces == {TxKey(e) : e \in Ends} \X Streams \X Nat

\* Every nonce used is below the counter of its key and stream, and was used once.
NonceInv ==
  /\ DOMAIN sess = Ends
  /\ \A e \in Ends : Shaped(sess[e])
  /\ accepted \in [Ends -> Seq([stream : Streams, kind : Kinds])]
  /\ nonces \in Seq(Nonces)
  /\ \A i \in 1..Len(nonces) : \A e \in Ends, stream \in Streams, c \in Nat :
       nonces[i] = <<TxKey(e), stream, c>> => c < sess[e].tx[stream]
  /\ \A i, j \in 1..Len(nonces) : nonces[i] = nonces[j] => i = j
-----------------------------------------------------------------------------
(* Sessions, and what steps make of them *)

\* No field but tx and outbound matters.
LEMMA FieldsStay ==
  ASSUME NEW s, Shaped(s), NEW x
  PROVE  /\ Stays(s, [s EXCEPT !.alive = x]) /\ Stays(s, [s EXCEPT !.codec = x])
         /\ Stays(s, [s EXCEPT !.ready = x]) /\ Stays(s, [s EXCEPT !.compression = x])
         /\ Stays(s, [s EXCEPT !.sentHandshake = x]) /\ Stays(s, [s EXCEPT !.sentReady = x])
         /\ Stays(s, [s EXCEPT !.negotiated = x]) /\ Stays(s, [s EXCEPT !.peerKey = x])
         /\ Stays(s, [s EXCEPT !.keyFilled = x]) /\ Stays(s, [s EXCEPT !.encrypting = x])
         /\ Stays(s, [s EXCEPT !.rx = x])
  BY DEF Stays, Shaped

\* Leaving a counter alone and then going forward is going forward.
LEMMA StaysThrough ==
  ASSUME NEW e, NEW s, NEW t, NEW r, Stays(s, t), Goes(e, t, r)
  PROVE  Goes(e, s, r)
  BY DEF Stays, Goes, Ciphers

\* A result whose session is changed in another field.
LEMMA GoesThen ==
  ASSUME NEW e, NEW s, NEW r, Goes(e, s, r), NEW t, Stays(r.s, t)
  PROVE  Goes(e, s, [r EXCEPT !.s = t])
<1> DEFINE q == [r EXCEPT !.s = t]
<1>1. {"s", "out"} \subseteq DOMAIN q /\ q.s = t /\ q.out = r.out
  BY DEF Goes
<1> HIDE DEF q
<1>2. Goes(e, s, q)
  BY <1>1 DEF Goes, Stays, Ciphers
<1> QED
  BY <1>2 DEF q

\* An operation that emits nothing uses no nonce.
LEMMA SilentGoes == ASSUME NEW e, NEW s, Shaped(s) PROVE Goes(e, s, Silent(s))
  BY SMTT(30) DEF Goes, Silent, NoncesOf

\* A session that closes itself uses no nonce.
LEMMA ClosedGoes == ASSUME NEW e, NEW s, Shaped(s) PROVE Goes(e, s, Closed(s))
  BY Zenon, FieldsStay DEF Goes, Closed, NoncesOf, Stays

\* MessagePipeline::Encode and EncryptionLayer::HandleOut.
LEMMA EmitGoes ==
  ASSUME NEW e, NEW s, Shaped(s), NEW packet, NEW stream \in Streams, NEW kind
  PROVE  Goes(e, s, Emit(e, s, packet, stream, kind))
<1> DEFINE r == Emit(e, s, packet, stream, kind)
           plain == [packet |-> packet, stream |-> stream, kind |-> kind, mode |-> "plain"]
           gcm == [packet |-> packet, stream |-> stream, kind |-> kind, mode |-> "gcm",
                   key |-> TxKey(e), counter |-> s.tx[stream]]
<1>1. CASE r = [s |-> s, out |-> <<>>]
  BY <1>1 DEF Goes, NoncesOf
<1>2. CASE r = [s |-> s, out |-> <<plain>>]
  <2>1. NoncesOf(<<plain>>) = <<>>
    BY DEF NoncesOf
  <2> HIDE DEF plain, r
  <2>2. Goes(e, s, r)
    BY <1>2, <2>1 DEF Goes
  <2> QED
    BY <2>2 DEF r
<1>3. CASE r = [s |-> [s EXCEPT !.tx = NextCounter(@, stream)], out |-> <<gcm>>]
  <2>1. NoncesOf(<<gcm>>) = <<<<TxKey(e), stream, s.tx[stream]>>>>
    BY DEF NoncesOf
  <2>2. [s EXCEPT !.tx = NextCounter(@, stream)] = [s EXCEPT !.tx = [s.tx EXCEPT ![stream] = @ + 1]]
    BY DEF NextCounter
  <2> DEFINE u == [s EXCEPT !.tx = [s.tx EXCEPT ![stream] = @ + 1]]
  <2>3. [s.tx EXCEPT ![stream] = @ + 1] \in [Streams -> Nat]
    BY DEF Shaped
  <2>4. Shaped(u) /\ u.outbound = s.outbound /\ u.tx = [s.tx EXCEPT ![stream] = @ + 1]
    BY <2>3 DEF Shaped
  <2>5. r.s = u /\ r.out = <<gcm>> /\ {"s", "out"} \subseteq DOMAIN r
    BY <1>3, <2>2
  <2> HIDE DEF gcm, r, u
  <2>6. Goes(e, s, r)
    BY Zenon, <2>1, <2>4, <2>5 DEF Goes, Ciphers
  <2> QED
    BY <2>6 DEF r
<1> QED
  BY <1>1, <1>2, <1>3 DEF Emit

\* SendHandshake emits at most one message, under the next counter.
LEMMA SendHandshakeGoes ==
  ASSUME NEW e, NEW s, Shaped(s) PROVE Goes(e, s, SendHandshake(e, s))
<1> DEFINE packet == [type |-> "handshake", key |-> e = "initiator" \/ s.want,
                      encryption |-> s.want, compression |-> s.compression]
           sent == Emit(e, s, packet, 0, "ordered")
           t == [sent.s EXCEPT !.sentHandshake = TRUE]
<1>1. Goes(e, s, sent)
  BY CryptoAssumption, EmitGoes
<1>2. SendHandshake(e, s) = [sent EXCEPT !.s = t]
  BY Zenon DEF SendHandshake
<1> HIDE DEF sent
<1>3. Stays(sent.s, t)
  BY Zenon, <1>1, FieldsStay DEF Goes
<1> HIDE DEF t
<1> QED
  BY <1>1, <1>2, <1>3, GoesThen

\* SendReady emits one message under the next counter, or nothing.
LEMMA SendReadyGoes ==
  ASSUME NEW e, NEW s, Shaped(s) PROVE Goes(e, s, SendReady(e, s))
<1> DEFINE u == [s EXCEPT !.encrypting = s.keyFilled]
           sent == Emit(e, u, [type |-> "ready"], 0, "ordered")
           t == [sent.s EXCEPT !.sentReady = TRUE]
<1>1. Stays(s, u) /\ Shaped(u)
  BY Zenon, FieldsStay DEF Stays
<1>2. SendReady(e, s) = [sent EXCEPT !.s = t]
  BY Zenon DEF SendReady
<1> HIDE DEF u
<1>3. Goes(e, u, sent)
  BY <1>1, CryptoAssumption, EmitGoes
<1> HIDE DEF sent
<1>4. Goes(e, s, sent)
  BY <1>1, <1>3, StaysThrough
<1>5. Stays(sent.s, t)
  BY Zenon, <1>4, FieldsStay DEF Goes
<1> HIDE DEF t
<1> QED
  BY <1>2, <1>4, <1>5, GoesThen

\* The answer to a handshake emits at most one message, under the next counter.
LEMMA AnswerGoes ==
  ASSUME NEW e, NEW s, Shaped(s) PROVE Goes(e, s, Answer(e, s))
  BY SendHandshakeGoes, SendReadyGoes, SilentGoes DEF Answer

\* A handshake packet is answered under the next counter, or with nothing.
LEMMA OnHandshakePacketGoes ==
  ASSUME NEW e, NEW s, Shaped(s), NEW packet, NEW r \in OnHandshakePacket(e, s, packet)
  PROVE  Goes(e, s, r)
<1> DEFINE adopted == Adopted(e, s, packet)
           settled == [adopted EXCEPT !.negotiated = TRUE]
           keyed == [settled EXCEPT !.peerKey = TRUE, !.keyFilled = TRUE]
           failed == [adopted EXCEPT !.peerKey = TRUE]
<1>1. r \in {Closed(s), Answer(e, settled), SendReady(e, settled), Silent(settled),
             Closed(adopted), Answer(e, keyed), Closed(failed)}
  BY Zenon DEF OnHandshakePacket
<1>2. Stays(s, adopted)
  BY Zenon, FieldsStay DEF Adopted, Stays
<1> HIDE DEF adopted
<1>3. Stays(adopted, settled) /\ Stays(adopted, failed)
  BY Zenon, <1>2, FieldsStay DEF Stays
<1>4. keyed = [[settled EXCEPT !.peerKey = TRUE] EXCEPT !.keyFilled = TRUE]
  BY Zenon
<1> HIDE DEF settled, failed, keyed
<1> DEFINE half == [settled EXCEPT !.peerKey = TRUE]
<1>5. Stays(settled, half)
  BY Zenon, <1>3, FieldsStay DEF Stays
<1>6. keyed = [half EXCEPT !.keyFilled = TRUE]
  BY <1>4
<1> HIDE DEF half
<1>7. Stays(half, keyed)
  BY Zenon, <1>5, <1>6, FieldsStay DEF Stays
<1>8. \A t \in {s, adopted, settled, keyed, failed} : Stays(s, t) /\ Shaped(t)
  BY <1>2, <1>3, <1>5, <1>7 DEF Stays
<1>9. PICK t \in {s, adopted, settled, keyed, failed} :
        r \in {Closed(t), Answer(e, t), SendReady(e, t), Silent(t)}
  BY <1>1
<1>10. Goes(e, t, r)
  BY <1>8, <1>9, ClosedGoes, AnswerGoes, SendReadyGoes, SilentGoes
<1> QED
  BY <1>8, <1>10, StaysThrough

\* A ready packet is answered under the next counter, or with nothing.
LEMMA OnAcknowledgePacketGoes ==
  ASSUME NEW e, NEW s, Shaped(s) PROVE Goes(e, s, OnAcknowledgePacket(e, s))
<1>1. CASE ~s.negotiated
  BY <1>1, ClosedGoes DEF OnAcknowledgePacket
<1>2. CASE s.negotiated
  <2> DEFINE answered == IF s.sentReady THEN Silent(s) ELSE SendReady(e, s)
             u == [answered.s EXCEPT !.codec = "none"]
             t == [u EXCEPT !.ready = answered.s.alive]
  <2>1. Goes(e, s, answered)
    BY SilentGoes, SendReadyGoes
  <2>2. OnAcknowledgePacket(e, s) = [answered EXCEPT !.s.codec = "none", !.s.ready = answered.s.alive]
    BY Zenon, <1>2 DEF OnAcknowledgePacket
  <2> HIDE DEF answered
  <2>3. [answered EXCEPT !.s.codec = "none", !.s.ready = answered.s.alive]
          = [[answered EXCEPT !.s = u] EXCEPT !.s = [[answered EXCEPT !.s = u].s EXCEPT !.ready = answered.s.alive]]
    BY Zenon
  <2>4. Stays(answered.s, u)
    BY Zenon, <2>1, FieldsStay DEF Goes
  <2>5. Stays(u, t)
    BY Zenon, <2>4, FieldsStay DEF Stays
  <2> DEFINE half == [answered EXCEPT !.s = u]
  <2>6. Goes(e, s, half)
    BY <2>1, <2>4, GoesThen
  <2>7. half.s = u
    BY <2>1 DEF Goes
  <2>8. OnAcknowledgePacket(e, s) = [half EXCEPT !.s = t]
    BY <2>2, <2>3, <2>7
  <2> HIDE DEF half, t, u
  <2> QED
    BY <2>5, <2>6, <2>7, <2>8, GoesThen
<1> QED
  BY <1>1, <1>2

\* Whatever packet is handled, nonces are only taken from the counters, in order.
LEMMA DispatchGoes ==
  ASSUME NEW e, NEW s, Shaped(s), NEW packet, NEW r \in Dispatch(e, s, packet)
  PROVE  Goes(e, s, r)
  BY SilentGoes, OnHandshakePacketGoes, OnAcknowledgePacketGoes DEF Dispatch
-----------------------------------------------------------------------------
(* Nonces *)

\* The two ends seal with different keys, one for each direction.
LEMMA KeysDiffer == \A d, e \in Ends : TxKey(d) = TxKey(e) => d = e
  BY DEF TxKey, Ends

\* EncodeAndSend commits what a step made: a nonce that is used is a new one.
LEMMA CommitKeeps ==
  ASSUME NonceInv, NEW e \in Ends, NEW r, NEW towards, Commit(e, r, towards), Goes(e, sess[e], r),
         accepted' = accepted
  PROVE  NonceInv'
<1> USE DEF NonceInv
<1>1. sess' = [sess EXCEPT ![e] = r.s] /\ nonces' = nonces \o NoncesOf(r.out)
  BY DEF Commit
<1>2. DOMAIN sess' = Ends /\ sess'[e] = r.s /\ \A d \in Ends : d # e => sess'[d] = sess[d]
  BY <1>1
<1>3. \A d \in Ends : Shaped(sess'[d])
  BY <1>2 DEF Goes
<1>4. CASE r.s.tx = sess[e].tx /\ NoncesOf(r.out) = <<>>
  <2>1. nonces' = nonces
    BY <1>1, <1>4, ConcatEmptySeq
  <2>2. \A d \in Ends : sess'[d].tx = sess[d].tx
    BY <1>2, <1>4
  <2> QED
    BY Zenon, <1>2, <1>3, <2>1, <2>2
<1>5. ASSUME NEW stream \in Streams, Ciphers(e, sess[e], r, stream) PROVE NonceInv'
  <2> DEFINE c == sess[e].tx[stream]
             new == <<TxKey(e), stream, c>>
             n == Len(nonces)
  <2>1. nonces' = nonces \o <<new>> /\ r.s.tx = [sess[e].tx EXCEPT ![stream] = @ + 1]
    BY <1>1, <1>5 DEF Ciphers
  <2>2. c \in Nat /\ new \in Nonces
    BY DEF Shaped, Nonces
  <2>3. <<new>> \in Seq(Nonces) /\ Len(<<new>>) = 1 /\ <<new>>[1] = new
    BY <2>2
  <2>4. n \in Nat
    OBVIOUS
  <2>5. \A d \in Ends, st \in Streams :
          /\ sess[d].tx[st] \in Nat /\ sess'[d].tx[st] \in Nat
          /\ sess'[d].tx[st] = IF d = e /\ st = stream THEN c + 1 ELSE sess[d].tx[st]
    BY SMTT(30), <1>2, <1>3, <2>1 DEF Shaped
  <2>6. \A i \in 1..n : nonces[i] # new
    BY <2>2
  <2> HIDE DEF new
  <2>7. /\ nonces' \in Seq(Nonces) /\ Len(nonces') = n + 1
        /\ \A i \in 1..(n + 1) : nonces'[i] = IF i <= n THEN nonces[i] ELSE new
    BY <2>1, <2>3, <2>4, ConcatProperties
  <2>8. ASSUME NEW i \in 1..Len(nonces'), NEW d \in Ends, NEW st \in Streams, NEW k \in Nat,
               nonces'[i] = <<TxKey(d), st, k>>
        PROVE  k < sess'[d].tx[st]
    <3>1. CASE i <= n
      <4>1. k < sess[d].tx[st]
        BY SMTT(30), <2>4, <2>7, <2>8, <3>1
      <4>2. /\ sess'[d].tx[st] \in Nat /\ sess[d].tx[st] \in Nat
            /\ sess'[d].tx[st] = sess[d].tx[st] \/ sess'[d].tx[st] = sess[d].tx[st] + 1
        BY <2>5
      <4> QED
        BY <4>1, <4>2
    <3>2. CASE ~(i <= n)
      <4>1. <<TxKey(d), st, k>> = <<TxKey(e), stream, c>>
        BY SMTT(30), <2>4, <2>7, <2>8, <3>2 DEF new
      <4>2. d = e /\ st = stream /\ k = c
        BY <4>1, KeysDiffer
      <4> QED
        BY <2>2, <2>5, <4>2
    <3> QED
      BY <3>1, <3>2
  <2>9. ASSUME NEW i \in 1..Len(nonces'), NEW j \in 1..Len(nonces'), nonces'[i] = nonces'[j] PROVE i = j
    BY <2>4, <2>6, <2>7, <2>9
  <2> QED
    BY Zenon, <1>2, <1>3, <2>7, <2>8, <2>9
<1> QED
  BY Zenon, <1>4, <1>5 DEF Goes
-----------------------------------------------------------------------------
(* The steps *)

\* Nothing is sealed before a session starts.
LEMMA NoncesStart == Init => NonceInv
<1> SUFFICES ASSUME Init PROVE NonceInv
  OBVIOUS
<1> DEFINE f == FreshSession("initiator", TRUE)
           opening == SendHandshake("initiator", f)
<1>1. \A e \in Ends, want \in BOOLEAN : Shaped(FreshSession(e, want))
  BY DEF FreshSession, Shaped
<1>2. Shaped(f) /\ f.tx = [st \in Streams |-> 0]
  BY Zenon, <1>1 DEF Ends, FreshSession
<1> HIDE DEF f
<1>3. Goes("initiator", f, opening)
  BY <1>2, SendHandshakeGoes
<1>4. PICK want \in Encryption :
        sess = [e \in Ends |-> IF e = "initiator" THEN opening.s ELSE FreshSession(e, want)]
  BY Zenon DEF Init, f
<1> HIDE DEF opening
<1>5. \A e \in Ends : Shaped(sess[e])
  BY <1>1, <1>3, <1>4, CryptoAssumption DEF Goes
<1>6. DOMAIN sess = Ends
  BY <1>4
<1>7. accepted \in [Ends -> Seq([stream : Streams, kind : Kinds])]
  <2>1. accepted = [e \in Ends |-> <<>>]
    BY DEF Init
  <2>2. <<>> \in Seq([stream : Streams, kind : Kinds])
    OBVIOUS
  <2> QED
    BY Zenon, <2>1, <2>2
<1>8. nonces \in Seq(Nonces) /\ 1..Len(nonces) = {}
  <2>1. nonces = <<>>
    BY DEF Init
  <2> QED
    BY <2>1
<1> QED
  BY Zenon, <1>5, <1>6, <1>7, <1>8 DEF NonceInv

\* Every step of either session, or of the network, keeps the invariant.
LEMMA NoncesStep == NonceInv /\ [Next]_vars => NonceInv'
<1> SUFFICES ASSUME NonceInv, [Next]_vars PROVE NonceInv'
  OBVIOUS
<1>1. ASSUME NEW e \in Ends, NEW i \in Receivable(e), Receive(e, i) PROVE NonceInv'
  <2> DEFINE m == wire[e][i]
             rest == RemoveAt(wire[e], i)
             s == sess[e]
             t == Decrypted(s, m)
  <2>1. Shaped(s) /\ accepted' = accepted
    BY <1>1 DEF NonceInv, Receive
  <2>2. \/ \E result \in Dispatch(e, t, m.packet) : Commit(e, result, rest)
        \/ Commit(e, Silent(s), rest)
    BY Zenon, <1>1 DEF Receive
  <2>3. Stays(s, t)
    <3> DEFINE rx == [s.rx EXCEPT ![RxStream(m.stream)] = Accept(@, m.counter)]
    <3>1. t = s \/ t = [s EXCEPT !.rx = rx]
      BY Zenon DEF Decrypted
    <3> HIDE DEF rx, t, s
    <3>2. Stays(s, s) /\ Stays(s, [s EXCEPT !.rx = rx])
      BY Zenon, <2>1, FieldsStay DEF Stays
    <3> QED
      BY <3>1, <3>2
  <2> HIDE DEF t, m, rest
  <2>4. CASE Commit(e, Silent(s), rest)
    BY <2>1, <2>4, SilentGoes, CommitKeeps
  <2>5. ASSUME NEW result \in Dispatch(e, t, m.packet), Commit(e, result, rest) PROVE NonceInv'
    <3>1. Goes(e, t, result)
      BY <2>3, DispatchGoes DEF Stays
    <3>2. Goes(e, s, result)
      BY <2>3, <3>1, StaysThrough
    <3> QED
      BY <2>1, <2>5, <3>2, CommitKeeps
  <2> QED
    BY SMTT(30), <2>2, <2>4, <2>5
<1>2. ASSUME NEW e \in Ends, DrainOutbound(e) PROVE NonceInv'
  <2> DEFINE item == Head(sess[e].outbound)
             s == [sess[e] EXCEPT !.outbound = Tail(sess[e].outbound)]
             packet == [type |-> "app", id |-> item.id]
             r == Emit(e, s, packet, item.stream, item.kind)
  <2>1. sess[e].outbound # <<>> /\ Commit(e, r, wire[e]) /\ accepted' = accepted
    BY Zenon, <1>2 DEF DrainOutbound
  <2>2. Shaped(sess[e])
    BY DEF NonceInv
  <2>3. item \in Items /\ Tail(sess[e].outbound) \in Seq(Items)
    BY <2>1, <2>2, HeadTailProperties DEF Shaped
  <2>4. Shaped(s) /\ s.tx = sess[e].tx
    BY <2>2, <2>3 DEF Shaped
  <2>5. item.stream \in Streams
    BY <2>3 DEF Items
  <2> HIDE DEF s, item, packet
  <2>6. Goes(e, s, r)
    BY <2>4, <2>5, EmitGoes
  <2> HIDE DEF r
  <2>7. Goes(e, sess[e], r)
    BY <2>4, <2>6, StaysThrough DEF Stays
  <2> QED
    BY <2>1, <2>7, CommitKeeps
<1>3. ASSUME NEW e \in Ends, NEW stream \in Streams, NEW kind \in Kinds, SendPacket(e, stream, kind)
      PROVE  NonceInv'
  <2> DEFINE item == [id |-> Len(accepted[e]) + 1, stream |-> stream, kind |-> kind]
             t == [sess[e] EXCEPT !.outbound = Append(sess[e].outbound, item)]
  <2>1. /\ sess' = [sess EXCEPT ![e] = t] /\ nonces' = nonces
        /\ accepted' = [accepted EXCEPT ![e] = Append(@, [stream |-> stream, kind |-> kind])]
    BY Zenon, <1>3 DEF SendPacket
  <2>2. accepted \in [Ends -> Seq([stream : Streams, kind : Kinds])] /\ Shaped(sess[e]) /\ DOMAIN sess = Ends
    BY Zenon DEF NonceInv
  <2>3. accepted' \in [Ends -> Seq([stream : Streams, kind : Kinds])]
    <3> DEFINE T == [stream : Streams, kind : Kinds]
               x == [stream |-> stream, kind |-> kind]
    <3>1. x \in T
      OBVIOUS
    <3>2. accepted[e] \in Seq(T)
      BY Zenon, <2>2
    <3>3. accepted \in [Ends -> Seq(T)] /\ accepted' = [accepted EXCEPT ![e] = Append(accepted[e], x)]
      BY Zenon, <2>1, <2>2
    <3> HIDE DEF T, x
    <3>4. Append(accepted[e], x) \in Seq(T)
      BY <3>1, <3>2, AppendProperties
    <3>5. accepted' \in [Ends -> Seq(T)]
      BY <3>3, <3>4
    <3> QED
      BY Zenon, <3>5 DEF T
  <2>4. item \in Items
    BY <2>2 DEF Items
  <2> HIDE DEF item
  <2>5. Append(sess[e].outbound, item) \in Seq(Items)
    BY <2>2, <2>4, AppendProperties DEF Shaped
  <2>6. Shaped(t) /\ t.tx = sess[e].tx
    BY <2>2, <2>5 DEF Shaped
  <2> HIDE DEF t
  <2>7. /\ DOMAIN sess' = Ends
        /\ \A d \in Ends : Shaped(sess'[d]) /\ sess'[d].tx = sess[d].tx
    BY <2>1, <2>2, <2>6 DEF NonceInv
  <2> QED
    BY Zenon, <2>1, <2>3, <2>7 DEF NonceInv
<1>4. ASSUME NEW e \in Ends, ConnectEvent(e) \/ Close(e) PROVE NonceInv'
  <2> DEFINE t == IF ConnectEvent(e) THEN [sess[e] EXCEPT !.codec = "app"]
                                     ELSE [sess[e] EXCEPT !.alive = FALSE]
  <2>1. sess' = [sess EXCEPT ![e] = t] /\ UNCHANGED <<accepted, nonces>>
    BY Zenon, <1>4 DEF ConnectEvent, Close
  <2>2. Shaped(t) /\ t.tx = sess[e].tx
    BY Zenon, FieldsStay DEF NonceInv, Stays
  <2> HIDE DEF t
  <2>3. /\ DOMAIN sess' = Ends
        /\ \A d \in Ends : Shaped(sess'[d]) /\ sess'[d].tx = sess[d].tx
    BY <2>1, <2>2 DEF NonceInv
  <2> QED
    BY Zenon, <2>1, <2>3 DEF NonceInv
<1>5. ASSUME NEW e \in Ends, NEW i \in DOMAIN wire[e], Lose(e, i) PROVE NonceInv'
  BY Zenon, <1>5 DEF Lose, NonceInv
<1>6. CASE UNCHANGED vars
  BY Zenon, <1>6 DEF vars, NonceInv
<1> QED
  BY SMTT(30), <1>1, <1>2, <1>3, <1>4, <1>5, <1>6 DEF Next

\* No (key, nonce) pair is used twice, over both directions, all streams and any
\* number of packets (encryption.h, "the two directions must never share a key";
\* EncryptionLayer::HandleOut, which never lets a counter wrap).
THEOREM NoncesUniqueTheorem == Spec => []NoncesUnique
<1>1. NonceInv => NoncesUnique
  BY DEF NonceInv, NoncesUnique, IsInjective
<1> QED
  BY <1>1, NoncesStart, NoncesStep, PTL DEF Spec
=============================================================================
