--------------------------- MODULE SessionCrypto ---------------------------
(***************************************************************************)
(* The two ends of one session from construction to application traffic:    *)
(* the key exchange of EncryptionLayer, the message pipeline around it, the  *)
(* gate PeerSession puts between the two, and the nonce counters and replay *)
(* windows of every ordering domain.  The transport below is the promise    *)
(* TCP and ZDT make: ordered messages of one stream arrive in order, nothing *)
(* is said about two streams, unreliable messages may vanish or overtake.   *)
(***************************************************************************)
EXTENDS ReplayWindow, Sequences, SequencesExt, FiniteSets

CONSTANTS Streams,        \* ordering domains: {0} on TCP, channels on ZDT
          Kinds,          \* delivery options in use: "ordered", "unreliable"
          Encryption,     \* CommonOptions::encryption of the accepting side, any of
          Compression,    \* the accepting side's compression
          EarlySend,      \* whether a client sends before its connect event
          MayFail,        \* whether keys may fail and ends may close
          MaxCounter,     \* kMaxCounter, 2^56 - 1 in the code
          MaxSends        \* bound: packets the two applications send

ASSUME CryptoAssumption == 0 \in Streams /\ Encryption \subseteq BOOLEAN

VARIABLES sess,      \* per end: what the session and its layers hold
          wire,      \* per end: encoded messages in flight towards it
          accepted,  \* history, per end: packets SendPacket took, in order
          handled,   \* history, per end: packets its application handled
          refused,   \* history, per end: messages the cipher turned away
          nonces     \* history: (key, stream, counter) in order of use

vars == <<sess, wire, accepted, handled, refused, nonces>>

Ends == {"initiator", "acceptor"}
Peer(e) == CHOOSE p \in Ends : p # e

\* DeriveDirectionalKeys: one key per direction, told apart by is_initiator().
TxKey_Shared(e) == "initiator to acceptor"

TxKey(e) ==
  IF e = "initiator" THEN "initiator to acceptor" ELSE "acceptor to initiator"

RxKey(e) == TxKey(Peer(e))

-----------------------------------------------------------------------------
\* Sending: MessagePipeline::Encode and EncryptionLayer::HandleOut.

\* Which packets the installed codec can serialize or recognize.
Knows(codec, type) ==
  \/ codec = "handshake" /\ type \in {"handshake", "ready"}
  \/ codec = "app" /\ type = "app"

NextCounter(counters, stream) == [counters EXCEPT ![stream] = @ + 1]

\* HandleOut refuses to send rather than let a counter wrap.
Exhausted(counters, stream) == counters[stream] = MaxCounter

\* A session together with what it has just put on the wire.
Emit(e, s, packet, stream, kind) ==
  IF ~s.alive \/ ~Knows(s.codec, packet.type) THEN [s |-> s, out |-> <<>>]
  ELSE IF ~s.encrypting
  THEN [s |-> s, out |-> <<[packet |-> packet, stream |-> stream, kind |-> kind, mode |-> "plain"]>>]
  ELSE IF Exhausted(s.tx, stream) THEN [s |-> s, out |-> <<>>]
  ELSE [s |-> [s EXCEPT !.tx = NextCounter(@, stream)],
        out |-> <<[packet |-> packet, stream |-> stream, kind |-> kind, mode |-> "gcm",
                   key |-> TxKey(e), counter |-> s.tx[stream]]>>]

SendHandshake(e, s) ==
  LET packet == [type |-> "handshake", key |-> e = "initiator" \/ s.want,
                 encryption |-> s.want, compression |-> s.compression]
      sent == Emit(e, s, packet, 0, "ordered")
  IN [sent EXCEPT !.s.sentHandshake = TRUE]

SendReady_Plain(e, s) ==
  LET sent == Emit(e, s, [type |-> "ready"], 0, "ordered")
  IN [sent EXCEPT !.s.sentReady = TRUE, !.s.encrypting = s.keyFilled]

SendReady(e, s) ==
  LET sent == Emit(e, [s EXCEPT !.encrypting = s.keyFilled], [type |-> "ready"], 0, "ordered")
  IN [sent EXCEPT !.s.sentReady = TRUE]

Closed(s) == [s |-> [s EXCEPT !.alive = FALSE], out |-> <<>>]
Silent(s) == [s |-> s, out |-> <<>>]

-----------------------------------------------------------------------------
\* Receiving: HandleDecrypt, then the handlers of the key exchange.

\* One replay window per ordering domain.
RxStream(stream) == stream

Decrypts(e, s, m) ==
  \/ m.mode = "plain" /\ ~s.keyFilled
  \/ /\ m.mode = "gcm" /\ s.keyFilled /\ m.key = RxKey(e)
     /\ Admits(s.rx[RxStream(m.stream)], m.counter)

Decrypted(s, m) ==
  IF m.mode = "plain" THEN s
  ELSE [s EXCEPT !.rx[RxStream(m.stream)] = Accept(@, m.counter)]

\* What either side does once the mode is settled.
Answer(e, s) ==
  IF ~s.sentHandshake THEN SendHandshake(e, s)
  ELSE IF ~s.sentReady THEN SendReady(e, s)
  ELSE Silent(s)

\* The accepting side states the parameters outright; the initiator adopts them.
Adopted_Own(e, s, packet) == s

Adopted(e, s, packet) ==
  IF e = "initiator" THEN [s EXCEPT !.compression = packet.compression] ELSE s

\* The outcomes of OnHandshakePacket; the second is a key that cannot be made.
OnHandshakePacket(e, s, packet) ==
  IF s.peerKey \/ s.keyFilled THEN {Closed(s)}
  ELSE LET adopted == Adopted(e, s, packet)
           encrypts == IF e = "initiator" THEN packet.encryption ELSE s.want
           settled == [adopted EXCEPT !.negotiated = TRUE]
           keyed == [settled EXCEPT !.peerKey = TRUE, !.keyFilled = TRUE]
       IN IF ~encrypts
          THEN {IF e = "acceptor" THEN Answer(e, settled)
                ELSE IF ~s.sentReady THEN SendReady(e, settled) ELSE Silent(settled)}
          ELSE IF ~packet.key THEN {Closed(adopted)}
          ELSE {Answer(e, keyed)}
                 \cup (IF MayFail THEN {Closed([adopted EXCEPT !.peerKey = TRUE])} ELSE {})

\* PeerSession::Ready publishes the session, with its codec already cleared.
OnAcknowledgePacket_Mute(e, s) ==
  IF ~s.negotiated THEN Closed(s)
  ELSE [Silent(s) EXCEPT !.s.codec = "none", !.s.ready = s.alive]

OnAcknowledgePacket(e, s) ==
  IF ~s.negotiated THEN Closed(s)
  ELSE LET answered == IF s.sentReady THEN Silent(s) ELSE SendReady(e, s)
       IN [answered EXCEPT !.s.codec = "none", !.s.ready = answered.s.alive]

\* Codec::Deserialize skips a packet it has no serializer for.
Dispatch(e, s, packet) ==
  IF ~Knows(s.codec, packet.type) THEN {Silent(s)}
  ELSE IF packet.type = "handshake" THEN OnHandshakePacket(e, s, packet)
  ELSE IF packet.type = "ready" THEN {OnAcknowledgePacket(e, s)}
  ELSE {Silent(s)}

-----------------------------------------------------------------------------
\* The steps.

\* The nonce of the message a step puts on the wire, if it is a ciphered one.
NoncesOf(out) ==
  IF out # <<>> /\ out[1].mode = "gcm" THEN <<<<out[1].key, out[1].stream, out[1].counter>>>> ELSE <<>>

\* Commits what a step of end e made of its session and put on the wire, with
\* towards being what is left of the messages on their way to e.
Commit(e, result, towards) ==
  /\ sess' = [sess EXCEPT ![e] = result.s]
  /\ wire' = [wire EXCEPT ![e] = towards, ![Peer(e)] = @ \o result.out]
  /\ nonces' = nonces \o NoncesOf(result.out)

FreshSession(e, want) ==
  [alive |-> TRUE, codec |-> "handshake", ready |-> FALSE, want |-> e = "initiator" \/ want,
   compression |-> IF e = "initiator" THEN "None" ELSE Compression,
   sentHandshake |-> FALSE, sentReady |-> FALSE, negotiated |-> FALSE,
   peerKey |-> FALSE, keyFilled |-> FALSE, encrypting |-> FALSE,
   tx |-> [st \in Streams |-> 0], rx |-> [st \in Streams |-> FreshWindow],
   outbound |-> <<>>]

\* The initiator's constructor sends its half of the exchange at once.
Init ==
  LET opening == SendHandshake("initiator", FreshSession("initiator", TRUE))
  IN /\ \E want \in Encryption :
          sess = [e \in Ends |-> IF e = "initiator" THEN opening.s ELSE FreshSession(e, want)]
     /\ wire = [e \in Ends |-> IF e = "acceptor" THEN opening.out ELSE <<>>]
     /\ accepted = [e \in Ends |-> <<>>]
     /\ handled = [e \in Ends |-> <<>>]
     /\ refused = [e \in Ends |-> {}]
     /\ nonces = <<>>

\* Nothing is pulled from the transport without somewhere to put it.
Pulls_Always(e) == sess[e].alive

Pulls(e) == sess[e].alive /\ sess[e].codec # "none"

\* A message the transport may hand over next: an ordered one waits for the
\* ordered ones before it on its stream.
Receivable(e) ==
  {i \in DOMAIN wire[e] : wire[e][i].kind = "ordered" =>
     \A j \in 1..(i - 1) : wire[e][j].kind = "ordered" => wire[e][j].stream # wire[e][i].stream}

\* One turn of the receive loop: decode, then dispatch.
Receive(e, i) ==
  LET m == wire[e][i]
      rest == RemoveAt(wire[e], i)
  IN /\ Pulls(e)
     /\ UNCHANGED accepted
     /\ IF Decrypts(e, sess[e], m)
        THEN /\ \E result \in Dispatch(e, Decrypted(sess[e], m), m.packet) : Commit(e, result, rest)
             /\ handled' = IF m.packet.type = "app" /\ sess[e].codec = "app"
                           THEN [handled EXCEPT ![e] = Append(@, m.packet.id)] ELSE handled
             /\ UNCHANGED refused
        ELSE /\ Commit(e, Silent(sess[e]), rest)
             /\ refused' = [refused EXCEPT ![e] = @ \cup {m}]
             /\ UNCHANGED handled

\* The connect event of the server or the client: the application installs
\* its codec and handler.
ConnectEvent(e) ==
  /\ sess[e].alive /\ sess[e].ready /\ sess[e].codec = "none"
  /\ sess' = [sess EXCEPT ![e].codec = "app"]
  /\ UNCHANGED <<wire, accepted, handled, refused, nonces>>

\* SendPacket; a server's application only has the session from its event on.
SendPacket(e, stream, kind) ==
  LET id == Len(accepted[e]) + 1
  IN /\ Len(accepted[e]) + Len(accepted[Peer(e)]) < MaxSends
     /\ sess[e].alive /\ sess[e].ready
     /\ sess[e].codec = "none" => e = "initiator" /\ EarlySend
     /\ sess' = [sess EXCEPT ![e].outbound = Append(@, [id |-> id, stream |-> stream, kind |-> kind])]
     /\ accepted' = [accepted EXCEPT ![e] = Append(@, [stream |-> stream, kind |-> kind])]
     /\ UNCHANGED <<wire, handled, refused, nonces>>

\* DrainOutbound takes one packet; a dead session only releases it.
DrainOutbound(e) ==
  LET item == Head(sess[e].outbound)
      s == [sess[e] EXCEPT !.outbound = Tail(@)]
  IN /\ sess[e].outbound # <<>>
     /\ Commit(e, Emit(e, s, [type |-> "app", id |-> item.id], item.stream, item.kind), wire[e])
     /\ UNCHANGED <<accepted, handled, refused>>

\* The transport below, external to this module.
Lose(e, i) ==
  /\ wire[e][i].kind = "unreliable"
  /\ wire' = [wire EXCEPT ![e] = RemoveAt(@, i)]
  /\ UNCHANGED <<sess, accepted, handled, refused, nonces>>

\* Close() by the application or a connection timeout, or the peer's noticed.
Close(e) ==
  /\ MayFail \/ ~sess[Peer(e)].alive
  /\ sess[e].alive
  /\ sess' = [sess EXCEPT ![e].alive = FALSE]
  /\ UNCHANGED <<wire, accepted, handled, refused, nonces>>

Next ==
  \E e \in Ends :
    \/ \E i \in Receivable(e) : Receive(e, i)
    \/ ConnectEvent(e)
    \/ \E stream \in Streams, kind \in Kinds : SendPacket(e, stream, kind)
    \/ DrainOutbound(e)
    \/ \E i \in DOMAIN wire[e] : Lose(e, i)
    \/ Close(e)

Spec == Init /\ [][Next]_vars

\* The worker of each end keeps processing, the owner fires its connect event
\* and the transport hands over the message at the head.
SessionFair ==
  \A e \in Ends : /\ WF_vars(1 \in Receivable(e) /\ Receive(e, 1))
                  /\ WF_vars(ConnectEvent(e))
                  /\ WF_vars(DrainOutbound(e))

FairSpec == Spec /\ SessionFair

-----------------------------------------------------------------------------
\* Two ready ends run the same mode, the one the accepting side wants, and
\* compress the same way (OnHandshakePacket, "the server states the parameters
\* outright; adopt them").
ModesAgree ==
  (\A e \in Ends : sess[e].ready) =>
     \A e \in Ends : /\ sess[e].encrypting = sess["acceptor"].want
                      /\ sess[e].compression = Compression

\* No (key, nonce) pair is ever used twice, over both directions and all
\* streams (encryption.h, "the two directions must never share a key").
NoncesUnique == IsInjective(nonces)

\* A stream its sender uses for ordered packets only.
OrderedOnly(e, stream) ==
  \A id \in DOMAIN accepted[e] : accepted[e][id].stream = stream => accepted[e][id].kind = "ordered"

\* The cipher refuses nothing a cooperating peer sends on a stream of ordered
\* packets: no plaintext meets a keyed end, no ciphertext an unkeyed one, and no
\* counter looks repeated or too old, whatever the other streams do.
NothingRefused == \A e \in Ends : \A m \in refused[e] : ~OrderedOnly(Peer(e), m.stream)

\* Queued, in flight or handled.
Kept(e, id) ==
  \/ \E i \in DOMAIN sess[e].outbound : sess[e].outbound[i].id = id
  \/ \E i \in DOMAIN wire[Peer(e)] : wire[Peer(e)][i].packet = [type |-> "app", id |-> id]
  \/ \E i \in DOMAIN handled[Peer(e)] : handled[Peer(e)][i] = id

\* While both ends live, an ordered packet that SendPacket accepted is kept, as
\* long as its stream has counters left ("Nothing the peer sends before both are
\* installed is lost", peer_session.h).
NothingLost ==
  (\A e \in Ends : sess[e].alive) =>
    \A e \in Ends : \A id \in DOMAIN accepted[e] :
      /\ accepted[e][id].kind = "ordered"
      /\ ~Exhausted(sess[e].tx, accepted[e][id].stream)
      => Kept(e, id)

\* The same for the stream the handshake itself uses, when it carries ordered
\* packets only: the gate of Process() loses nothing.
GateLosesNothing ==
  (\A e \in Ends : sess[e].alive) =>
    \A e \in Ends : \A id \in DOMAIN accepted[e] :
      /\ accepted[e][id].stream = 0 /\ OrderedOnly(e, 0)
      /\ ~Exhausted(sess[e].tx, 0)
      => Kept(e, id)

\* Two ready ends speak the same mode, and what one sends in order the other
\* neither refuses nor loses at its gate, from the first packet after the
\* handshake on.
StreamsAgree == ModesAgree /\ NothingRefused /\ GateLosesNothing

\* An exchange nobody closes ends with both applications connected
\* (PeerSession::Ready on both ends, then the connect event).
BothConnect ==
  <>(\A e \in Ends : sess[e].codec = "app" \/ \E d \in Ends : ~sess[d].alive)
=============================================================================
