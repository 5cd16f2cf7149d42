---------------------------- MODULE SelfManaged ----------------------------
(***************************************************************************)
(* The two ends of a TCP session a hole punch handed back.  Each session    *)
(* drives itself on a thread of its own (peer_session.cc): Process() calls  *)
(* Update(), then Receive() until it returns nothing, and then encodes and  *)
(* sends what the application queued.  RaceCandidatesOnce (p2p/tcp/punch.cc)*)
(* makes the socket blocking before it builds the session, so Receive()     *)
(* returns only with something read.                                        *)
(***************************************************************************)
EXTENDS Naturals, Sequences

CONSTANTS Blocking,         \* what SetSocketBlocking(winner, ...) is given
          MaxSends,         \* messages the application queues at each end
          MaxPings          \* keepalive pings Update() finds due

Ends == {"initiator", "responder"}
OtherEnd(e) == CHOOSE o \in Ends : o # e

VARIABLES queued,           \* per end, what SendPacket() put on outbound_
          sent,             \* per end, how much it queued so far
          stream,           \* per end, the frames on their way to it
          pass,             \* per end, where its Process() is
          pings             \* pings still to come

selfVars == <<queued, sent, stream, pass, pings>>

SelfInit ==
    /\ queued = [e \in Ends |-> <<>>] /\ sent = [e \in Ends |-> 0]
    /\ stream = [e \in Ends |-> <<>>]
    /\ pass = [e \in Ends |-> "update"]
    /\ pings = MaxPings

SendPacket(e) ==
    /\ sent[e] < MaxSends
    /\ sent' = [sent EXCEPT ![e] = @ + 1]
    /\ queued' = [queued EXCEPT ![e] = Append(@, "message")]
    /\ UNCHANGED <<stream, pass, pings>>

Update(e) ==
    /\ pass[e] = "update"
    /\ pass' = [pass EXCEPT ![e] = "receive"]
    /\ \/ UNCHANGED <<stream, pings>>
       \/ /\ pings > 0
          /\ pings' = pings - 1
          /\ stream' = [stream EXCEPT ![OtherEnd(e)] = Append(@, "ping")]
    /\ UNCHANGED <<queued, sent>>

\* A message is dispatched and the next Receive() called; a control frame, or
\* an empty socket that does not block, ends the pass's reading.  A ping is
\* answered at once.
Receive(e) ==
    /\ pass[e] = "receive"
    /\ \/ /\ stream[e] # <<>>
          /\ stream' = [stream EXCEPT ![e] = Tail(@), ![OtherEnd(e)] =
                            IF Head(stream[e]) = "ping" THEN Append(@, "pong") ELSE @]
          /\ pass' = [pass EXCEPT ![e] = IF Head(stream[e]) = "message" THEN "receive" ELSE "drain"]
       \/ /\ stream[e] = <<>> /\ ~Blocking
          /\ pass' = [pass EXCEPT ![e] = "drain"]
          /\ UNCHANGED stream
    /\ UNCHANGED <<queued, sent, pings>>

DrainOutbound(e) ==
    /\ pass[e] = "drain"
    /\ stream' = [stream EXCEPT ![OtherEnd(e)] = @ \o queued[e]]
    /\ queued' = [queued EXCEPT ![e] = <<>>]
    /\ pass' = [pass EXCEPT ![e] = "update"]
    /\ UNCHANGED <<sent, pings>>

Process(e) == Update(e) \/ Receive(e) \/ DrainOutbound(e)

SelfNext == \E e \in Ends : SendPacket(e) \/ Process(e)

\* Each session's thread runs whenever recv() lets it.
SelfSpec == SelfInit /\ [][SelfNext]_selfVars /\ \A e \in Ends : WF_selfVars(Process(e))

-----------------------------------------------------------------------------
(* The session's loop must not park in recv() "and strand everything queued by
   Send() until the peer happened to send something back" (tcp.cc:400): what
   the application queues is put on the wire. *)
QueuedLeaves == \A e \in Ends : queued[e] # <<>> ~> queued[e] = <<>>
=============================================================================
