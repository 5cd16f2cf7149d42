----------------------------- MODULE ClientLoop -----------------------------
(***************************************************************************)
(* znet::Client over its TCP backend (client.cc, backend/tcp.cc, task.h,   *)
(* session_encoder.cc): the application's calls on one thread, the loop    *)
(* that Connect() starts on another, and who holds a session and its       *)
(* descriptor.  A transport is shut down when its session closes, and its  *)
(* descriptor is released when the last holder of the session lets go.     *)
(* What a session does inside Process() is SessionCrypto; here it becomes  *)
(* ready or dies.                                                          *)
(***************************************************************************)
EXTENDS Naturals, Sequences, FiniteSets, FiniteSetsExt

CONSTANTS MaxConnects,      \* sessions a behaviour may make
          MaxCalls,         \* Bind() and Disconnect() calls
          HasTimeout        \* ClientConfig::connection_timeout > 0

ASSUME ClientAssumption ==
    MaxConnects \in Nat /\ MaxCalls \in Nat /\ HasTimeout \in BOOLEAN

VARIABLES
    peers,      \* the sessions made so far: [alive, ready, handler, fd, told, released]
    client,     \* [session, encoder, calls, doing]: client_session_, the session
                \* encoder_ drains, calls made, and the call the application is in
    socketOf,   \* the backend: [bound, socket, session, lost]; lost holds the
                \* descriptors whose number it overwrote
    loop        \* task_: [pc, stop]

clientVars == <<peers, client, socketOf, loop>>

NoSession == 0
NoSocket == 0

ClientInit ==
    /\ peers = <<>>
    /\ client = [session |-> NoSession, encoder |-> NoSession, calls |-> 0, doing |-> "nothing"]
    /\ socketOf = [bound |-> FALSE, socket |-> NoSocket, session |-> NoSession, lost |-> {}]
    /\ loop = [pc |-> "none", stop |-> FALSE]

\* A session lives on while something refers to it: the client, the backend,
\* the encoder, or its own handler through the cycle ReleaseHandler() breaks.
Holds(s) == s \in {client.session, client.encoder, socketOf.session} \/ peers[s].handler

InUse == {peers[s].fd : s \in {t \in DOMAIN peers : Holds(t)}}
           \cup socketOf.lost \cup ({socketOf.socket} \ {NoSocket})

NextSocket == Min((1..(Cardinality(InUse) + 1)) \ InUse)

Alive(s) == s # NoSession /\ peers[s].alive

\* What closing session s, if there is one, does to the sessions.
ClosePeer(s) == IF s = NoSession THEN peers ELSE [peers EXCEPT ![s].alive = FALSE]

Calling == client.doing = "nothing"
Counted(c) == [c EXCEPT !.calls = @ + 1]

-----------------------------------------------------------------------------
(* The application's calls *)

\* TCPClientBackend::Bind() makes a socket, whatever it held before.
ClientBind ==
    /\ Calling /\ client.calls < MaxCalls
    /\ socketOf' = [socketOf EXCEPT !.bound = TRUE, !.socket = NextSocket,
                                    !.lost = @ \cup ({socketOf.socket} \ {NoSocket})]
    /\ client' = Counted(client)
    /\ UNCHANGED <<peers, loop>>

\* CleanupSocket: also ends the backend's session.
CleanupSocket ==
    /\ socketOf' = [socketOf EXCEPT !.bound = FALSE, !.socket = NoSocket, !.session = NoSession]
    /\ peers' = ClosePeer(socketOf.session)

\* Bind(ip, port) when bind() fails: the socket it just made is closed again.
ClientBindFails ==
    /\ Calling /\ client.calls < MaxCalls
    /\ socketOf' = [socketOf EXCEPT !.bound = FALSE, !.socket = NoSocket, !.session = NoSession,
                                    !.lost = @ \cup ({socketOf.socket} \ {NoSocket})]
    /\ peers' = ClosePeer(socketOf.session)
    /\ client' = Counted(client)
    /\ UNCHANGED loop

\* Connect() goes ahead unless the loop was not joined yet or the backend's
\* session is alive.
MayConnect ==
    /\ Calling
    /\ loop.pc = "none"
    /\ ~Alive(socketOf.session)
    /\ socketOf.bound

\* connect() fails: always on the invalid socket a first connection leaves.
ConnectFails ==
    /\ MayConnect
    /\ CleanupSocket
    /\ UNCHANGED <<client, loop>>

\* SessionEncoder::Start leaves an encoder alone that is still running.
EncoderStart(s) == IF client.encoder = NoSession THEN s ELSE client.encoder

\* The backend forgets the descriptor it gave the transport.
Handed_Kept == socketOf.socket

Handed == NoSocket

ConnectSucceeds ==
    LET s == Len(peers) + 1
    IN  /\ MayConnect
        /\ socketOf.socket # NoSocket
        /\ s <= MaxConnects
        /\ peers' = Append(peers, [alive |-> TRUE, ready |-> FALSE, handler |-> FALSE,
                                   fd |-> socketOf.socket, told |-> <<>>, released |-> FALSE])
        /\ socketOf' = [socketOf EXCEPT !.socket = Handed, !.session = s]
        /\ client' = [client EXCEPT !.session = s, !.encoder = EncoderStart(s)]
        /\ loop' = [pc |-> "setup", stop |-> FALSE]

\* Disconnect(): close, wake the loop, stop the encoder.
Disconnect ==
    /\ Calling /\ client.calls < MaxCalls
    /\ client.session # NoSession
    /\ peers' = ClosePeer(client.session)
    /\ client' = [Counted(client) EXCEPT !.encoder = NoSession]
    /\ UNCHANGED <<socketOf, loop>>

\* Wait(), and ReleaseSession() past its check, join the loop's thread.
WaitBegins ==
    /\ Calling /\ loop.pc # "none"
    /\ client' = [client EXCEPT !.doing = "wait"]
    /\ UNCHANGED <<peers, socketOf, loop>>

ReleaseBegins ==
    /\ Calling
    /\ client.session # NoSession
    /\ ~peers[client.session].alive
    /\ client' = [client EXCEPT !.doing = "release"]
    /\ UNCHANGED <<peers, socketOf, loop>>

Joinable == loop.pc \in {"none", "ended"}
JoinLoop == loop' = [loop EXCEPT !.pc = "none"]

WaitReturns ==
    /\ client.doing = "wait" /\ Joinable
    /\ JoinLoop
    /\ client' = [client EXCEPT !.doing = "nothing"]
    /\ UNCHANGED <<peers, socketOf>>

ReleaseReturns ==
    LET s == client.session
    IN  /\ client.doing = "release" /\ Joinable
        /\ JoinLoop
        /\ peers' = [peers EXCEPT ![s].handler = FALSE, ![s].released = TRUE]
        /\ client' = [client EXCEPT !.session = NoSession, !.doing = "nothing"]
        /\ socketOf' = IF Alive(socketOf.session) THEN socketOf
                       ELSE [socketOf EXCEPT !.session = NoSession]

\* ~Client: Disconnect(), RequestStop(), join, ReleaseHandler(); then the
\* members go, the backend's session with them.
DestroyBegins ==
    /\ Calling
    /\ peers' = ClosePeer(client.session)
    /\ client' = [client EXCEPT !.encoder = IF client.session = NoSession THEN @ ELSE NoSession,
                                !.doing = "destroy"]
    /\ loop' = [loop EXCEPT !.stop = TRUE]
    /\ UNCHANGED socketOf

DestroyReturns ==
    LET s == client.session
    IN  /\ client.doing = "destroy" /\ Joinable
        /\ JoinLoop
        /\ peers' = IF s = NoSession THEN peers ELSE [peers EXCEPT ![s].handler = FALSE]
        /\ client' = [client EXCEPT !.session = NoSession, !.encoder = NoSession, !.doing = "gone"]
        /\ socketOf' = [socketOf EXCEPT !.session = NoSession]

-----------------------------------------------------------------------------
(* The loop Connect() starts, and what happens to its session *)

BecomesReady ==
    /\ loop.pc = "setup" /\ peers[client.session].alive
    /\ peers' = [peers EXCEPT ![client.session].ready = TRUE]
    /\ UNCHANGED <<client, socketOf, loop>>

PeerLeaves(s) ==
    /\ peers[s].alive
    /\ peers' = ClosePeer(s)
    /\ UNCHANGED <<client, socketOf, loop>>

\* Past connection_timeout the loop closes the session itself.
ConnectionTimeout ==
    /\ HasTimeout
    /\ loop.pc = "setup"
    /\ peers[client.session].alive /\ ~peers[client.session].ready
    /\ peers' = ClosePeer(client.session)
    /\ UNCHANGED <<client, socketOf, loop>>

LeaveSetup ==
    /\ loop.pc = "setup"
    /\ peers[client.session].ready \/ ~peers[client.session].alive \/ loop.stop
    /\ loop' = [loop EXCEPT !.pc = "decide"]
    /\ UNCHANGED <<peers, client, socketOf>>

Tell(s, event) == [peers EXCEPT ![s].told = Append(@, event)]

\* The session that died before it was ready, reported unless it was stopped;
\* otherwise the connected event, in which the application installs a handler
\* that holds its session.
Decide_Silent ==
    LET s == client.session
    IN  /\ loop.pc = "decide"
        /\ IF ~peers[s].alive \/ loop.stop
           THEN /\ UNCHANGED peers
                /\ loop' = [loop EXCEPT !.pc = "ended"]
           ELSE /\ peers' = [Tell(s, "connected") EXCEPT ![s].handler = TRUE]
                /\ loop' = [loop EXCEPT !.pc = "running"]
        /\ UNCHANGED <<client, socketOf>>

Decide ==
    LET s == client.session
    IN  /\ loop.pc = "decide"
        /\ IF ~peers[s].alive \/ loop.stop
           THEN /\ peers' = IF loop.stop THEN peers ELSE Tell(s, "failed")
                /\ loop' = [loop EXCEPT !.pc = "ended"]
           ELSE /\ peers' = [Tell(s, "connected") EXCEPT ![s].handler = TRUE]
                /\ loop' = [loop EXCEPT !.pc = "running"]
        /\ UNCHANGED <<client, socketOf>>

LeaveLoop ==
    LET s == client.session
    IN  /\ loop.pc = "running"
        /\ ~peers[s].alive \/ loop.stop
        /\ peers' = Tell(s, "disconnected")
        /\ loop' = [loop EXCEPT !.pc = "ended"]
        /\ UNCHANGED <<client, socketOf>>

LoopStep == ConnectionTimeout \/ LeaveSetup \/ Decide \/ LeaveLoop

ClientNext ==
    \/ ClientBind \/ ClientBindFails \/ ConnectFails \/ ConnectSucceeds \/ Disconnect
    \/ WaitBegins \/ WaitReturns \/ ReleaseBegins \/ ReleaseReturns
    \/ DestroyBegins \/ DestroyReturns
    \/ BecomesReady \/ (\E s \in DOMAIN peers : PeerLeaves(s)) \/ LoopStep

\* The loop's thread runs; nothing else need happen.
ClientFair == WF_clientVars(LoopStep)

-----------------------------------------------------------------------------
(* "silence here left callers waiting on nothing" (client.cc:126): once the
   loop of a client nobody destroys is over, the application was told the
   outcome of that connection, and of no connection more than one outcome. *)
OutcomeTold ==
    \A s \in DOMAIN peers :
        /\ peers[s].told \in {<<>>, <<"failed">>, <<"connected">>, <<"connected", "disconnected">>}
        /\ (s # client.session \/ Joinable) /\ client.doing \notin {"destroy", "gone"}
              => peers[s].told \in {<<"failed">>, <<"connected", "disconnected">>}

(* "dropping our copy keeps CleanupSocket() from closing whatever later reused
   that number" (tcp.cc:424): no descriptor number has two owners that would
   close it, whatever order sessions end, are released and are replaced in. *)
OneOwner ==
    LET held == {s \in DOMAIN peers : Holds(s)}
    IN  /\ Cardinality({peers[s].fd : s \in held}) = Cardinality(held)
        /\ \A s \in held : peers[s].fd \notin socketOf.lost \cup {socketOf.socket}

(* A connection Connect() started is reported one way or the other when
   connection_timeout is set, unless the client is destroyed. *)
ConnectReported ==
    HasTimeout => \A s \in 1..MaxConnects :
        client.session = s
            ~> (client.doing \in {"destroy", "gone"} \/ (s \in DOMAIN peers /\ peers[s].told # <<>>))

(* Every connection a client starts is accounted for: the application is told
   one outcome, in time, and one owner closes its descriptor (client.cc's
   ClientLoop, Disconnect and ReleaseSession; CleanupSocket in tcp.cc). *)
ConnectionsAccounted == [](OutcomeTold /\ OneOwner) /\ ConnectReported

(* "The transport closes its descriptor when the last holder lets go, and that
   is what frees the local port" (client.h:104): after ReleaseSession() the
   library holds the session no more. *)
ReleasedIsFree == \A s \in DOMAIN peers : peers[s].released => ~Holds(s)
=============================================================================
