----------------------------- MODULE ServerLoop -----------------------------
(***************************************************************************)
(* znet::Server over either backend (server.cc, and the thread and socket   *)
(* handling of ZDTServerBackend and TCPServerBackend): the main loop that   *)
(* accepts sessions, drives their handshakes and hands ready ones to a      *)
(* worker, the workers, and Stop() called by application threads while all  *)
(* of it runs.                                                              *)
(*                                                                          *)
(* A tick of a worker is one step, because it holds the lock of its         *)
(* sessions.  What a session does inside Process() is SessionCrypto; here   *)
(* it becomes ready or dies.                                                *)
(***************************************************************************)
EXTENDS Naturals, FiniteSets, Sequences

CONSTANTS Sessions,
          NumWorkers,   \* hardware_concurrency()
          Stoppers,     \* application threads that call Stop() once each
          Plans         \* [backend, cap, stoppers] a behaviour may run under

Workers == 1..NumWorkers
None == "none"
Threads == Stoppers \cup {"main"}

ASSUME ServerAssumption ==
  /\ NumWorkers \in Nat /\ "main" \notin Stoppers /\ IsFiniteSet(Sessions)
  /\ \A p \in Plans : /\ p.backend \in {"ZDT", "TCP"} /\ p.cap \in Nat
                      /\ p.stoppers \subseteq Stoppers

VARIABLES plan,
          sess,      \* per session: where it is and what has become of it
          main,      \* MainProcessor: pc, sessions to promote, the one being
                     \* submitted and to whom, and whether it is shutting down
          worker,    \* per worker: where WorkerLoop is, and its stop flag
          tasks,     \* tasks_: the workers that are left
          backend,   \* is_listening_, is_bind_, the socket, the receive thread
          closing    \* per thread: where it is in ServerBackend::Close

vars == <<plan, sess, main, worker, tasks, backend, closing>>

Init ==
  /\ plan \in Plans
  /\ sess = [s \in Sessions |-> [at |-> None, owner |-> 0, alive |-> FALSE, ready |-> FALSE,
                                 handler |-> FALSE, told |-> <<>>, fin |-> None]]
  /\ main = [pc |-> "off", promote |-> {}, current |-> None, target |-> 0,
           last |-> FALSE]
  /\ worker = [w \in Workers |-> [pc |-> "check", stop |-> FALSE]]
  /\ tasks = Workers
  /\ backend = [listening |-> FALSE, bound |-> TRUE, socket |-> TRUE, receive |-> None]
  /\ closing = [t \in Threads |-> "no"]

At(place) == {s \in Sessions : sess[s].at = place}

\* A worker's SessionSet, and its count.
Held(w) == {s \in At("worker") : sess[s].owner = w}
Count(w) == Cardinality(Held(w))

-----------------------------------------------------------------------------
\* Sessions.

\* PeerSession::Close: a live transport says goodbye if its socket still can.
\* The sessions of a ZDT server share its socket; a TCP session has its own.
Closed(s) ==
  IF ~s.alive THEN s
  ELSE [s EXCEPT !.alive = FALSE,
                 !.fin = IF plan.backend = "TCP" \/ backend.socket THEN "sent" ELSE "lost"]

\* A session nobody refers to any more is closed by its destructor.
Dropped(s) == [Closed(s) EXCEPT !.at = "gone"]

\* The backend has a new connection for Accept().
Arrive(s) ==
  /\ sess[s].at = None
  /\ IF plan.backend = "ZDT" THEN backend.receive = "running" ELSE backend.listening
  /\ sess' = [sess EXCEPT ![s].at = "backlog", ![s].alive = TRUE]
  /\ UNCHANGED <<plan, main, worker, tasks, backend, closing>>

\* The peer goes away, or some thread of the application closes the session.
Die(s) ==
  /\ sess[s].alive
  /\ sess' = [sess EXCEPT ![s].alive = FALSE]
  /\ UNCHANGED <<plan, main, worker, tasks, backend, closing>>

\* What CleanupAndProcessSessions makes of a session that is dead.
Cleaned_Unpaired(s) ==
  [s EXCEPT !.at = "gone", !.handler = FALSE, !.told = Append(@, "disconnected")]

Cleaned(s) ==
  [s EXCEPT !.at = "gone", !.handler = FALSE,
            !.told = IF s.ready THEN Append(@, "disconnected") ELSE @]

-----------------------------------------------------------------------------
\* ServerBackend::Listen, StopReceiving and Close, by thread t.

\* Server::Listen, with the backend's.
Listen ==
  /\ main.pc = "off" /\ backend.bound
  /\ backend' = [backend EXCEPT !.listening = TRUE, !.receive = "running"]
  /\ main' = [main EXCEPT !.pc = "loop"]
  /\ UNCHANGED <<plan, sess, worker, tasks, closing>>

\* receive_thread_mutex_ of the ZDT backend; the TCP backend has none.
MayJoin_Unlocked(t) == TRUE

MayJoin(t) == plan.backend = "ZDT" => \A u \in Threads \ {t} : closing[u] # "join"

\* StopReceiving raises the flag, and joins the thread if there is one.
StopReceiving(t) ==
  /\ closing[t] = "stop" /\ MayJoin(t)
  /\ IF backend.receive = None
     THEN closing' = [closing EXCEPT ![t] = "finish"] /\ UNCHANGED backend
     ELSE /\ closing' = [closing EXCEPT ![t] = "join"]
          /\ backend' = [backend EXCEPT !.receive = IF @ = "running" THEN "asked" ELSE @]
  /\ UNCHANGED <<plan, sess, main, worker, tasks>>

\* The receive thread notices.
ReceiveLoopEnds ==
  /\ backend.receive = "asked"
  /\ backend' = [backend EXCEPT !.receive = "ended"]
  /\ UNCHANGED <<plan, sess, main, worker, tasks, closing>>

Joined(t) ==
  /\ closing[t] = "join" /\ backend.receive = "ended"
  /\ backend' = [backend EXCEPT !.receive = None]
  /\ closing' = [closing EXCEPT ![t] = "finish"]
  /\ UNCHANGED <<plan, sess, main, worker, tasks>>

\* Whether thread t is to call Close.
Calls(t) == IF t = "main" THEN main.pc = "close" ELSE t \in plan.stoppers

CloseBegins(t) ==
  /\ closing[t] = "no" /\ Calls(t)
  /\ \/ /\ plan.backend = "ZDT" /\ ~backend.listening /\ ~backend.bound   \* AlreadyStopped
        /\ closing' = [closing EXCEPT ![t] = "returned"] /\ UNCHANGED backend
     \/ /\ plan.backend = "ZDT" /\ (backend.listening \/ backend.bound)
        /\ backend' = [backend EXCEPT !.listening = FALSE, !.bound = FALSE]
        /\ closing' = [closing EXCEPT ![t] = "stop"]
     \/ /\ plan.backend = "TCP"
        /\ closing' = [closing EXCEPT ![t] = "stop"] /\ UNCHANGED backend
  /\ UNCHANGED <<plan, sess, main, worker, tasks>>

\* The rest of Close: the tables and the socket go (TCP: unless they have gone).
CloseEnds(t) ==
  /\ closing[t] = "finish" /\ Calls(t)
  /\ closing' = [closing EXCEPT ![t] = "returned"]
  /\ IF plan.backend = "TCP" /\ ~backend.listening THEN UNCHANGED <<sess, backend>>
     ELSE /\ sess' = [s \in Sessions |-> IF sess[s].at = "backlog" THEN Dropped(sess[s]) ELSE sess[s]]
          /\ backend' = [backend EXCEPT !.listening = FALSE, !.bound = FALSE, !.socket = FALSE]
  /\ UNCHANGED <<plan, main, worker, tasks>>

-----------------------------------------------------------------------------
\* MainProcessor.

Goto(pc) == main' = [main EXCEPT !.pc = pc]

Loop ==
  /\ main.pc = "loop"
  /\ Goto(IF backend.listening THEN "accept" ELSE "shutdown")
  /\ UNCHANGED <<plan, sess, worker, tasks, backend, closing>>

\* Handshaking and promoted sessions, as CheckNetwork counts them.
ActiveSessionCount_Promoted == Cardinality(UNION {Held(w) : w \in tasks})

ActiveSessionCount == Cardinality(At("pending")) + Cardinality(UNION {Held(w) : w \in tasks})

\* CheckNetwork: one session that Accept() returned.
CheckNetwork(s) ==
  /\ main.pc = "accept" /\ backend.listening /\ sess[s].at = "backlog"
  /\ sess' = [sess EXCEPT ![s] = IF plan.cap > 0 /\ ActiveSessionCount >= plan.cap
                                 THEN Dropped(@) ELSE [@ EXCEPT !.at = "pending"]]
  /\ UNCHANGED <<plan, main, worker, tasks, backend, closing>>

CheckNetworkDone ==
  /\ main.pc = "accept" /\ (At("backlog") = {} \/ ~backend.listening)
  /\ Goto("cleanup")
  /\ UNCHANGED <<plan, sess, worker, tasks, backend, closing>>

\* ProcessSessions, first half: dead ones go, and Process() brings some of the
\* others to the end of their handshake.
CleanupPending ==
  /\ main.pc = "cleanup"
  /\ \E settled \in SUBSET {s \in At("pending") : sess[s].alive} :
       sess' = [s \in Sessions |->
                  IF sess[s].at # "pending" THEN sess[s]
                  ELSE IF ~sess[s].alive THEN Cleaned(sess[s])
                  ELSE [sess[s] EXCEPT !.ready = @ \/ s \in settled]]
  /\ Goto("settle")
  /\ UNCHANGED <<plan, worker, tasks, backend, closing>>

\* ... second half: connection_timeout, and who is to be promoted.
SettlePending ==
  /\ main.pc = "settle"
  /\ \E late \in SUBSET {s \in At("pending") : ~sess[s].ready} :
       sess' = [s \in Sessions |-> IF s \in late THEN Closed(sess[s]) ELSE sess[s]]
  /\ main' = [main EXCEPT !.pc = "promote", !.promote = {s \in At("pending") : sess[s].ready}]
  /\ UNCHANGED <<plan, worker, tasks, backend, closing>>

\* SelectNextTask: the first of the emptiest workers.
SelectNextTask ==
  CHOOSE w \in tasks : \A v \in tasks : Count(w) < Count(v) \/ (Count(w) = Count(v) /\ w <= v)

\* PromoteReady, and SubmitSession up to the connect event.
PromoteReady(s) ==
  /\ main.pc = "promote" /\ s \in main.promote
  /\ IF tasks = {}
     THEN /\ sess' = [sess EXCEPT ![s] = Dropped(@)]
          /\ main' = [main EXCEPT !.promote = @ \ {s}]
     ELSE /\ sess' = [sess EXCEPT ![s].told = Append(@, "connected"), ![s].handler = TRUE]
          /\ main' = [main EXCEPT !.pc = "submit", !.promote = @ \ {s},
                                  !.current = s, !.target = SelectNextTask]
  /\ UNCHANGED <<plan, worker, tasks, backend, closing>>

\* WorkerSignal::Raise, or any notification under the signal's mutex, which a
\* worker between its test and its sleep still holds.
MutexFree_Ignored(w) == TRUE

MutexFree(w) == worker[w].pc # "tested"

Notified(w) == IF worker[w].pc = "asleep" THEN "check" ELSE worker[w].pc

\* SubmitSession, the rest: the session goes into the worker's set, the worker
\* is woken.
SubmitSession_RaisesFirst ==
  /\ \/ /\ main.pc = "submit" /\ MutexFree(main.target)
        /\ worker' = [worker EXCEPT ![main.target].pc = Notified(main.target)]
        /\ Goto("raise") /\ UNCHANGED sess
     \/ /\ main.pc = "raise"
        /\ sess' = [sess EXCEPT ![main.current].at = "worker", ![main.current].owner = main.target]
        /\ main' = [main EXCEPT !.pc = "promote", !.current = None, !.target = 0]
        /\ UNCHANGED worker
  /\ UNCHANGED <<plan, tasks, backend, closing>>

SubmitSession ==
  /\ \/ /\ main.pc = "submit"
        /\ sess' = [sess EXCEPT ![main.current].at = "worker", ![main.current].owner = main.target]
        /\ Goto("raise") /\ UNCHANGED worker
     \/ /\ main.pc = "raise" /\ MutexFree(main.target)
        /\ worker' = [worker EXCEPT ![main.target].pc = Notified(main.target)]
        /\ main' = [main EXCEPT !.pc = "promote", !.current = None, !.target = 0]
        /\ UNCHANGED sess
  /\ UNCHANGED <<plan, tasks, backend, closing>>

PromoteDone ==
  /\ main.pc = "promote" /\ main.promote = {}
  /\ Goto(IF main.last THEN "close" ELSE "loop")
  /\ UNCHANGED <<plan, sess, worker, tasks, backend, closing>>

\* The shutdown event, then backend_->StopReceiving().
Shutdown ==
  /\ \/ main.pc = "shutdown" /\ Goto("receiving") /\ closing' = [closing EXCEPT !["main"] = "stop"]
     \/ main.pc = "receiving" /\ closing["main"] = "finish"
        /\ Goto("clear") /\ closing' = [closing EXCEPT !["main"] = "no"]
  /\ UNCHANGED <<plan, sess, worker, tasks, backend>>

\* tasks_.clear(): ~TaskData asks one worker after the other to stop and joins it.
ClearTasks ==
  /\ main.pc = "clear"
  /\ LET w == CHOOSE v \in tasks : \A u \in tasks : v <= u
     IN \/ /\ tasks # {} /\ ~worker[w].stop /\ MutexFree(w)
           /\ worker' = [worker EXCEPT ![w] = [pc |-> Notified(w), stop |-> TRUE]]
           /\ UNCHANGED <<sess, main, tasks>>
        \/ /\ tasks # {} /\ worker[w].pc = "exited"
           /\ tasks' = tasks \ {w}
           /\ sess' = [s \in Sessions |-> IF s \in Held(w) THEN Dropped(sess[s]) ELSE sess[s]]
           /\ UNCHANGED <<main, worker>>
        \/ tasks = {} /\ Goto("disconnect") /\ UNCHANGED <<sess, worker, tasks>>
  /\ UNCHANGED <<plan, backend, closing>>

\* DisconnectPending: everything is closed, then ProcessSessions runs once more.
DisconnectPending ==
  /\ main.pc = "disconnect"
  /\ sess' = [s \in Sessions |-> IF sess[s].at = "pending" THEN Closed(sess[s]) ELSE sess[s]]
  /\ main' = [main EXCEPT !.pc = "cleanup", !.last = TRUE]
  /\ UNCHANGED <<plan, worker, tasks, backend, closing>>

ShutdownComplete ==
  /\ main.pc = "close" /\ closing["main"] = "returned"
  /\ Goto("done")
  /\ UNCHANGED <<plan, sess, worker, tasks, backend, closing>>

-----------------------------------------------------------------------------
\* WorkerLoop.

\* The top of the loop: stop, wait for a session, or tick.
Check(w) ==
  /\ worker[w].pc = "check"
  /\ worker' = [worker EXCEPT ![w].pc = IF worker[w].stop THEN "exit"
                                        ELSE IF Count(w) = 0 THEN "tested" ELSE "tick"]
  /\ UNCHANGED <<plan, sess, main, tasks, backend, closing>>

\* cv.wait lets go of the mutex.
Sleep(w) ==
  /\ worker[w].pc = "tested"
  /\ worker' = [worker EXCEPT ![w].pc = "asleep"]
  /\ UNCHANGED <<plan, sess, main, tasks, backend, closing>>

\* CleanupAndProcessSessions; the rest of the tick always passes.
Tick(w) ==
  /\ worker[w].pc = "tick"
  /\ sess' = [s \in Sessions |-> IF s \in Held(w) /\ ~sess[s].alive THEN Cleaned(sess[s]) ELSE sess[s]]
  /\ worker' = [worker EXCEPT ![w].pc = "check"]
  /\ UNCHANGED <<plan, main, tasks, backend, closing>>

\* The loop is left: sessions are closed and their handlers released.
Exit_Holding(w) ==
  /\ worker[w].pc = "exit"
  /\ sess' = [s \in Sessions |-> IF s \in Held(w) THEN Closed(sess[s]) ELSE sess[s]]
  /\ worker' = [worker EXCEPT ![w].pc = "exited"]
  /\ UNCHANGED <<plan, main, tasks, backend, closing>>

Exit(w) ==
  /\ worker[w].pc = "exit"
  /\ sess' = [s \in Sessions |-> IF s \in Held(w)
                                 THEN [Closed(sess[s]) EXCEPT !.handler = FALSE] ELSE sess[s]]
  /\ worker' = [worker EXCEPT ![w].pc = "exited"]
  /\ UNCHANGED <<plan, main, tasks, backend, closing>>

-----------------------------------------------------------------------------
MainStep ==
  \/ Loop \/ CheckNetworkDone \/ CleanupPending \/ SettlePending \/ SubmitSession \/ PromoteDone
  \/ Shutdown \/ ClearTasks \/ DisconnectPending \/ ShutdownComplete
  \/ \E s \in Sessions : CheckNetwork(s) \/ PromoteReady(s)

CloseStep(t) == StopReceiving(t) \/ Joined(t) \/ CloseEnds(t)

WorkerStep(w) == Check(w) \/ Sleep(w) \/ Tick(w) \/ Exit(w)

Next ==
  \/ Listen
  \/ \E s \in Sessions : Arrive(s) \/ Die(s)
  \/ MainStep
  \/ \E t \in Threads : CloseBegins(t) \/ CloseStep(t)
  \/ ReceiveLoopEnds
  \/ \E w \in Workers : WorkerStep(w)

Spec == Init /\ [][Next]_vars

\* Every thread that can run does.  Listen() and Stop() need not be
\* called, and sessions need not arrive or die.
ServerFair ==
  /\ WF_vars(MainStep) /\ WF_vars(CloseBegins("main"))
  /\ WF_vars(ReceiveLoopEnds)
  /\ \A t \in Threads : WF_vars(CloseStep(t))
  /\ \A w \in Workers : WF_vars(WorkerStep(w))

FairSpec == Spec /\ ServerFair

-----------------------------------------------------------------------------
\* The application hears of a session's end once and only after it heard of its
\* beginning (CleanupAndProcessSessions, "a disconnect event would be unpaired"),
\* whichever thread finds it dead and whenever.
EventsPaired ==
  \A s \in Sessions :
    sess[s].told \in {<<>>, <<"connected">>, <<"connected", "disconnected">>}

\* Sessions the server has taken in and that live never exceed max_connections,
\* though workers are counted without their locks (ActiveSessionCount).
CapRespected ==
  plan.cap > 0 => Cardinality({s \in Sessions : sess[s].alive /\ sess[s].at \in {"pending", "worker"}}) <= plan.cap

\* A session the server no longer refers to is closed and its handler released,
\* and when the server is down and Stop() has returned that is every one
\* (WorkerLoop, "this is the last chance to break a handler->session cycle").
NothingHeld ==
  \A s \in Sessions : /\ sess[s].at = "gone" => ~sess[s].alive /\ ~sess[s].handler
                      /\ main.pc = "done" /\ (\A t \in Threads : closing[t] \in {"no", "returned"})
                           => sess[s].at \in {None, "gone"}

\* One thread at a time joins the receive thread, also when Stop() is called while
\* the main loop shuts down (receive_thread_mutex_).
JoinedByOne == Cardinality({t \in Threads : closing[t] = "join"}) <= 1

\* What a server holds on to: never more sessions than max_connections, none once
\* it is down, and its receive thread for one thread to join.
ServerHolds == CapRespected /\ NothingHeld /\ JoinedByOne

\* "the socket stays open until Close() so pending sessions can still send their
\* FINs": no session is closed over a socket that is gone.
FinsLeave == \A s \in Sessions : sess[s].fin # "lost"

\* The end of a session the application knows of is reported, unless the server
\* stops: no worker sleeps on a session it was handed (SubmitSession, WorkerLoop).
DisconnectReported ==
  \A s \in Sessions :
    (sess[s].told = <<"connected">> /\ ~sess[s].alive) ~>
       (sess[s].told # <<"connected">> \/ ~backend.listening)

\* A server that stops listening gets down: every worker it waits for has seen
\* the stop ("a worker that is between testing the predicate and sleeping").
StopCompletes == (main.pc # "off" /\ ~backend.listening) ~> main.pc = "done"

-----------------------------------------------------------------------------
\* The plans of the checked instance: two threads stop a ZDT server that takes one
\* connection, one stops a TCP server without a limit.
CheckedPlans == {[backend |-> "ZDT", cap |-> 1, stoppers |-> {"a", "b"}],
                 [backend |-> "TCP", cap |-> 0, stoppers |-> {"a"}]}

\* Plans under which a comment of the code does not hold.
StoppedPlans == {[backend |-> "ZDT", cap |-> 0, stoppers |-> {"a"}]}
TwicePlans == {[backend |-> "TCP", cap |-> 0, stoppers |-> {"a", "b"}]}
=============================================================================
