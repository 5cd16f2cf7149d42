-------------------------- MODULE ServerLoopProofs --------------------------
(***************************************************************************)
(* What a server tells of its sessions, holds and lets go, proved for any   *)
(* sessions, workers, limits and threads that stop it.                      *)
(***************************************************************************)
EXTENDS ServerLoop, FiniteSetTheorems, SequenceTheorems, WellFoundedInduction, TLAPS

Places == {None, "backlog", "pending", "worker", "gone"}

Told == {<<>>, <<"connected">>, <<"connected", "disconnected">>}

SessStates == [at : Places, owner : Nat, alive : BOOLEAN, ready : BOOLEAN,
               handler : BOOLEAN, told : Told, fin : {None, "sent", "lost"}]

MainPlaces == {"off", "loop", "accept", "cleanup", "settle", "promote", "submit", "raise",
               "shutdown", "receiving", "clear", "disconnect", "close", "done"}

MainStates == [pc : MainPlaces, promote : SUBSET Sessions, current : Sessions \cup {None},
               target : Nat, last : BOOLEAN]

WorkerStates == [pc : {"check", "tested", "asleep", "tick", "exit", "exited"}, stop : BOOLEAN]

BackendStates == [listening : BOOLEAN, bound : BOOLEAN, socket : BOOLEAN,
                  receive : {None, "running", "asked", "ended"}]

Types ==
  /\ plan \in Plans
  /\ sess \in [Sessions -> SessStates]
  /\ main \in MainStates
  /\ worker \in [Workers -> WorkerStates]
  /\ tasks \subseteq Workers
  /\ backend \in BackendStates
  /\ closing \in [Threads -> {"no", "stop", "join", "finish", "returned"}]

\* The main loop leaves for good: nothing is accepted then, the workers are
\* gone before the pending sessions are closed, and those before Close().
Leaving == main.last \/ main.pc \in {"shutdown", "receiving", "clear", "disconnect", "close", "done"}

Phases ==
  /\ main.pc = "off" \/ Leaving => ~backend.listening
  /\ main.last => main.pc \in {"cleanup", "settle", "promote", "close", "done"}
  /\ main.pc \in {"close", "done"} => main.last
  /\ main.last \/ main.pc = "disconnect" => tasks = {}
  /\ \A w \in Workers : /\ worker[w].stop /\ w \in tasks => main.pc = "clear"
                        /\ worker[w].pc \in {"exit", "exited"} => worker[w].stop
  /\ main.pc \in {"submit", "raise"} => main.target \in tasks
  /\ closing["main"] # "no" => main.pc \in {"receiving", "close", "done"}
  /\ main.pc = "done" => closing["main"] = "returned"

\* The session whose connect event is out and that no worker has yet.
Submitting(s) == main.pc = "submit" /\ s = main.current

\* Where a session is tells what the application has heard of it.
Story ==
  \A s \in Sessions :
    /\ sess[s].at \in {None, "backlog"} => sess[s].told = <<>> /\ ~sess[s].handler /\ ~sess[s].ready
    /\ sess[s].at = "pending" /\ ~Submitting(s) =>
         /\ sess[s].told = <<>> /\ ~sess[s].handler
         /\ sess[s].ready => main.pc = "settle" \/ s \in main.promote
    /\ sess[s].at = "worker" =>
         /\ sess[s].told = <<"connected">> /\ sess[s].ready
         /\ sess[s].owner \in tasks
         /\ worker[sess[s].owner].pc = "exited" => ~sess[s].handler
    /\ sess[s].at = "gone" => ~sess[s].alive /\ ~sess[s].handler
    /\ s \in main.promote => sess[s].at = "pending" /\ sess[s].ready /\ ~Submitting(s)
    /\ Submitting(s) => sess[s].at = "pending" /\ sess[s].ready /\ sess[s].told = <<"connected">>
    /\ main.last /\ sess[s].at = "pending" => main.pc = "cleanup" /\ ~sess[s].alive

Promoting == main.promote # {} => main.pc \in {"promote", "submit", "raise"}

\* A thread that is past the beginning of Close(), not counting the main loop's
\* earlier StopReceiving().
InClose(t) == closing[t] \in {"stop", "join", "finish"} /\ (t = "main" => main.pc = "close")

\* Who closes the backend leaves no session in it.
Backlog ==
  /\ plan.backend = "TCP" /\ ~backend.listening => At("backlog") = {}
  /\ plan.backend = "ZDT" =>
       /\ \A t \in Threads : closing[t] # "no" /\ (t = "main" => main.pc \in {"close", "done"}) => ~backend.bound
       /\ \A t \in Threads : closing[t] = "finish" => backend.receive = None
       /\ ~backend.bound /\ (\A t \in Threads : ~InClose(t))
            => At("backlog") = {} /\ backend.receive # "running"

Taken == {s \in Sessions : sess[s].at \in {"pending", "worker"}}

CapInv == plan.cap > 0 => Cardinality(Taken) <= plan.cap

\* Only threads that are to stop the server do.  Over TCP, listening ends with the
\* Close() of one of them.
OneJoins ==
  /\ \A t \in Threads : closing[t] # "no" => t = "main" \/ t \in plan.stoppers
  /\ plan.backend = "TCP" /\ main.pc # "off" /\ ~backend.listening =>
       \E t \in plan.stoppers : closing[t] = "returned"
  /\ \A t, u \in Threads : closing[t] = "join" /\ closing[u] = "join" => t = u

ServerInv == Types /\ Phases /\ Story /\ Promoting /\ Backlog /\ CapInv
-----------------------------------------------------------------------------
(* Records *)

\* Two events told in a row make a story of two.
LEMMA AppendPair == ASSUME NEW a, NEW b PROVE Append(<<a>>, b) = <<a, b>>
<1> DEFINE S == {a, b}
           x == Append(<<a>>, b)
           y == <<a, b>>
<1>1. <<a>> \in Seq(S) /\ y \in Seq(S)
  OBVIOUS
<1>2. Len(<<a>>) = 1 /\ <<a>>[1] = a /\ Len(y) = 2 /\ y[1] = a /\ y[2] = b
  OBVIOUS
<1>3. x \in Seq(S)
  BY <1>1
<1>4. Len(x) = 2
  BY <1>1, <1>2, AppendProperties
<1>5. x[1] = a /\ x[2] = b
  BY <1>1, <1>2
<1> HIDE DEF x, y, S
<1>6. Len(x) = Len(y) /\ \A i \in 1..Len(x) : x[i] = y[i]
  BY <1>2, <1>4, <1>5
<1>7. x = y
  BY <1>1, <1>3, <1>6, SeqEqual
<1> QED
  BY <1>7 DEF x, y

\* The stories of a session: nothing, its connect event, and its disconnect event after.
LEMMA ToldFacts ==
  /\ Append(<<>>, "connected") = <<"connected">>
  /\ Append(<<"connected">>, "disconnected") = <<"connected", "disconnected">>
  /\ <<>> # <<"connected">>
<1>1. Append(<<>>, "connected") = <<"connected">>
  OBVIOUS
<1>2. <<>> # <<"connected">>
  OBVIOUS
<1> QED
  BY <1>1, <1>2, AppendPair

\* A closed session is dead; where it is and what was told stay (PeerSession::Close).
LEMMA ClosedFacts ==
  ASSUME NEW x \in SessStates
  PROVE  /\ Closed(x) \in SessStates /\ Closed(x).alive = FALSE
         /\ Closed(x).at = x.at /\ Closed(x).owner = x.owner /\ Closed(x).ready = x.ready
         /\ Closed(x).handler = x.handler /\ Closed(x).told = x.told
<1>1. CASE ~x.alive
  BY <1>1 DEF Closed, SessStates
<1>2. CASE x.alive
  <2> DEFINE f == IF plan.backend = "TCP" \/ backend.socket THEN "sent" ELSE "lost"
  <2>1. f \in {None, "sent", "lost"}
    OBVIOUS
  <2>2. Closed(x) = [[x EXCEPT !.alive = FALSE] EXCEPT !.fin = f]
    BY Zenon, <1>2 DEF Closed
  <2> HIDE DEF f
  <2>3. Closed(x) = [at |-> x.at, owner |-> x.owner, alive |-> FALSE, ready |-> x.ready,
                     handler |-> x.handler, told |-> x.told, fin |-> f]
    BY Zenon, <2>2 DEF SessStates
  <2> QED
    BY <2>1, <2>3 DEF SessStates
<1> QED
  BY Zenon, <1>1, <1>2

\* A dropped session is closed and gone; the rest of it stays (~PeerSession).
LEMMA DroppedFacts ==
  ASSUME NEW x \in SessStates
  PROVE  /\ Dropped(x) \in SessStates /\ Dropped(x).alive = FALSE /\ Dropped(x).at = "gone"
         /\ Dropped(x).owner = x.owner /\ Dropped(x).ready = x.ready
         /\ Dropped(x).handler = x.handler /\ Dropped(x).told = x.told
<1> DEFINE y == Closed(x)
<1>1. /\ y \in SessStates /\ y.alive = FALSE /\ y.owner = x.owner /\ y.ready = x.ready
      /\ y.handler = x.handler /\ y.told = x.told
  BY Zenon, ClosedFacts
<1>2. Dropped(x) = [y EXCEPT !.at = "gone"]
  BY DEF Dropped
<1> HIDE DEF y
<1> QED
  BY <1>1, <1>2 DEF SessStates, Places

\* A session cleaned up is gone and without a handler, alive or not as it was
\* (CleanupAndProcessSessions).
LEMMA CleanedFacts ==
  ASSUME NEW x \in SessStates, x.told = IF x.ready THEN <<"connected">> ELSE <<>>
  PROVE  /\ Cleaned(x) \in SessStates /\ Cleaned(x).at = "gone" /\ Cleaned(x).handler = FALSE
         /\ Cleaned(x).alive = x.alive
<1> DEFINE t == IF x.ready THEN Append(x.told, "disconnected") ELSE x.told
<1>1. t \in Told
  BY ToldFacts DEF Told
<1>2. Cleaned(x) = [[[x EXCEPT !.at = "gone"] EXCEPT !.handler = FALSE] EXCEPT !.told = t]
  BY Zenon DEF Cleaned
<1> HIDE DEF t
<1>3. Cleaned(x) = [at |-> "gone", owner |-> x.owner, alive |-> x.alive, ready |-> x.ready,
                    handler |-> FALSE, told |-> t, fin |-> x.fin]
  BY Zenon, <1>2 DEF SessStates
<1> QED
  BY <1>1, <1>3 DEF SessStates, Places

\* The main loop moves on.
LEMMA GotoFacts ==
  ASSUME main \in MainStates, NEW pc \in MainPlaces, Goto(pc)
  PROVE  /\ main' \in MainStates /\ main'.pc = pc /\ main'.promote = main.promote
         /\ main'.current = main.current /\ main'.target = main.target /\ main'.last = main.last
  BY DEF Goto, MainStates
-----------------------------------------------------------------------------
(* What most steps leave alone *)

\* No session is taken in.
LEMMA CapKeeps ==
  ASSUME CapInv, Types, plan' = plan, Taken' \subseteq Taken
  PROVE  CapInv'
<1>1. Taken \in SUBSET Sessions /\ Taken' \in SUBSET Taken
  BY DEF Taken
<1>2. IsFiniteSet(Taken) /\ IsFiniteSet(Taken')
  BY <1>1, ServerAssumption, FS_Subset
<1>3. Cardinality(Taken') <= Cardinality(Taken)
  BY <1>1, <1>2, FS_Subset
<1>4. Cardinality(Taken) \in Nat /\ Cardinality(Taken') \in Nat /\ plan.cap \in Nat
  BY <1>2, FS_CardinalityType, ServerAssumption DEF Types
<1> QED
  BY <1>3, <1>4 DEF CapInv

\* A session leaves the backend, or none does, and nobody goes in or out of
\* Close().
LEMMA BacklogKeeps ==
  ASSUME Backlog, UNCHANGED <<plan, backend, closing>>, At("backlog")' \subseteq At("backlog"),
         main'.pc = main.pc \/ {main.pc, main'.pc} \cap {"close", "done"} = {}
  PROVE  Backlog'
<1>1. \A t \in Threads : InClose(t)' <=> InClose(t)
  BY Zenon DEF InClose
<1>2. main'.pc \in {"close", "done"} <=> main.pc \in {"close", "done"}
  BY Zenon
<1> QED
  BY <1>1, <1>2 DEF Backlog

\* A step that touches no session, and ends no worker, keeps the stories.
LEMMA StoryKeeps ==
  ASSUME Story, UNCHANGED <<sess, tasks>>,
         \A w \in Workers : worker'[w].pc = "exited" => worker[w].pc = "exited",
         Types, main'.promote = main.promote, main'.current = main.current,
         main.pc # "submit", main'.pc # "submit", main.pc # "settle",
         main'.last = main.last, main.last /\ main.pc = "cleanup" => main'.pc = "cleanup"
  PROVE  Story'
<1> SUFFICES ASSUME NEW s \in Sessions PROVE Story!(s)'
  BY DEF Story
<1>1. sess'[s] = sess[s] /\ ~Submitting(s) /\ ~Submitting(s)'
  BY DEF Submitting
<1>2. sess[s].at = "worker" => sess[s].owner \in Workers
  BY DEF Story, Types
<1> QED
  BY <1>1, <1>2 DEF Story
-----------------------------------------------------------------------------
(* The start *)

\* A server that has not listened yet satisfies the invariant.
LEMMA ServerStarts == Init => ServerInv
<1> SUFFICES ASSUME Init PROVE ServerInv
  OBVIOUS
<1> USE DEF Init
<1>1. Types
  BY ServerAssumption DEF Types, SessStates, Places, Told, MainStates, MainPlaces, WorkerStates,
     BackendStates
<1>2. Phases
  BY DEF Phases, Leaving, Threads
<1>3. Story
  BY DEF Story, Submitting, None
<1>4. Promoting
  BY DEF Promoting
<1>5. Backlog
  BY DEF Backlog, At, None
<1>6. CapInv
  <2>1. Taken = {}
    BY DEF Taken, None
  <2> QED
    BY <2>1, FS_EmptySet, ServerAssumption DEF CapInv
<1> QED
  BY <1>1, <1>2, <1>3, <1>4, <1>5, <1>6 DEF ServerInv
-----------------------------------------------------------------------------
(* The backend's Close(), and StopReceiving(), as far as sessions go on as they
   are *)

\* A step of a thread inside Close() that leaves the sessions alone keeps what is said of them.
LEMMA CloseFrame ==
  ASSUME ServerInv, UNCHANGED <<plan, sess, main, worker, tasks>>,
         backend' \in BackendStates, backend'.listening => backend.listening,
         NEW t \in Threads, NEW c \in {"no", "stop", "join", "finish", "returned"},
         closing' = [closing EXCEPT ![t] = c], Backlog',
         t = "main" => c # "no" /\ main.pc \in {"receiving", "close"}
  PROVE  ServerInv'
<1> USE DEF ServerInv
<1>1. Types'
  BY DEF Types
<1>2. closing'["main"] # "no" => main.pc \in {"receiving", "close", "done"}
  BY DEF Phases, Types
<1>3. main.pc = "done" => closing'["main"] = "returned"
  BY DEF Phases, Types
<1>4. Phases'
  BY <1>2, <1>3 DEF Phases, Leaving
<1>5. Story' /\ Promoting'
  BY DEF Story, Submitting, Promoting
<1>6. CapInv'
  BY DEF CapInv, Taken
<1> QED
  BY <1>1, <1>4, <1>5, <1>6

\* Close() tells the receive thread to stop.
LEMMA StopReceivingStep == ASSUME ServerInv, NEW t \in Threads, StopReceiving(t) PROVE ServerInv'
<1> USE DEF ServerInv
<1>0. closing[t] = "stop" /\ MayJoin(t) /\ UNCHANGED <<plan, sess, main, worker, tasks>>
  BY DEF StopReceiving
<1>1. t = "main" => main.pc \in {"receiving", "close"}
  BY <1>0 DEF Phases
<1>2. PICK c \in {"join", "finish"} :
        /\ closing' = [closing EXCEPT ![t] = c]
        /\ c = "finish" => backend.receive = None
  BY DEF StopReceiving
<1>3. /\ backend' \in BackendStates
      /\ (backend'.listening <=> backend.listening) /\ (backend'.bound <=> backend.bound)
      /\ backend'.receive = "running" => backend.receive = "running" /\ backend' = backend
      /\ backend.receive = None => backend'.receive = None
  BY DEF StopReceiving, Types, BackendStates
<1>4. \A u \in Threads :
        /\ closing'[u] \in {"stop", "join", "finish"} <=> closing[u] \in {"stop", "join", "finish"}
        /\ closing'[u] = "no" <=> closing[u] = "no"
        /\ closing'[u] = "finish" => closing[u] = "finish" \/ backend.receive = None
  BY <1>0, <1>2 DEF Types
<1>4a. \A u \in Threads : InClose(u)' <=> InClose(u)
  BY <1>0, <1>4 DEF InClose
<1>5. At("backlog")' = At("backlog")
  BY <1>0 DEF At
<1>6. Backlog'
  BY <1>0, <1>3, <1>4, <1>4a, <1>5 DEF Backlog
<1> QED
  BY Zenon, <1>0, <1>1, <1>2, <1>3, <1>6, CloseFrame

\* Close() returns from the join of the receive thread.
LEMMA JoinedStep == ASSUME ServerInv, NEW t \in Threads, Joined(t) PROVE ServerInv'
<1> USE DEF ServerInv
<1>0. /\ closing[t] = "join" /\ closing' = [closing EXCEPT ![t] = "finish"]
      /\ UNCHANGED <<plan, sess, main, worker, tasks>>
  BY DEF Joined
<1>1. t = "main" => main.pc \in {"receiving", "close"}
  BY <1>0 DEF Phases
<1>3. /\ backend' \in BackendStates /\ backend'.receive = None
      /\ (backend'.listening <=> backend.listening) /\ (backend'.bound <=> backend.bound)
  BY DEF Joined, Types, BackendStates
<1>4. \A u \in Threads :
        /\ closing'[u] \in {"stop", "join", "finish"} <=> closing[u] \in {"stop", "join", "finish"}
        /\ closing'[u] = "no" <=> closing[u] = "no"
  BY <1>0 DEF Types
<1>4a. \A u \in Threads : InClose(u)' <=> InClose(u)
  BY <1>0, <1>4 DEF InClose
<1>5. At("backlog")' = At("backlog")
  BY <1>0 DEF At
<1>6. Backlog'
  BY <1>0, <1>3, <1>4, <1>4a, <1>5 DEF Backlog, None
<1> QED
  BY Zenon, <1>0, <1>1, <1>3, <1>6, CloseFrame

\* A thread enters Close().
LEMMA CloseBeginsStep == ASSUME ServerInv, NEW t \in Threads, CloseBegins(t) PROVE ServerInv'
<1> USE DEF ServerInv
<1>0. closing[t] = "no" /\ Calls(t) /\ UNCHANGED <<plan, sess, main, worker, tasks>>
  BY DEF CloseBegins
<1>1. t = "main" => main.pc = "close"
  BY <1>0 DEF Calls
<1>2. At("backlog")' = At("backlog")
  BY <1>0 DEF At
<1>3. CASE plan.backend = "TCP"
  <2>1. closing' = [closing EXCEPT ![t] = "stop"] /\ UNCHANGED backend
    BY <1>3 DEF CloseBegins
  <2>2. Backlog'
    BY <1>0, <1>2, <1>3, <2>1 DEF Backlog
  <2> QED
    BY Zenon, <1>0, <1>1, <2>1, <2>2, CloseFrame DEF Types
<1>4. CASE plan.backend = "ZDT" /\ ~backend.listening /\ ~backend.bound
  <2>1. closing' = [closing EXCEPT ![t] = "returned"] /\ UNCHANGED backend
    BY <1>4 DEF CloseBegins
  <2>2. \A u \in Threads :
          /\ closing'[u] \in {"stop", "join", "finish"} <=> closing[u] \in {"stop", "join", "finish"}
          /\ closing'[u] = "finish" => closing[u] = "finish"
    BY <1>0, <2>1 DEF Types
  <2>3. \A u \in Threads : InClose(u)' <=> InClose(u)
    BY <1>0, <2>2 DEF InClose
  <2>4. Backlog'
    BY <1>0, <1>2, <1>4, <2>1, <2>2, <2>3 DEF Backlog
  <2> QED
    BY Zenon, <1>0, <1>1, <2>1, <2>4, CloseFrame DEF Types
<1>5. CASE plan.backend = "ZDT" /\ (backend.listening \/ backend.bound)
  <2>1. /\ closing' = [closing EXCEPT ![t] = "stop"]
        /\ backend' = [backend EXCEPT !.listening = FALSE, !.bound = FALSE]
    BY <1>5 DEF CloseBegins
  <2>2. backend' = [[backend EXCEPT !.listening = FALSE] EXCEPT !.bound = FALSE]
    BY Zenon, <2>1
  <2>3. backend' \in BackendStates /\ ~backend'.listening /\ ~backend'.bound /\ backend'.receive = backend.receive
    BY Zenon, <2>2 DEF Types, BackendStates
  <2>4. /\ InClose(t)'
        /\ \A u \in Threads : closing'[u] = "finish" => closing[u] = "finish"
    BY <1>0, <1>1, <2>1 DEF InClose, Types
  <2>5. Backlog'
    BY <1>0, <1>2, <1>5, <2>3, <2>4 DEF Backlog
  <2> QED
    BY Zenon, <1>0, <1>1, <2>1, <2>3, <2>5, CloseFrame
<1> QED
  BY <1>3, <1>4, <1>5, ServerAssumption DEF Types

\* The receive thread leaves its loop.
LEMMA ReceiveLoopEndsStep == ASSUME ServerInv, ReceiveLoopEnds PROVE ServerInv'
<1> USE DEF ServerInv
<1>0. UNCHANGED <<plan, sess, main, worker, tasks, closing>>
  BY DEF ReceiveLoopEnds
<1>1. /\ backend' \in BackendStates /\ backend'.receive = "ended" /\ backend.receive = "asked"
      /\ (backend'.listening <=> backend.listening) /\ (backend'.bound <=> backend.bound)
  BY DEF ReceiveLoopEnds, Types, BackendStates
<1>2. Types' /\ CapInv'
  BY <1>0, <1>1 DEF Types, CapInv, Taken
<1>3. Phases'
  BY <1>0, <1>1 DEF Phases, Leaving
<1>4. Story' /\ Promoting'
  BY <1>0 DEF Story, Submitting, Promoting
<1>5. Backlog'
  BY <1>0, <1>1 DEF Backlog, At, InClose, None
<1> QED
  BY <1>2, <1>3, <1>4, <1>5

\* Close() drops the sessions that were never accepted and returns.
LEMMA CloseEndsStep == ASSUME ServerInv, NEW t \in Threads, CloseEnds(t) PROVE ServerInv'
<1> USE DEF ServerInv
<1>0. /\ closing[t] = "finish" /\ closing' = [closing EXCEPT ![t] = "returned"]
      /\ UNCHANGED <<plan, main, worker, tasks>>
  BY DEF CloseEnds
<1>1. t = "main" => main.pc = "close"
  BY DEF CloseEnds, Calls
<1>2. CASE plan.backend = "TCP" /\ ~backend.listening
  <2>1. UNCHANGED <<sess, backend>>
    BY <1>2 DEF CloseEnds
  <2>2. At("backlog")' = At("backlog")
    BY <2>1 DEF At
  <2>3. Backlog'
    BY <1>0, <1>2, <2>1, <2>2 DEF Backlog
  <2> QED
    BY Zenon, <1>0, <1>1, <2>1, <2>3, CloseFrame DEF Types
<1>3. CASE ~(plan.backend = "TCP" /\ ~backend.listening)
  <2>1. /\ \A s \in Sessions : sess'[s] = IF sess[s].at = "backlog" THEN Dropped(sess[s]) ELSE sess[s]
        /\ sess' = [s \in Sessions |-> IF sess[s].at = "backlog" THEN Dropped(sess[s]) ELSE sess[s]]
        /\ backend' = [backend EXCEPT !.listening = FALSE, !.bound = FALSE, !.socket = FALSE]
    BY Zenon, <1>3 DEF CloseEnds
  <2>2. backend' = [[[backend EXCEPT !.listening = FALSE] EXCEPT !.bound = FALSE] EXCEPT !.socket = FALSE]
    BY Zenon, <2>1
  <2>3. backend' \in BackendStates /\ ~backend'.listening /\ ~backend'.bound /\ backend'.receive = backend.receive
    BY Zenon, <2>2 DEF Types, BackendStates
  <2>4. \A s \in Sessions : sess[s] \in SessStates
    BY DEF Types
  <2>5. \A s \in Sessions :
          /\ sess'[s] \in SessStates
          /\ sess[s].at = "backlog" =>
               /\ sess'[s].at = "gone" /\ sess'[s].alive = FALSE /\ sess'[s].handler = sess[s].handler
          /\ sess[s].at # "backlog" => sess'[s] = sess[s]
    BY Zenon, <2>1, <2>4, DroppedFacts
  <2>6. \A u \in Threads : closing'[u] = IF u = t THEN "returned" ELSE closing[u]
    BY <1>0 DEF Types
  <2>7. Types'
    BY <1>0, <2>1, <2>3, <2>5 DEF Types
  <2>8. Phases'
    <3>1. closing'["main"] # "no" => main.pc \in {"receiving", "close", "done"}
      BY <1>1, <2>6 DEF Phases, Threads
    <3>2. main.pc = "done" => closing'["main"] = "returned"
      BY ZenonT(60), <1>1, <2>6 DEF Phases, Threads
    <3> QED
      BY <1>0, <2>3, <3>1, <3>2 DEF Phases, Leaving
  <2>9. Story'
    <3> SUFFICES ASSUME NEW s \in Sessions PROVE Story!(s)'
      BY DEF Story
    <3>1. Submitting(s)' <=> Submitting(s)
      BY <1>0 DEF Submitting
    <3>2. CASE sess[s].at = "backlog"
      <4>1. ~Submitting(s) /\ s \notin main.promote /\ ~sess[s].handler
        BY <3>2 DEF Story
      <4>2. sess'[s].at = "gone" /\ ~sess'[s].alive /\ ~sess'[s].handler
        BY Zenon, <2>5, <3>2, <4>1
      <4> QED
        BY <1>0, <3>1, <4>1, <4>2 DEF None
    <3>3. CASE sess[s].at # "backlog"
      BY <1>0, <2>5, <3>1, <3>3 DEF Story
    <3> QED
      BY ZenonT(60), <3>2, <3>3
  <2>10. Promoting'
    BY <1>0 DEF Promoting
  <2>11. Backlog'
    <3>1. At("backlog")' = {}
      BY <2>5 DEF At
    <3>2. plan.backend = "ZDT" => backend.receive = None
      BY <1>0 DEF Backlog
    <3>3. \A u \in Threads : closing'[u] = "finish" => closing[u] = "finish"
      BY <2>6
    <3> QED
      BY <1>0, <2>3, <3>1, <3>2, <3>3 DEF Backlog, None
  <2>12. CapInv'
    <3>1. Taken' \subseteq Taken
      BY <2>5 DEF Taken
    <3> QED
      BY <1>0, <3>1, CapKeeps
  <2> QED
    BY <2>7, <2>8, <2>9, <2>10, <2>11, <2>12
<1> QED
  BY <1>2, <1>3
-----------------------------------------------------------------------------
(* The main loop's way from step to step *)

\* A step of the main thread that only moves its place keeps what is said of the sessions.
LEMMA MainMoves ==
  ASSUME ServerInv, NEW pc \in MainPlaces, Goto(pc),
         UNCHANGED <<plan, sess, worker, tasks>>, backend' \in BackendStates,
         closing' \in [Threads -> {"no", "stop", "join", "finish", "returned"}],
         main.pc \notin {"submit", "settle"}, pc # "submit",
         main.last => main.pc # "cleanup",
         main.promote = {}, Phases', Backlog'
  PROVE  ServerInv'
<1> USE DEF ServerInv
<1>1. /\ main' \in MainStates /\ main'.pc = pc /\ main'.promote = main.promote
      /\ main'.current = main.current /\ main'.last = main.last
  BY GotoFacts DEF Types
<1>2. Types' /\ CapInv'
  BY <1>1 DEF Types, CapInv, Taken
<1>3. Story'
  BY <1>1, StoryKeeps
<1>4. Promoting'
  BY <1>1 DEF Promoting
<1> QED
  BY <1>2, <1>3, <1>4

\* Listen() starts the receive thread and the main loop.
LEMMA ListenStep == ASSUME ServerInv, Listen PROVE ServerInv'
<1> USE DEF ServerInv
<1>1. /\ main.pc = "off" /\ backend.bound /\ Goto("loop")
      /\ UNCHANGED <<plan, sess, worker, tasks, closing>>
  BY DEF Listen, Goto
<1>2. /\ main'.pc = "loop" /\ main'.last = main.last /\ main'.target = main.target
  BY <1>1, GotoFacts DEF Types, MainPlaces
<1>3. backend' = [[backend EXCEPT !.listening = TRUE] EXCEPT !.receive = "running"]
  BY Zenon DEF Listen
<1>4. backend' \in BackendStates /\ backend'.listening /\ backend'.bound
  BY Zenon, <1>1, <1>3 DEF Types, BackendStates
<1>5. ~main.last /\ main.promote = {} /\ closing["main"] = "no"
  BY <1>1 DEF Phases, Promoting
<1>6. Phases'
  BY <1>1, <1>2, <1>4, <1>5 DEF Phases, Leaving
<1>7. Backlog'
  <2>1. plan.backend = "ZDT" => \A t \in Threads : closing[t] = "no"
    BY <1>1, <1>5 DEF Backlog
  <2> QED
    BY <1>1, <1>2, <1>4, <2>1 DEF Backlog
<1> QED
  BY <1>1, <1>4, <1>5, <1>6, <1>7, MainMoves DEF Types, MainPlaces

\* The main loop starts another round while the backend listens, or shuts down.
LEMMA LoopStep == ASSUME ServerInv, Loop PROVE ServerInv'
<1> USE DEF ServerInv
<1>1. PICK pc \in {"accept", "shutdown"} :
        main.pc = "loop" /\ Goto(pc) /\ (pc = "shutdown" => ~backend.listening)
  BY DEF Loop
<1>2. UNCHANGED <<plan, sess, worker, tasks, backend, closing>>
  BY DEF Loop
<1>3. main'.pc = pc /\ main'.last = main.last /\ main'.target = main.target
  BY <1>1, GotoFacts DEF Types, MainPlaces
<1>4. ~main.last /\ main.promote = {} /\ closing["main"] = "no"
  BY <1>1 DEF Phases, Promoting
<1>5. Phases'
  BY <1>1, <1>2, <1>3, <1>4 DEF Phases, Leaving
<1>6. Backlog'
  <2>1. At("backlog")' = At("backlog")
    BY <1>2 DEF At
  <2> QED
    BY <1>1, <1>2, <1>3, <2>1, BacklogKeeps
<1> QED
  BY <1>1, <1>2, <1>4, <1>5, <1>6, MainMoves DEF Types, MainPlaces

\* CheckNetwork found nothing more to accept.
LEMMA CheckNetworkDoneStep == ASSUME ServerInv, CheckNetworkDone PROVE ServerInv'
<1> USE DEF ServerInv
<1>1. /\ main.pc = "accept" /\ Goto("cleanup")
      /\ UNCHANGED <<plan, sess, worker, tasks, backend, closing>>
  BY DEF CheckNetworkDone
<1>3. main'.pc = "cleanup" /\ main'.last = main.last /\ main'.target = main.target
  BY <1>1, GotoFacts DEF Types, MainPlaces
<1>4. ~main.last /\ main.promote = {} /\ closing["main"] = "no"
  BY <1>1 DEF Phases, Promoting
<1>5. Phases'
  BY <1>1, <1>3, <1>4 DEF Phases, Leaving
<1>6. Backlog'
  <2>1. At("backlog")' = At("backlog")
    BY <1>1 DEF At
  <2> QED
    BY <1>1, <1>3, <2>1, BacklogKeeps
<1> QED
  BY <1>1, <1>4, <1>5, <1>6, MainMoves DEF Types, MainPlaces

\* Every session that was ready has been handed over.
LEMMA PromoteDoneStep == ASSUME ServerInv, PromoteDone PROVE ServerInv'
<1> USE DEF ServerInv
<1>1. PICK pc \in {"loop", "close"} :
        main.pc = "promote" /\ main.promote = {} /\ Goto(pc) /\ (pc = "close" <=> main.last)
  BY DEF PromoteDone
<1>2. UNCHANGED <<plan, sess, worker, tasks, backend, closing>>
  BY DEF PromoteDone
<1>3. main'.pc = pc /\ main'.last = main.last /\ main'.target = main.target
  BY <1>1, GotoFacts DEF Types, MainPlaces
<1>4. closing["main"] = "no"
  BY <1>1 DEF Phases
<1>5. Phases'
  BY <1>1, <1>2, <1>3, <1>4 DEF Phases, Leaving
<1>6. Backlog'
  <2>1. At("backlog")' = At("backlog")
    BY <1>2 DEF At
  <2>2. \A t \in Threads : InClose(t)' <=> InClose(t)
    BY <1>1, <1>2, <1>3, <1>4 DEF InClose
  <2>3. \A t \in Threads : closing'[t] # "no" /\ t = "main" => FALSE
    BY <1>2, <1>4
  <2> QED
    BY <1>2, <2>1, <2>2, <2>3 DEF Backlog
<1> QED
  BY <1>1, <1>2, <1>5, <1>6, MainMoves DEF Types, MainPlaces

\* The main thread returns from Close(), and its loop is over.
LEMMA ShutdownCompleteStep == ASSUME ServerInv, ShutdownComplete PROVE ServerInv'
<1> USE DEF ServerInv
<1>1. /\ main.pc = "close" /\ Goto("done") /\ closing["main"] = "returned"
      /\ UNCHANGED <<plan, sess, worker, tasks, backend, closing>>
  BY DEF ShutdownComplete
<1>3. main'.pc = "done" /\ main'.last = main.last /\ main'.target = main.target
  BY <1>1, GotoFacts DEF Types, MainPlaces
<1>4. main.promote = {}
  BY <1>1 DEF Promoting
<1>5. Phases'
  BY ZenonT(60), <1>1, <1>3, <1>4 DEF Phases, Leaving
<1>6. Backlog'
  <2>1. At("backlog")' = At("backlog")
    BY <1>1 DEF At
  <2>2. \A t \in Threads : InClose(t)' <=> InClose(t)
    BY <1>1, <1>3 DEF InClose
  <2> QED
    BY ZenonT(60), <1>1, <1>3, <2>1, <2>2 DEF Backlog
<1> QED
  BY <1>1, <1>4, <1>5, <1>6, MainMoves DEF Types, MainPlaces

\* The main thread stops the receive thread before it clears its workers.
LEMMA ShutdownStep == ASSUME ServerInv, Shutdown PROVE ServerInv'
<1> USE DEF ServerInv
<1>0. UNCHANGED <<plan, sess, worker, tasks, backend>>
  BY DEF Shutdown
<1>1. PICK pc \in {"receiving", "clear"} :
        /\ Goto(pc) /\ main.pc = (IF pc = "receiving" THEN "shutdown" ELSE "receiving")
        /\ closing' = [closing EXCEPT !["main"] = IF pc = "receiving" THEN "stop" ELSE "no"]
  BY DEF Shutdown
<1>2. main'.pc = pc /\ main'.last = main.last /\ main'.target = main.target
  BY <1>1, GotoFacts DEF Types, MainPlaces
<1>3. \A t \in Threads : closing'[t] = IF t # "main" THEN closing[t]
                                       ELSE IF pc = "receiving" THEN "stop" ELSE "no"
  BY <1>1 DEF Types
<1>4. main.promote = {} /\ ~main.last
  BY <1>1 DEF Promoting, Phases
<1>5. Phases'
  <2>1. closing'["main"] # "no" => pc = "receiving"
    BY <1>3 DEF Threads
  <2> QED
    BY <1>0, <1>1, <1>2, <1>4, <2>1 DEF Phases, Leaving
<1>6. Backlog'
  <2>1. At("backlog")' = At("backlog")
    BY <1>0 DEF At
  <2>2. \A t \in Threads : InClose(t)' <=> InClose(t)
    BY <1>1, <1>2, <1>3 DEF InClose
  <2>3. \A t \in Threads : closing'[t] = "finish" => closing[t] = "finish"
    BY <1>3
  <2>4. \A t \in Threads : closing'[t] # "no" /\ (t = "main" => main'.pc \in {"close", "done"})
                             => closing[t] # "no" /\ (t = "main" => main.pc \in {"close", "done"})
    BY <1>1, <1>2, <1>3
  <2> QED
    BY <1>0, <2>1, <2>2, <2>3, <2>4 DEF Backlog
<1>7. closing' \in [Threads -> {"no", "stop", "join", "finish", "returned"}]
  BY Zenon, <1>1 DEF Types
<1> QED
  BY <1>0, <1>1, <1>4, <1>5, <1>6, <1>7, MainMoves DEF Types, MainPlaces
-----------------------------------------------------------------------------
(* The workers, as far as sessions stay as they are *)

\* A step that moves one worker and touches no session keeps what is said of them.
LEMMA WorkerFrame ==
  ASSUME ServerInv, UNCHANGED <<plan, sess, tasks, backend, closing>>,
         main' \in MainStates, main'.promote = main.promote, main'.last = main.last,
         \/ main' = main
         \/ main.pc = "raise" /\ main'.pc = "promote",
         worker' \in [Workers -> WorkerStates], NEW w \in Workers,
         \A v \in Workers : v # w => worker'[v] = worker[v],
         worker'[w].stop /\ ~worker[w].stop => main.pc = "clear",
         worker[w].stop => worker'[w].stop,
         worker'[w].pc = "exit" => worker'[w].stop,
         worker'[w].pc = "exited" => worker[w].pc = "exited"
  PROVE  ServerInv'
<1> USE DEF ServerInv
<1>1. Types' /\ CapInv'
  BY DEF Types, CapInv, Taken
<1>2. \A v \in Workers : worker'[v].pc = "exited" => worker[v].pc = "exited"
  OBVIOUS
<1>3. Phases'
  <2>1. \A v \in Workers : /\ worker'[v].stop /\ v \in tasks => main.pc = "clear"
                           /\ worker'[v].pc \in {"exit", "exited"} => worker'[v].stop
    BY Zenon DEF Phases
  <2> QED
    BY <2>1 DEF Phases, Leaving
<1>4. Story'
  <2> SUFFICES ASSUME NEW s \in Sessions PROVE Story!(s)'
    BY DEF Story
  <2>1. Submitting(s)' <=> Submitting(s)
    BY ZenonT(60) DEF Submitting
  <2>2. sess[s].at = "worker" => sess[s].owner \in Workers
    BY DEF Story, Types
  <2>3. main.pc = "raise" => ~main.last
    BY DEF Phases
  <2> QED
    BY Zenon, <1>2, <2>1, <2>2, <2>3 DEF Story
<1>5. Promoting'
  BY DEF Promoting
<1>6. Backlog'
  <2>1. At("backlog")' = At("backlog")
    BY DEF At
  <2> QED
    BY <2>1, BacklogKeeps
<1> QED
  BY <1>1, <1>3, <1>4, <1>5, <1>6

\* A worker looks at its flag and its set: it leaves, waits or ticks.
LEMMA CheckStep == ASSUME ServerInv, NEW w \in Workers, Check(w) PROVE ServerInv'
<1> USE DEF ServerInv
<1>0. UNCHANGED <<plan, sess, main, tasks, backend, closing>>
  BY DEF Check
<1>1. PICK pc \in {"exit", "tested", "tick"} :
        worker' = [worker EXCEPT ![w].pc = pc] /\ (pc = "exit" => worker[w].stop)
  BY Zenon DEF Check
<1>2. /\ worker' \in [Workers -> WorkerStates] /\ worker'[w].stop = worker[w].stop /\ worker'[w].pc = pc
      /\ \A v \in Workers : v # w => worker'[v] = worker[v]
  BY <1>1 DEF Types, WorkerStates
<1>3. /\ worker'[w].stop /\ ~worker[w].stop => main.pc = "clear"
      /\ worker[w].stop => worker'[w].stop
      /\ worker'[w].pc = "exit" => worker'[w].stop
      /\ worker'[w].pc = "exited" => worker[w].pc = "exited"
  BY <1>1, <1>2
<1> QED
  BY <1>0, <1>2, <1>3, WorkerFrame DEF Types

\* A worker with nothing to serve goes to sleep (cv.wait).
LEMMA SleepStep == ASSUME ServerInv, NEW w \in Workers, Sleep(w) PROVE ServerInv'
<1> USE DEF ServerInv
<1>0. UNCHANGED <<plan, sess, main, tasks, backend, closing>>
  BY DEF Sleep
<1>2. /\ worker' \in [Workers -> WorkerStates] /\ worker'[w].stop = worker[w].stop /\ worker'[w].pc = "asleep"
      /\ \A v \in Workers : v # w => worker'[v] = worker[v]
  BY DEF Sleep, Types, WorkerStates
<1>3. /\ worker'[w].stop /\ ~worker[w].stop => main.pc = "clear"
      /\ worker[w].stop => worker'[w].stop
      /\ worker'[w].pc = "exit" => worker'[w].stop
      /\ worker'[w].pc = "exited" => worker[w].pc = "exited"
  BY <1>2
<1> QED
  BY <1>0, <1>2, <1>3, WorkerFrame DEF Types

\* The second half of SubmitSession: WorkerSignal::Raise.
LEMMA RaiseStep == ASSUME ServerInv, SubmitSession, main.pc = "raise" PROVE ServerInv'
<1> USE DEF ServerInv
<1> DEFINE w == main.target
<1>0. /\ UNCHANGED <<plan, sess, tasks, backend, closing>>
      /\ worker' = [worker EXCEPT ![w].pc = Notified(w)]
      /\ main' = [main EXCEPT !.pc = "promote", !.current = None, !.target = 0]
  BY DEF SubmitSession
<1>1. w \in Workers
  BY DEF Phases, Types
<1>2. main' = [[[main EXCEPT !.pc = "promote"] EXCEPT !.current = None] EXCEPT !.target = 0]
  BY Zenon, <1>0
<1>3. /\ main' \in MainStates /\ main'.pc = "promote" /\ main'.promote = main.promote
      /\ main'.last = main.last
  BY Zenon, <1>2 DEF Types, MainStates, MainPlaces
<1> HIDE DEF w
<1>4. /\ worker' \in [Workers -> WorkerStates] /\ worker'[w].stop = worker[w].stop
      /\ worker'[w].pc = Notified(w)
      /\ \A v \in Workers : v # w => worker'[v] = worker[v]
  BY <1>0, <1>1 DEF Types, WorkerStates, Notified
<1>5. /\ worker'[w].stop /\ ~worker[w].stop => main.pc = "clear"
      /\ worker[w].stop => worker'[w].stop
      /\ worker'[w].pc = "exit" => worker'[w].stop
      /\ worker'[w].pc = "exited" => worker[w].pc = "exited"
  BY <1>1, <1>4 DEF Notified, Phases
<1> QED
  BY <1>0, <1>1, <1>3, <1>4, <1>5, WorkerFrame
-----------------------------------------------------------------------------
(* The worker a session goes to, and the one that is stopped next *)

\* A set of natural numbers has a smallest.
LEMMA SmallestOf ==
  ASSUME NEW S \in SUBSET Nat, S # {}
  PROVE  \E m \in S : \A n \in S : m <= n
<1> DEFINE R == OpToRel(<, Nat)
<1>1. IsWellFoundedOn(R, Nat)
  BY Zenon, NatLessThanWellFounded
<1>2. \A m, n \in Nat : m < n => <<m, n>> \in R
  BY DEF OpToRel
<1> HIDE DEF R
<1>3. PICK m \in S : \A n \in S : ~(<<n, m>> \in R)
  BY Zenon, <1>1, WFMin
<1>4. \A n \in S : ~(n < m)
  BY Zenon, <1>2, <1>3
<1> QED
  BY <1>4

\* SelectNextTask finds a worker among those that are left.
LEMMA SomeTask == ASSUME Types, tasks # {} PROVE SelectNextTask \in tasks
<1>1. \A w \in tasks : Count(w) \in Nat
  <2> SUFFICES ASSUME NEW w \in tasks PROVE Count(w) \in Nat
    OBVIOUS
  <2>1. Held(w) \in SUBSET Sessions
    BY DEF Held, At
  <2>2. IsFiniteSet(Held(w))
    BY <2>1, ServerAssumption, FS_Subset
  <2> QED
    BY <2>2, FS_CardinalityType DEF Count
<1>2. tasks \subseteq Nat
  BY ServerAssumption DEF Types, Workers
<1> DEFINE S == {Count(w) : w \in tasks}
<1>3. S \in SUBSET Nat /\ S # {}
  BY <1>1
<1>4. PICK m \in S : \A n \in S : m <= n
  <2> HIDE DEF S
  <2> QED
    BY <1>3, SmallestOf
<1> DEFINE E == {w \in tasks : Count(w) = m}
<1>5. E \in SUBSET Nat /\ E # {}
  BY <1>2, <1>4
<1>6. PICK w \in E : \A v \in E : w <= v
  <2> HIDE DEF E
  <2> QED
    BY <1>5, SmallestOf
<1>7. w \in tasks /\ \A v \in tasks : Count(w) < Count(v) \/ (Count(w) = Count(v) /\ w <= v)
  BY <1>1, <1>3, <1>4, <1>6
<1> QED
  BY Zenon, <1>7 DEF SelectNextTask

\* tasks_.clear() begins with the first of those that are left.
LEMMA FirstTask ==
  ASSUME Types, tasks # {}
  PROVE  (CHOOSE v \in tasks : \A u \in tasks : v <= u) \in tasks
<1>1. tasks \in SUBSET Nat
  BY ServerAssumption DEF Types, Workers
<1>2. \E v \in tasks : \A u \in tasks : v <= u
  BY <1>1, SmallestOf
<1> QED
  BY Zenon, <1>2

\* ~TaskData asks a worker to stop, joins one that has, or has joined them all.
LEMMA ClearTasksStep == ASSUME ServerInv, ClearTasks PROVE ServerInv'
<1> USE DEF ServerInv
<1> DEFINE w == CHOOSE v \in tasks : \A u \in tasks : v <= u
<1>0. main.pc = "clear" /\ UNCHANGED <<plan, backend, closing>>
  BY DEF ClearTasks
<1>1. tasks # {} => w \in tasks /\ w \in Workers
  BY FirstTask DEF Types
<1>2. \/ /\ tasks # {} /\ ~worker[w].stop
         /\ worker' = [worker EXCEPT ![w] = [pc |-> Notified(w), stop |-> TRUE]]
         /\ UNCHANGED <<sess, main, tasks>>
      \/ /\ tasks # {} /\ worker[w].pc = "exited"
         /\ tasks' = tasks \ {w}
         /\ sess' = [s \in Sessions |-> IF s \in Held(w) THEN Dropped(sess[s]) ELSE sess[s]]
         /\ UNCHANGED <<main, worker>>
      \/ tasks = {} /\ Goto("disconnect") /\ UNCHANGED <<sess, worker, tasks>>
  BY Zenon DEF ClearTasks
<1> HIDE DEF w
<1>3. CASE /\ tasks # {} /\ ~worker[w].stop
           /\ worker' = [worker EXCEPT ![w] = [pc |-> Notified(w), stop |-> TRUE]]
           /\ UNCHANGED <<sess, main, tasks>>
  <2>1. [pc |-> Notified(w), stop |-> TRUE] \in WorkerStates
    BY <1>1, <1>3 DEF Types, WorkerStates, Notified
  <2>2. /\ worker' \in [Workers -> WorkerStates] /\ worker'[w].stop /\ worker'[w].pc = Notified(w)
        /\ \A v \in Workers : v # w => worker'[v] = worker[v]
    BY <1>1, <1>3, <2>1 DEF Types
  <2>3. worker'[w].pc = "exited" => worker[w].pc = "exited"
    BY <2>2 DEF Notified
  <2> QED
    BY ZenonT(60), <1>0, <1>1, <1>3, <2>2, <2>3, WorkerFrame DEF Types
<1>4. CASE /\ tasks # {} /\ worker[w].pc = "exited"
           /\ tasks' = tasks \ {w}
           /\ sess' = [s \in Sessions |-> IF s \in Held(w) THEN Dropped(sess[s]) ELSE sess[s]]
           /\ UNCHANGED <<main, worker>>
  <2>1. \A s \in Sessions : /\ sess[s] \in SessStates
                            /\ sess'[s] = IF s \in Held(w) THEN Dropped(sess[s]) ELSE sess[s]
    BY <1>4 DEF Types
  <2>2. \A s \in Sessions :
          /\ sess'[s] \in SessStates
          /\ s \in Held(w) =>
               sess'[s].at = "gone" /\ sess'[s].alive = FALSE /\ sess'[s].handler = sess[s].handler
          /\ s \notin Held(w) => sess'[s] = sess[s]
    BY ZenonT(60), <2>1, DroppedFacts
  <2>3. \A s \in Sessions : s \in Held(w) <=> sess[s].at = "worker" /\ sess[s].owner = w
    BY DEF Held, At
  <2>4. Types'
    BY <1>0, <1>4, <2>2 DEF Types
  <2>5. Phases'
    BY <1>0, <1>4 DEF Phases, Leaving
  <2>6. Story'
    <3> SUFFICES ASSUME NEW s \in Sessions PROVE Story!(s)'
      BY DEF Story
    <3>1. ~Submitting(s) /\ ~Submitting(s)'
      BY Zenon, <1>0, <1>4 DEF Submitting
    <3>2. CASE s \in Held(w)
      <4>1. s \notin main.promote /\ ~sess[s].handler
        BY <1>4, <2>3, <3>2 DEF Story
      <4>2. sess'[s].at = "gone" /\ ~sess'[s].alive /\ ~sess'[s].handler
        BY Zenon, <2>2, <3>2, <4>1
      <4> QED
        BY Zenon, <1>4, <3>1, <4>1, <4>2 DEF None
    <3>3. CASE s \notin Held(w)
      <4>1. sess'[s] = sess[s] /\ main' = main /\ worker' = worker
        BY Zenon, <1>4, <2>2, <3>3
      <4>2. Story!(s)
        BY Zenon, <1>0 DEF Story
      <4>3. sess[s].at = "worker" => sess[s].owner \in tasks'
        <5>1. sess[s].at = "worker" => sess[s].owner # w /\ sess[s].owner \in tasks
          BY Zenon, <2>3, <3>3, <4>2
        <5> QED BY <1>4, <5>1
      <4> QED BY ZenonT(60), <3>1, <4>1, <4>2, <4>3
    <3> QED
      BY Zenon, <3>2, <3>3
  <2>7. Promoting'
    BY ZenonT(60), <1>4 DEF Promoting
  <2>8. Backlog'
    <3>1. At("backlog")' \subseteq At("backlog")
      BY <2>2 DEF At
    <3> QED
      BY <1>0, <1>4, <3>1, BacklogKeeps
  <2>9. CapInv'
    <3>1. Taken' \subseteq Taken
      BY ZenonT(60), <2>2 DEF Taken
    <3> QED
      BY <1>0, <3>1, CapKeeps
  <2> QED
    BY <2>4, <2>5, <2>6, <2>7, <2>8, <2>9
<1>5. CASE tasks = {} /\ Goto("disconnect") /\ UNCHANGED <<sess, worker, tasks>>
  <2>1. main'.pc = "disconnect" /\ main'.last = main.last /\ main'.target = main.target
    BY <1>5, GotoFacts DEF Types, MainPlaces
  <2>2. ~main.last /\ main.promote = {} /\ closing["main"] = "no"
    BY Zenon, <1>0 DEF Phases, Promoting
  <2>3. Phases'
    BY <1>0, <1>5, <2>1, <2>2 DEF Phases, Leaving
  <2>4. Backlog'
    <3>1. At("backlog")' = At("backlog")
      BY <1>5 DEF At
    <3> QED
      BY <1>0, <2>1, <3>1, BacklogKeeps
  <2> QED
    BY Zenon, <1>0, <1>5, <2>2, <2>3, <2>4, MainMoves DEF Types, MainPlaces
<1> QED
  BY <1>2, <1>3, <1>4, <1>5
-----------------------------------------------------------------------------
(* Sessions come, die, and go through the hands of the main loop *)

\* The backend queues a new session until Accept() returns it.
LEMMA ArriveStep == ASSUME ServerInv, NEW s \in Sessions, Arrive(s) PROVE ServerInv'
<1> USE DEF ServerInv
<1>0. /\ sess[s].at = None /\ UNCHANGED <<plan, main, worker, tasks, backend, closing>>
      /\ IF plan.backend = "ZDT" THEN backend.receive = "running" ELSE backend.listening
  BY DEF Arrive
<1>1. sess' = [[sess EXCEPT ![s].at = "backlog"] EXCEPT ![s].alive = TRUE]
  BY Zenon DEF Arrive
<1>2. /\ sess' \in [Sessions -> SessStates]
      /\ sess'[s].at = "backlog" /\ sess'[s].told = sess[s].told
      /\ sess'[s].handler = sess[s].handler /\ sess'[s].ready = sess[s].ready
      /\ \A u \in Sessions : u # s => sess'[u] = sess[u]
  BY ZenonT(60), <1>1 DEF Types, SessStates, Places
<1>3. Types' /\ Promoting'
  BY <1>0, <1>2 DEF Types, Promoting
<1>4. Phases'
  BY <1>0 DEF Phases, Leaving
<1>5. Story'
  <2> SUFFICES ASSUME NEW u \in Sessions PROVE Story!(u)'
    BY Zenon DEF Story
  <2>1. Submitting(u)' <=> Submitting(u)
    BY Zenon, <1>0 DEF Submitting
  <2>2. CASE u = s
    <3>1. ~Submitting(s) /\ s \notin main.promote /\ sess[s].told = <<>> /\ ~sess[s].handler /\ ~sess[s].ready
      BY <1>0 DEF Story, None
    <3>2. sess'[s].told = <<>> /\ ~sess'[s].handler /\ ~sess'[s].ready
      BY Zenon, <1>2, <3>1
    <3> QED
      BY Zenon, <1>0, <1>2, <2>1, <2>2, <3>1, <3>2
  <2>3. CASE u # s
    BY Zenon, <1>0, <1>2, <2>1, <2>3 DEF Story
  <2> QED
    BY <2>2, <2>3
<1>6. Backlog'
  <2>1. \A t \in Threads : InClose(t)' <=> InClose(t)
    BY <1>0 DEF InClose
  <2> QED
    BY <1>0, <2>1 DEF Backlog
<1>7. CapInv'
  <2>1. Taken' \subseteq Taken
    BY <1>2 DEF Taken
  <2> QED
    BY <1>0, <2>1, CapKeeps
<1> QED
  BY <1>3, <1>4, <1>5, <1>6, <1>7

\* A session is closed by its peer, its transport or the application.
LEMMA DieStep == ASSUME ServerInv, NEW s \in Sessions, Die(s) PROVE ServerInv'
<1> USE DEF ServerInv
<1>0. /\ UNCHANGED <<plan, main, worker, tasks, backend, closing>>
      /\ sess' = [sess EXCEPT ![s].alive = FALSE]
  BY DEF Die
<1>2. /\ sess' \in [Sessions -> SessStates]
      /\ \A u \in Sessions :
           /\ sess'[u].at = sess[u].at /\ sess'[u].told = sess[u].told /\ sess'[u].owner = sess[u].owner
           /\ sess'[u].handler = sess[u].handler /\ sess'[u].ready = sess[u].ready
           /\ sess'[u].alive => sess[u].alive
  BY ZenonT(60), <1>0 DEF Types, SessStates
<1>3. Types' /\ Promoting'
  BY <1>0, <1>2 DEF Types, Promoting
<1>4. Phases'
  BY <1>0 DEF Phases, Leaving
<1>5. Story'
  <2> SUFFICES ASSUME NEW u \in Sessions PROVE Story!(u)'
    BY DEF Story
  <2>1. Submitting(u)' <=> Submitting(u)
    BY <1>0 DEF Submitting
  <2> QED
    BY <1>0, <1>2, <2>1 DEF Story
<1>6. Backlog'
  <2>1. At("backlog")' \subseteq At("backlog")
    BY <1>2 DEF At
  <2> QED
    BY <1>0, <2>1, BacklogKeeps
<1>7. CapInv'
  <2>1. Taken' \subseteq Taken
    BY <1>2 DEF Taken
  <2> QED
    BY <1>0, <2>1, CapKeeps
<1> QED
  BY <1>3, <1>4, <1>5, <1>6, <1>7

\* ActiveSessionCount counts the sessions the server has taken in, each once.
LEMMA ActiveIsTaken == ASSUME ServerInv, main.pc # "submit" PROVE ActiveSessionCount = Cardinality(Taken)
<1> DEFINE P == At("pending")
           H == UNION {Held(w) : w \in tasks}
<1>1. P \in SUBSET Sessions /\ H \in SUBSET Sessions
  BY DEF At, Held
<1>2. IsFiniteSet(P) /\ IsFiniteSet(H)
  BY <1>1, ServerAssumption, FS_Subset
<1>3. P \cap H = {}
  BY DEF At, Held
<1>4. P \cup H = Taken
  BY DEF At, Held, Taken, ServerInv, Story
<1>5. Cardinality(P \cup H) = Cardinality(P) + Cardinality(H) - Cardinality(P \cap H)
  BY <1>2, FS_Union
<1>6. Cardinality(P) \in Nat /\ Cardinality(H) \in Nat
  BY <1>2, FS_CardinalityType
<1> HIDE DEF P, H
<1>7. Cardinality(Taken) = Cardinality(P) + Cardinality(H)
  BY <1>3, <1>4, <1>5, <1>6, FS_EmptySet
<1> QED
  BY <1>7 DEF ActiveSessionCount, P, H

\* CheckNetwork accepts a session, or refuses it at the limit.
LEMMA CheckNetworkStep == ASSUME ServerInv, NEW s \in Sessions, CheckNetwork(s) PROVE ServerInv'
<1> USE DEF ServerInv
<1> DEFINE full == plan.cap > 0 /\ ActiveSessionCount >= plan.cap
           new == IF full THEN Dropped(sess[s]) ELSE [sess[s] EXCEPT !.at = "pending"]
<1>0. /\ main.pc = "accept" /\ sess[s].at = "backlog"
      /\ UNCHANGED <<plan, main, worker, tasks, backend, closing>>
  BY DEF CheckNetwork
<1>1. sess' = [sess EXCEPT ![s] = new]
  BY Zenon DEF CheckNetwork
<1>2. sess[s] \in SessStates
  BY DEF Types
<1>3. /\ new \in SessStates /\ new.told = sess[s].told /\ new.handler = sess[s].handler
      /\ new.ready = sess[s].ready
      /\ new.at = IF full THEN "gone" ELSE "pending"
      /\ full => new.alive = FALSE
  <2>1. CASE full
    BY Zenon, <1>2, <2>1, DroppedFacts
  <2>2. CASE ~full
    BY <1>2, <2>2 DEF SessStates, Places
  <2> QED
    BY Zenon, <2>1, <2>2
<1> HIDE DEF new
<1>4. sess' \in [Sessions -> SessStates] /\ sess'[s] = new /\ \A u \in Sessions : u # s => sess'[u] = sess[u]
  BY <1>1, <1>3 DEF Types
<1>5. Types' /\ Promoting'
  BY <1>0, <1>4 DEF Types, Promoting
<1>6. Phases'
  BY <1>0 DEF Phases, Leaving
<1>7. Story'
  <2> SUFFICES ASSUME NEW u \in Sessions PROVE Story!(u)'
    BY DEF Story
  <2>1. ~Submitting(u)' /\ ~Submitting(u)
    BY Zenon, <1>0 DEF Submitting
  <2>2. CASE u = s
    <3>1. s \notin main.promote /\ sess[s].told = <<>> /\ ~sess[s].handler /\ ~sess[s].ready
      BY Zenon, <1>0 DEF Story
    <3>2. ~main.last
      BY <1>0 DEF Phases
    <3>3. sess'[s].told = <<>> /\ ~sess'[s].handler /\ ~sess'[s].ready
      BY <1>3, <1>4, <3>1
    <3>4. sess'[s].at \in {"gone", "pending"} /\ (sess'[s].at = "gone" => ~sess'[s].alive)
      BY Zenon, <1>3, <1>4
    <3> QED
      BY Zenon, <1>0, <2>1, <2>2, <3>1, <3>2, <3>3, <3>4 DEF None
  <2>3. CASE u # s
    BY <1>0, <1>4, <2>1, <2>3 DEF Story
  <2> QED
    BY <2>2, <2>3
<1>8. Backlog'
  <2>1. At("backlog")' \subseteq At("backlog")
    BY <1>0, <1>4 DEF At
  <2> QED
    BY <1>0, <2>1, BacklogKeeps
<1>9. CapInv'
  <2>1. CASE full
    <3>1. Taken' \subseteq Taken
      BY <1>3, <1>4, <2>1 DEF Taken
    <3> QED
      BY Zenon, <1>0, <3>1, CapKeeps
  <2>2. CASE ~full
    <3>1. Taken' = Taken \cup {s} /\ s \notin Taken
      BY <1>0, <1>3, <1>4, <2>2 DEF Taken
    <3>2. IsFiniteSet(Taken)
      BY ServerAssumption, FS_Subset, Taken \in SUBSET Sessions DEF Taken
    <3>3. Cardinality(Taken') = Cardinality(Taken) + 1 /\ Cardinality(Taken) \in Nat
      BY Zenon, <3>1, <3>2, FS_AddElement, FS_CardinalityType
    <3>4. ActiveSessionCount = Cardinality(Taken) /\ plan.cap \in Nat
      BY <1>0, ActiveIsTaken, ServerAssumption DEF Types
    <3> QED
      BY SMTT(30), <1>0, <2>2, <3>3, <3>4 DEF CapInv
  <2> QED
    BY <2>1, <2>2
<1> QED
  BY <1>5, <1>6, <1>7, <1>8, <1>9

\* Dead pending sessions leave, and some of the others finish their handshake.
LEMMA CleanupPendingStep == ASSUME ServerInv, CleanupPending PROVE ServerInv'
<1> USE DEF ServerInv
<1>0. /\ main.pc = "cleanup" /\ Goto("settle")
      /\ UNCHANGED <<plan, worker, tasks, backend, closing>>
  BY DEF CleanupPending
<1>1. PICK settled \in SUBSET {s \in At("pending") : sess[s].alive} :
        sess' = [s \in Sessions |->
                   IF sess[s].at # "pending" THEN sess[s]
                   ELSE IF ~sess[s].alive THEN Cleaned(sess[s])
                   ELSE [sess[s] EXCEPT !.ready = @ \/ s \in settled]]
  BY Zenon DEF CleanupPending
<1>2. /\ main' \in MainStates /\ main'.pc = "settle" /\ main'.promote = main.promote
      /\ main'.last = main.last
  BY <1>0, GotoFacts DEF Types, MainPlaces
<1>3. main.promote = {}
  BY <1>0 DEF Promoting
<1>4. \A s \in Sessions : sess[s] \in SessStates
  BY DEF Types
<1>5. \A s \in Sessions : sess[s].at = "pending" => sess[s].told = <<>> /\ sess[s].ready = FALSE /\ ~sess[s].handler
  <2> SUFFICES ASSUME NEW s \in Sessions, sess[s].at = "pending"
               PROVE  sess[s].told = <<>> /\ sess[s].ready = FALSE /\ ~sess[s].handler
    BY Zenon
  <2>1. ~Submitting(s)
    BY <1>0 DEF Submitting
  <2>2. sess[s].told = <<>> /\ ~sess[s].ready /\ ~sess[s].handler
    BY <1>0, <1>3, <2>1 DEF Story
  <2>3. sess[s].ready \in BOOLEAN
    BY <1>4 DEF SessStates
  <2> QED
    BY <2>2, <2>3
<1>6. \A s \in Sessions : sess[s].at # "pending" => sess'[s] = sess[s]
  BY <1>1
<1>7. \A s \in Sessions : sess[s].at = "pending" /\ ~sess[s].alive =>
        sess'[s] \in SessStates /\ sess'[s].at = "gone" /\ ~sess'[s].handler /\ ~sess'[s].alive
  <2> SUFFICES ASSUME NEW s \in Sessions, sess[s].at = "pending", ~sess[s].alive
               PROVE  sess'[s] \in SessStates /\ sess'[s].at = "gone" /\ ~sess'[s].handler /\ ~sess'[s].alive
    OBVIOUS
  <2>1. sess'[s] = Cleaned(sess[s])
    BY <1>1
  <2>2. sess[s].told = IF sess[s].ready THEN <<"connected">> ELSE <<>>
    BY <1>5
  <2>3. sess[s] \in SessStates
    BY <1>4
  <2>4. /\ Cleaned(sess[s]) \in SessStates /\ Cleaned(sess[s]).at = "gone"
        /\ Cleaned(sess[s]).handler = FALSE /\ Cleaned(sess[s]).alive = sess[s].alive
    BY Zenon, <2>2, <2>3, CleanedFacts
  <2> QED
    BY <2>1, <2>4
<1>8. \A s \in Sessions : sess[s].at = "pending" /\ sess[s].alive =>
        /\ sess'[s] \in SessStates /\ sess'[s].at = "pending" /\ sess'[s].told = <<>> /\ ~sess'[s].handler
  <2> SUFFICES ASSUME NEW s \in Sessions, sess[s].at = "pending", sess[s].alive
               PROVE  /\ sess'[s] \in SessStates /\ sess'[s].at = "pending"
                      /\ sess'[s].told = <<>> /\ ~sess'[s].handler
    OBVIOUS
  <2>1. sess'[s] = [sess[s] EXCEPT !.ready = s \in settled]
    BY <1>1, <1>5
  <2> QED
    BY <1>4, <1>5, <2>1 DEF SessStates
<1>9. sess' \in [Sessions -> SessStates]
  <2>1. \A s \in Sessions : sess'[s] \in SessStates
    BY <1>4, <1>6, <1>7, <1>8
  <2>2. sess' = [s \in Sessions |-> sess'[s]]
    BY <1>1
  <2> QED
    BY Zenon, <2>1, <2>2
<1>10. Types' /\ Promoting'
  BY Zenon, <1>0, <1>2, <1>3, <1>9 DEF Types, Promoting
<1>11. Phases'
  BY ZenonT(60), <1>0, <1>2 DEF Phases, Leaving
<1>12. Story'
  <2> SUFFICES ASSUME NEW s \in Sessions PROVE Story!(s)'
    BY Zenon DEF Story
  <2>1. ~Submitting(s)' /\ ~Submitting(s)
    BY <1>0, <1>2 DEF Submitting
  <2>2. s \notin main'.promote
    BY Zenon, <1>2, <1>3
  <2>3. CASE sess[s].at # "pending"
    BY Zenon, <1>0, <1>2, <1>6, <2>1, <2>2, <2>3 DEF Story
  <2>4. CASE sess[s].at = "pending" /\ ~sess[s].alive
    BY Zenon, <1>7, <2>1, <2>2, <2>4 DEF None
  <2>5. CASE sess[s].at = "pending" /\ sess[s].alive
    <3>1. ~main.last
      BY <2>5 DEF Story
    <3> QED
      BY Zenon, <1>2, <1>8, <2>1, <2>2, <2>5, <3>1 DEF None
  <2> QED
    BY Zenon, <2>3, <2>4, <2>5
<1>13. Backlog'
  <2>1. At("backlog")' \subseteq At("backlog")
    BY <1>6, <1>7, <1>8 DEF At
  <2> QED
    BY <1>0, <1>2, <2>1, BacklogKeeps
<1>14. CapInv'
  <2>1. Taken' \subseteq Taken
    BY <1>6, <1>7, <1>8 DEF Taken
  <2> QED
    BY <1>0, <2>1, CapKeeps
<1> QED
  BY <1>10, <1>11, <1>12, <1>13, <1>14

\* connection_timeout closes pending sessions, and those that are ready are picked
\* for promotion.
LEMMA SettlePendingStep == ASSUME ServerInv, SettlePending PROVE ServerInv'
<1> USE DEF ServerInv
<1> DEFINE R == {s \in At("pending") : sess[s].ready}
<1>0. /\ main.pc = "settle" /\ main' = [main EXCEPT !.pc = "promote", !.promote = R]
      /\ UNCHANGED <<plan, worker, tasks, backend, closing>>
  BY DEF SettlePending
<1>1. PICK late \in SUBSET {s \in At("pending") : ~sess[s].ready} :
        sess' = [s \in Sessions |-> IF s \in late THEN Closed(sess[s]) ELSE sess[s]]
  BY DEF SettlePending
<1>2. R \subseteq Sessions /\ \A s \in Sessions : s \in R <=> sess[s].at = "pending" /\ sess[s].ready
  BY DEF At
<1>2a. main' = [[main EXCEPT !.pc = "promote"] EXCEPT !.promote = R]
  BY Zenon, <1>0
<1> HIDE DEF R
<1>3. /\ main' \in MainStates /\ main'.pc = "promote" /\ main'.promote = R
      /\ main'.last = main.last
  BY Zenon, <1>2, <1>2a DEF Types, MainStates, MainPlaces
<1>4. \A s \in Sessions :
        /\ sess'[s] \in SessStates
        /\ sess'[s].at = sess[s].at /\ sess'[s].told = sess[s].told /\ sess'[s].owner = sess[s].owner
        /\ sess'[s].handler = sess[s].handler /\ sess'[s].ready = sess[s].ready
        /\ sess'[s].alive => sess[s].alive
  <2> SUFFICES ASSUME NEW s \in Sessions PROVE <1>4!(s)
    OBVIOUS
  <2>1. sess[s] \in SessStates /\ sess'[s] = IF s \in late THEN Closed(sess[s]) ELSE sess[s]
    BY <1>1 DEF Types
  <2> QED
    BY Zenon, <2>1, ClosedFacts
<1>5. sess' \in [Sessions -> SessStates]
  <2>1. sess' = [s \in Sessions |-> sess'[s]]
    BY <1>1
  <2> QED
    BY Zenon, <1>4, <2>1
<1>6. Types' /\ Promoting'
  BY <1>0, <1>3, <1>5 DEF Types, Promoting
<1>7. Phases'
  BY <1>0, <1>3 DEF Phases, Leaving
<1>8. Story'
  <2> SUFFICES ASSUME NEW s \in Sessions PROVE Story!(s)'
    BY DEF Story
  <2>1. ~Submitting(s)' /\ ~Submitting(s)
    BY <1>0, <1>3 DEF Submitting
  <2>2. ~(main.last /\ sess[s].at = "pending")
    BY <1>0 DEF Story
  <2>3. Story!(s)
    BY Zenon DEF Story
  <2>4. /\ sess'[s].at = sess[s].at /\ sess'[s].told = sess[s].told /\ sess'[s].owner = sess[s].owner
        /\ sess'[s].handler = sess[s].handler /\ sess'[s].ready = sess[s].ready
        /\ sess'[s].alive => sess[s].alive
    BY Zenon, <1>4
  <2>5. /\ s \in main'.promote <=> sess[s].at = "pending" /\ sess[s].ready
        /\ tasks' = tasks /\ worker' = worker /\ main'.last = main.last
    BY Zenon, <1>0, <1>2, <1>3
  <2> HIDE DEF ServerInv
  <2> QED
    BY ZenonT(60), <2>1, <2>2, <2>3, <2>4, <2>5
<1>9. Backlog'
  <2>1. At("backlog")' \subseteq At("backlog")
    BY <1>4 DEF At
  <2> QED
    BY <1>0, <1>3, <2>1, BacklogKeeps
<1>10. CapInv'
  <2>1. Taken' \subseteq Taken
    BY <1>4 DEF Taken
  <2> QED
    BY <1>0, <2>1, CapKeeps
<1> QED
  BY <1>6, <1>7, <1>8, <1>9, <1>10

\* PromoteReady and SubmitSession up to the connect event; without a worker the
\* session is dropped.
LEMMA PromoteReadyStep == ASSUME ServerInv, NEW s \in Sessions, PromoteReady(s) PROVE ServerInv'
<1> USE DEF ServerInv
<1>0. /\ main.pc = "promote" /\ s \in main.promote
      /\ UNCHANGED <<plan, worker, tasks, backend, closing>>
  BY DEF PromoteReady
<1>1. /\ sess[s].at = "pending" /\ sess[s].ready /\ sess[s].told = <<>> /\ ~sess[s].handler
      /\ \A u \in Sessions : ~Submitting(u)
  BY <1>0 DEF Story, Submitting
<1>2. sess[s] \in SessStates
  BY DEF Types
<1>3. CASE tasks = {}
  <2>1. /\ sess' = [sess EXCEPT ![s] = Dropped(sess[s])]
        /\ main' = [main EXCEPT !.promote = main.promote \ {s}]
    BY Zenon, <1>3 DEF PromoteReady
  <2>2. /\ main' \in MainStates /\ main'.pc = "promote" /\ main'.promote = main.promote \ {s}
        /\ main'.last = main.last
    BY <1>0, <2>1 DEF Types, MainStates
  <2>3. /\ Dropped(sess[s]) \in SessStates /\ Dropped(sess[s]).at = "gone"
        /\ Dropped(sess[s]).alive = FALSE /\ Dropped(sess[s]).handler = sess[s].handler
    BY Zenon, <1>2, DroppedFacts
  <2>4. /\ sess' \in [Sessions -> SessStates]
        /\ sess'[s].at = "gone" /\ ~sess'[s].alive /\ ~sess'[s].handler
        /\ \A u \in Sessions : u # s => sess'[u] = sess[u]
    BY <1>1, <2>1, <2>3 DEF Types
  <2>5. Types' /\ Promoting'
    BY <1>0, <2>2, <2>4 DEF Types, Promoting
  <2>6. Phases'
    BY <1>0, <2>2 DEF Phases, Leaving
  <2>7. Story'
    <3> SUFFICES ASSUME NEW u \in Sessions PROVE Story!(u)'
      BY DEF Story
    <3>1. ~Submitting(u)' /\ ~Submitting(u)
      BY Zenon, <1>1, <2>2 DEF Submitting
    <3>2. CASE u = s
      BY ZenonT(60), <2>2, <2>4, <3>1, <3>2 DEF None
    <3>3. CASE u # s
      BY ZenonT(60), <1>0, <2>2, <2>4, <3>1, <3>3 DEF Story
    <3> QED
      BY <3>2, <3>3
  <2>8. Backlog'
    <3>1. At("backlog")' \subseteq At("backlog")
      BY <2>4 DEF At
    <3> QED
      BY Zenon, <1>0, <2>2, <3>1, BacklogKeeps
  <2>9. CapInv'
    <3>1. Taken' \subseteq Taken
      BY <2>4 DEF Taken
    <3> QED
      BY <1>0, <3>1, CapKeeps
  <2> QED
    BY <2>5, <2>6, <2>7, <2>8, <2>9
<1>4. CASE tasks # {}
  <2>1. /\ sess' = [sess EXCEPT ![s].told = Append(@, "connected"), ![s].handler = TRUE]
        /\ main' = [main EXCEPT !.pc = "submit", !.promote = @ \ {s},
                                !.current = s, !.target = SelectNextTask]
    BY Zenon, <1>4 DEF PromoteReady
  <2>2. SelectNextTask \in tasks /\ SelectNextTask \in Nat
    <3>1. SelectNextTask \in tasks
      BY <1>4, SomeTask
    <3>2. tasks \subseteq Nat
      BY ServerAssumption DEF Types, Workers
    <3> QED
      BY <3>1, <3>2
  <2>3. main' = [pc |-> "submit", promote |-> main.promote \ {s}, current |-> s,
                 target |-> SelectNextTask, last |-> main.last]
    BY Zenon, <2>1 DEF Types, MainStates
  <2>4. /\ main' \in MainStates /\ main'.pc = "submit" /\ main'.promote = main.promote \ {s}
        /\ main'.current = s /\ main'.target \in tasks /\ main'.last = main.last
    BY <2>2, <2>3 DEF Types, MainStates, MainPlaces
  <2>5. sess' = [[sess EXCEPT ![s].told = Append(sess[s].told, "connected")] EXCEPT ![s].handler = TRUE]
    BY Zenon, <2>1
  <2>6. sess' = [[sess EXCEPT ![s].told = <<"connected">>] EXCEPT ![s].handler = TRUE]
    BY <1>1, <2>5, ToldFacts
  <2>7. <<"connected">> \in Told
    BY DEF Told
  <2>8. /\ sess' \in [Sessions -> SessStates]
        /\ sess'[s].at = sess[s].at /\ sess'[s].told = <<"connected">> /\ sess'[s].ready = sess[s].ready
        /\ \A u \in Sessions : u # s => sess'[u] = sess[u]
    BY ZenonT(60), <2>6, <2>7 DEF Types, SessStates
  <2>9. ~main.last
    BY <1>4 DEF Phases
  <2>10. Types' /\ Promoting'
    BY Zenon, <1>0, <2>4, <2>8 DEF Types, Promoting
  <2>11. Phases'
    BY Zenon, <1>0, <2>4, <2>9 DEF Phases, Leaving
  <2>12. Story'
    <3> SUFFICES ASSUME NEW u \in Sessions PROVE Story!(u)'
      BY DEF Story
    <3>1. (Submitting(u)' <=> u = s) /\ ~Submitting(u)
      BY Zenon, <1>1, <2>4 DEF Submitting
    <3>2. CASE u = s
      <4>1. sess'[s].at = "pending" /\ sess'[s].told = <<"connected">> /\ sess'[s].ready
        BY ZenonT(60), <1>1, <2>8
      <4> QED
        BY Zenon, <2>4, <2>9, <3>1, <3>2, <4>1 DEF None
    <3>3. CASE u # s
      <4>1. sess'[u] = sess[u] /\ tasks' = tasks /\ worker' = worker
        BY Zenon, <1>0, <2>8, <3>3
      <4>2. /\ main.pc = "promote" /\ ~main.last /\ ~main'.last
            /\ u \in main'.promote <=> u \in main.promote
        BY Zenon, <1>0, <2>4, <2>9, <3>3
      <4>3. Story!(u)
        BY Zenon DEF Story
      <4> HIDE DEF ServerInv
      <4> QED
        BY Zenon, <3>1, <3>3, <4>1, <4>2, <4>3
    <3> QED
      BY <3>2, <3>3
  <2>13. Backlog'
    <3>1. At("backlog")' \subseteq At("backlog")
      BY <2>8 DEF At
    <3> QED
      BY ZenonT(60), <1>0, <2>4, <3>1, BacklogKeeps
  <2>14. CapInv'
    <3>1. Taken' \subseteq Taken
      BY <2>8 DEF Taken
    <3> QED
      BY <1>0, <3>1, CapKeeps
  <2> QED
    BY <2>10, <2>11, <2>12, <2>13, <2>14
<1> QED
  BY <1>3, <1>4

\* SubmitSession, the first half: the session goes into the worker's set.
LEMMA SubmitStep == ASSUME ServerInv, SubmitSession, main.pc = "submit" PROVE ServerInv'
<1> USE DEF ServerInv
<1> DEFINE c == main.current
           w == main.target
<1>0. /\ sess' = [sess EXCEPT ![c].at = "worker", ![c].owner = w]
      /\ Goto("raise") /\ UNCHANGED <<plan, worker, tasks, backend, closing>>
  BY DEF SubmitSession
<1>1. /\ main' \in MainStates /\ main'.pc = "raise" /\ main'.promote = main.promote
      /\ main'.target = w /\ main'.last = main.last
  BY <1>0, GotoFacts DEF Types, MainPlaces
<1>2. w \in tasks /\ w \in Workers /\ w \in Nat /\ worker[w].pc # "exited" /\ ~main.last
  BY DEF Phases, Types, MainStates
<1>3. sess' = [[sess EXCEPT ![c].at = "worker"] EXCEPT ![c].owner = w]
  BY Zenon, <1>0
<1>4. \A s \in Sessions : Submitting(s) <=> s = c
  BY DEF Submitting
<1> HIDE DEF c, w
<1>5. /\ sess' \in [Sessions -> SessStates]
      /\ c \in Sessions => /\ sess'[c].at = "worker" /\ sess'[c].owner = w
                           /\ sess'[c].told = sess[c].told /\ sess'[c].ready = sess[c].ready
      /\ \A s \in Sessions : s # c => sess'[s] = sess[s]
  <2>1. CASE c \in Sessions
    <3> DEFINE f == [sess EXCEPT ![c].at = "worker"]
    <3>1. sess \in [Sessions -> SessStates] /\ "worker" \in Places
      BY DEF Types, Places
    <3>2. /\ f \in [Sessions -> SessStates] /\ f[c].at = "worker"
          /\ f[c].told = sess[c].told /\ f[c].ready = sess[c].ready
          /\ \A s \in Sessions : s # c => f[s] = sess[s]
      BY <2>1, <3>1 DEF SessStates
    <3>3. sess' = [f EXCEPT ![c].owner = w]
      BY <1>3
    <3> HIDE DEF f
    <3> QED
      BY <1>2, <2>1, <3>2, <3>3 DEF SessStates
  <2>2. CASE c \notin Sessions
    <3>1. sess \in [Sessions -> SessStates]
      BY DEF Types
    <3>2. sess' = sess
      BY <1>3, <2>2, <3>1
    <3> QED
      BY <2>2, <3>1, <3>2
  <2> QED
    BY <2>1, <2>2
<1>6. Types' /\ Promoting'
  BY <1>0, <1>1, <1>5 DEF Types, Promoting
<1>7. Phases'
  BY Zenon, <1>0, <1>1, <1>2 DEF Phases, Leaving
<1>8. Story'
  <2> SUFFICES ASSUME NEW s \in Sessions PROVE Story!(s)'
    BY DEF Story
  <2>1. ~Submitting(s)'
    BY ZenonT(60), <1>1 DEF Submitting
  <2>2. CASE s = c
    <3>1. sess[s].told = <<"connected">> /\ sess[s].ready /\ s \notin main.promote
      BY <1>4, <2>2 DEF Story
    <3>2. sess'[s].at = "worker" /\ sess'[s].owner = w /\ sess'[s].told = <<"connected">> /\ sess'[s].ready
      BY Zenon, <1>5, <2>2, <3>1
    <3>3. sess'[s].owner \in tasks' /\ worker'[sess'[s].owner].pc # "exited"
      BY <1>0, <1>2, <3>2
    <3> QED
      BY Zenon, <1>1, <2>1, <3>1, <3>2, <3>3 DEF None
  <2>3. CASE s # c
    BY <1>0, <1>1, <1>2, <1>4, <1>5, <2>1, <2>3 DEF Story
  <2> QED
    BY Zenon, <2>2, <2>3
<1>9. Backlog'
  <2>1. At("backlog")' \subseteq At("backlog")
    BY <1>5 DEF At
  <2> QED
    BY <1>0, <1>1, <2>1, BacklogKeeps
<1>10. CapInv'
  <2>1. c \in Sessions => sess[c].at = "pending"
    BY <1>4 DEF Story
  <2>2. Taken' \subseteq Taken
    BY <1>5, <2>1 DEF Taken
  <2> QED
    BY Zenon, <1>0, <2>2, CapKeeps
<1> QED
  BY <1>6, <1>7, <1>8, <1>9, <1>10

\* The shutdown closes every session that is still pending.
LEMMA DisconnectPendingStep == ASSUME ServerInv, DisconnectPending PROVE ServerInv'
<1> USE DEF ServerInv
<1>0. /\ main.pc = "disconnect" /\ main' = [main EXCEPT !.pc = "cleanup", !.last = TRUE]
      /\ sess' = [s \in Sessions |-> IF sess[s].at = "pending" THEN Closed(sess[s]) ELSE sess[s]]
      /\ UNCHANGED <<plan, worker, tasks, backend, closing>>
  BY DEF DisconnectPending
<1>1. main' = [[main EXCEPT !.pc = "cleanup"] EXCEPT !.last = TRUE]
  BY Zenon, <1>0
<1>2. main' \in MainStates /\ main'.pc = "cleanup" /\ main'.last /\ main'.promote = main.promote
  BY Zenon, <1>1 DEF Types, MainStates, MainPlaces
<1>3. main.promote = {} /\ tasks = {} /\ closing["main"] = "no"
  BY <1>0 DEF Phases, Promoting
<1>4. \A s \in Sessions :
        /\ sess'[s] \in SessStates
        /\ sess'[s].at = sess[s].at /\ sess'[s].told = sess[s].told /\ sess'[s].owner = sess[s].owner
        /\ sess'[s].handler = sess[s].handler /\ sess'[s].ready = sess[s].ready
        /\ sess[s].at = "pending" => sess'[s].alive = FALSE
        /\ sess[s].at # "pending" => sess'[s] = sess[s]
  <2> SUFFICES ASSUME NEW s \in Sessions PROVE <1>4!(s)
    BY Zenon
  <2>1. sess[s] \in SessStates /\ sess'[s] = IF sess[s].at = "pending" THEN Closed(sess[s]) ELSE sess[s]
    BY <1>0 DEF Types
  <2> QED
    BY Zenon, <2>1, ClosedFacts
<1>5. sess' \in [Sessions -> SessStates]
  <2>1. sess' = [s \in Sessions |-> sess'[s]]
    BY <1>0
  <2> QED
    BY Zenon, <1>4, <2>1
<1>6. Types' /\ Promoting'
  BY <1>0, <1>2, <1>3, <1>5 DEF Types, Promoting
<1>7. Phases'
  BY ZenonT(60), <1>0, <1>2, <1>3 DEF Phases, Leaving
<1>8. Story'
  <2> SUFFICES ASSUME NEW s \in Sessions PROVE Story!(s)'
    BY DEF Story
  <2>1. ~Submitting(s)' /\ ~Submitting(s)
    BY <1>0, <1>2 DEF Submitting
  <2> QED
    BY <1>0, <1>2, <1>3, <1>4, <2>1 DEF Story
<1>9. Backlog'
  <2>1. At("backlog")' \subseteq At("backlog")
    BY <1>4 DEF At
  <2> QED
    BY <1>0, <1>2, <2>1, BacklogKeeps
<1>10. CapInv'
  <2>1. Taken' \subseteq Taken
    BY <1>4 DEF Taken
  <2> QED
    BY <1>0, <2>1, CapKeeps
<1> QED
  BY <1>6, <1>7, <1>8, <1>9, <1>10

\* A worker tells the end of its dead sessions and drops them.
LEMMA TickStep == ASSUME ServerInv, NEW w \in Workers, Tick(w) PROVE ServerInv'
<1> USE DEF ServerInv
<1> DEFINE Dead(s) == s \in Held(w) /\ ~sess[s].alive
<1>0. /\ sess' = [s \in Sessions |-> IF Dead(s) THEN Cleaned(sess[s]) ELSE sess[s]]
      /\ worker' = [worker EXCEPT ![w].pc = "check"]
      /\ UNCHANGED <<plan, main, tasks, backend, closing>>
  BY DEF Tick
<1>1. worker[w].pc = "tick"
  BY DEF Tick
<1>2. /\ worker' \in [Workers -> WorkerStates] /\ worker'[w].stop = worker[w].stop /\ worker'[w].pc = "check"
      /\ \A v \in Workers : v # w => worker'[v] = worker[v]
  BY <1>0 DEF Types, WorkerStates
<1>3. \A s \in Sessions : Dead(s) => sess[s].at = "worker" /\ ~sess[s].alive
  BY DEF Held, At
<1> HIDE DEF Dead
<1>4. \A s \in Sessions :
        /\ sess'[s] \in SessStates
        /\ Dead(s) => sess'[s].at = "gone" /\ ~sess'[s].alive /\ ~sess'[s].handler
        /\ ~Dead(s) => sess'[s] = sess[s]
  <2> SUFFICES ASSUME NEW s \in Sessions PROVE <1>4!(s)
    OBVIOUS
  <2>1. sess[s] \in SessStates /\ sess'[s] = IF Dead(s) THEN Cleaned(sess[s]) ELSE sess[s]
    BY <1>0 DEF Types
  <2>2. CASE Dead(s)
    <3>1. sess[s].told = <<"connected">> /\ sess[s].ready /\ ~sess[s].alive
      BY ZenonT(60), <1>3, <2>2 DEF Story
    <3>2. sess[s].told = IF sess[s].ready THEN <<"connected">> ELSE <<>>
      BY <3>1
    <3>3. /\ Cleaned(sess[s]) \in SessStates /\ Cleaned(sess[s]).at = "gone"
          /\ Cleaned(sess[s]).handler = FALSE /\ Cleaned(sess[s]).alive = sess[s].alive
      BY Zenon, <2>1, <3>2, CleanedFacts
    <3> QED
      BY Zenon, <2>1, <2>2, <3>1, <3>3
  <2> QED
    BY <2>1, <2>2
<1>5. sess' \in [Sessions -> SessStates]
  <2>1. sess' = [s \in Sessions |-> sess'[s]]
    BY <1>0
  <2> QED
    BY Zenon, <1>4, <2>1
<1>6. Types' /\ Promoting'
  BY <1>0, <1>2, <1>5 DEF Types, Promoting
<1>7. Phases'
  <2>1. \A v \in Workers : /\ worker'[v].stop /\ v \in tasks => main.pc = "clear"
                           /\ worker'[v].pc \in {"exit", "exited"} => worker'[v].stop
    BY ZenonT(60), <1>2 DEF Phases
  <2> QED
    BY Zenon, <1>0, <2>1 DEF Phases, Leaving
<1>8. Story'
  <2> SUFFICES ASSUME NEW s \in Sessions PROVE Story!(s)'
    BY DEF Story
  <2>1. Submitting(s)' <=> Submitting(s)
    BY <1>0 DEF Submitting
  <2>2. CASE Dead(s)
    <3>1. ~Submitting(s) /\ s \notin main.promote
      BY <1>3, <2>2 DEF Story
    <3> QED
      BY Zenon, <1>0, <1>4, <2>1, <2>2, <3>1 DEF None
  <2>3. CASE ~Dead(s)
    <3>1. sess[s].at = "worker" => sess[s].owner \in Workers
      BY DEF Story, Types
    <3>2. \A v \in Workers : worker'[v].pc = "exited" => worker[v].pc = "exited"
      BY <1>2
    <3> QED
      BY ZenonT(60), <1>0, <1>4, <2>1, <2>3, <3>1, <3>2 DEF Story
  <2> QED
    BY ZenonT(60), <2>2, <2>3
<1>9. Backlog'
  <2>1. At("backlog")' \subseteq At("backlog")
    BY <1>4 DEF At
  <2> QED
    BY Zenon, <1>0, <2>1, BacklogKeeps
<1>10. CapInv'
  <2>1. Taken' \subseteq Taken
    BY <1>4 DEF Taken
  <2> QED
    BY <1>0, <2>1, CapKeeps
<1> QED
  BY <1>6, <1>7, <1>8, <1>9, <1>10

\* A session as the worker leaves it behind: closed, its handler released.
LEMMA LeftFacts ==
  ASSUME NEW x \in SessStates
  PROVE  LET y == [Closed(x) EXCEPT !.handler = FALSE]
         IN  /\ y \in SessStates /\ y.at = x.at /\ y.owner = x.owner /\ y.told = x.told
             /\ y.ready = x.ready /\ y.handler = FALSE
<1> DEFINE c == Closed(x)
<1>1. c \in SessStates /\ c.at = x.at /\ c.owner = x.owner /\ c.told = x.told /\ c.ready = x.ready
  BY Zenon, ClosedFacts
<1> HIDE DEF c
<1>2. LET y == [c EXCEPT !.handler = FALSE]
      IN  /\ y \in SessStates /\ y.at = x.at /\ y.owner = x.owner /\ y.told = x.told
          /\ y.ready = x.ready /\ y.handler = FALSE
  BY Zenon, <1>1 DEF SessStates
<1> QED
  BY <1>2 DEF c

\* A worker that was told to stop closes its sessions and ends.
LEMMA ExitStep == ASSUME ServerInv, NEW w \in Workers, Exit(w) PROVE ServerInv'
<1> USE DEF ServerInv
<1>0. /\ sess' = [s \in Sessions |-> IF s \in Held(w)
                                     THEN [Closed(sess[s]) EXCEPT !.handler = FALSE] ELSE sess[s]]
      /\ worker' = [worker EXCEPT ![w].pc = "exited"]
      /\ UNCHANGED <<plan, main, tasks, backend, closing>>
  BY DEF Exit
<1>1. worker[w].pc = "exit"
  BY DEF Exit
<1>2. /\ worker' \in [Workers -> WorkerStates] /\ worker'[w].stop = worker[w].stop
      /\ \A v \in Workers : v # w => worker'[v] = worker[v]
  BY <1>0 DEF Types, WorkerStates
<1>3. \A s \in Sessions : s \in Held(w) <=> sess[s].at = "worker" /\ sess[s].owner = w
  BY DEF Held, At
<1>4. \A s \in Sessions :
        /\ sess'[s] \in SessStates
        /\ s \in Held(w) => /\ sess'[s].at = sess[s].at /\ sess'[s].owner = sess[s].owner
                            /\ sess'[s].told = sess[s].told /\ sess'[s].ready = sess[s].ready
                            /\ sess'[s].handler = FALSE
        /\ s \notin Held(w) => sess'[s] = sess[s]
  <2> SUFFICES ASSUME NEW s \in Sessions PROVE <1>4!(s)
    BY Zenon
  <2>1. /\ sess[s] \in SessStates
        /\ sess'[s] = IF s \in Held(w) THEN [Closed(sess[s]) EXCEPT !.handler = FALSE] ELSE sess[s]
    BY <1>0 DEF Types
  <2> QED
    BY <2>1, LeftFacts
<1>5. sess' \in [Sessions -> SessStates]
  <2>1. sess' = [s \in Sessions |-> sess'[s]]
    BY <1>0
  <2> QED
    BY Zenon, <1>4, <2>1
<1>6. Types' /\ Promoting'
  BY <1>0, <1>2, <1>5 DEF Types, Promoting
<1>7. Phases'
  <2>1. \A v \in Workers : /\ worker'[v].stop /\ v \in tasks => main.pc = "clear"
                           /\ worker'[v].pc \in {"exit", "exited"} => worker'[v].stop
    BY <1>1, <1>2 DEF Phases
  <2> QED
    BY <1>0, <2>1 DEF Phases, Leaving
<1>8. Story'
  <2> SUFFICES ASSUME NEW s \in Sessions PROVE Story!(s)'
    BY DEF Story
  <2>1. Submitting(s)' <=> Submitting(s)
    BY <1>0 DEF Submitting
  <2>2. CASE s \in Held(w)
    <3>1. /\ sess[s].at = "worker" /\ sess[s].told = <<"connected">> /\ sess[s].ready
          /\ sess[s].owner \in tasks /\ ~Submitting(s) /\ s \notin main.promote
      BY ZenonT(60), <1>3, <2>2 DEF Story
    <3>2. /\ sess'[s].at = "worker" /\ sess'[s].told = <<"connected">> /\ sess'[s].ready
          /\ sess'[s].owner \in tasks /\ ~sess'[s].handler
      BY ZenonT(60), <1>4, <2>2, <3>1
    <3> QED
      BY Zenon, <1>0, <2>1, <3>1, <3>2 DEF None
  <2>3. CASE s \notin Held(w)
    <3>1. sess[s].at = "worker" => sess[s].owner \in Workers /\ sess[s].owner # w
      BY Zenon, <1>3, <2>3 DEF Story, Types
    <3> QED
      BY ZenonT(60), <1>0, <1>2, <1>4, <2>1, <2>3, <3>1 DEF Story
  <2> QED
    BY Zenon, <2>2, <2>3
<1>9. Backlog'
  <2>1. At("backlog")' \subseteq At("backlog")
    BY <1>4 DEF At
  <2> QED
    BY Zenon, <1>0, <2>1, BacklogKeeps
<1>10. CapInv'
  <2>1. Taken' \subseteq Taken
    BY <1>4 DEF Taken
  <2> QED
    BY <1>0, <2>1, CapKeeps
<1> QED
  BY <1>6, <1>7, <1>8, <1>9, <1>10
-----------------------------------------------------------------------------
(* The theorems *)

\* Every step of the main loop, the workers, the backend and the stopping threads keeps the invariant.
LEMMA ServerSteps == ServerInv /\ [Next]_vars => ServerInv'
<1> SUFFICES ASSUME ServerInv, [Next]_vars PROVE ServerInv'
  OBVIOUS
<1>1. CASE Listen
  BY <1>1, ListenStep
<1>2. ASSUME NEW s \in Sessions, Arrive(s) \/ Die(s) PROVE ServerInv'
  BY <1>2, ArriveStep, DieStep
<1>3. CASE MainStep
  <2>1. ASSUME SubmitSession PROVE ServerInv'
    BY <2>1, SubmitStep, RaiseStep DEF SubmitSession
  <2>2. ASSUME NEW s \in Sessions, CheckNetwork(s) \/ PromoteReady(s) PROVE ServerInv'
    BY <2>2, CheckNetworkStep, PromoteReadyStep
  <2> QED
    BY Zenon, <1>3, <2>1, <2>2, LoopStep, CheckNetworkDoneStep, CleanupPendingStep, SettlePendingStep,
       PromoteDoneStep, ShutdownStep, ClearTasksStep, DisconnectPendingStep, ShutdownCompleteStep
       DEF MainStep
<1>4. ASSUME NEW t \in Threads, CloseBegins(t) \/ CloseStep(t) PROVE ServerInv'
  BY <1>4, CloseBeginsStep, StopReceivingStep, JoinedStep, CloseEndsStep DEF CloseStep
<1>5. CASE ReceiveLoopEnds
  BY <1>5, ReceiveLoopEndsStep
<1>6. ASSUME NEW w \in Workers, WorkerStep(w) PROVE ServerInv'
  BY <1>6, CheckStep, SleepStep, TickStep, ExitStep DEF WorkerStep
<1>7. CASE UNCHANGED vars
  <2>1. UNCHANGED <<plan, sess, main, worker, tasks, backend, closing>>
    BY <1>7 DEF vars
  <2>2. Types' /\ Promoting' /\ CapInv'
    BY ZenonT(60), <2>1 DEF ServerInv, Types, Promoting, CapInv, Taken
  <2>3. Phases'
    BY Zenon, <2>1 DEF ServerInv, Phases, Leaving
  <2>4. Story'
    BY ZenonT(60), <2>1 DEF ServerInv, Story, Submitting
  <2>5. Backlog'
    BY <2>1 DEF ServerInv, Backlog, At, InClose
  <2> QED
    BY <2>2, <2>3, <2>4, <2>5 DEF ServerInv
<1> QED
  BY <1>1, <1>2, <1>3, <1>4, <1>5, <1>6, <1>7 DEF Next

\* The server's inductive invariant holds whatever the sessions, the workers and
\* the threads that stop it do (server.cc).
THEOREM ServerInvariant == Spec => []ServerInv
  BY ServerStarts, ServerSteps, PTL DEF Spec

\* The application hears of a session's end at most once and only after it heard
\* of its beginning (CleanupAndProcessSessions, SubmitSession), for any number of
\* sessions and workers.
THEOREM EventsPairedTheorem == Spec => []EventsPaired
<1>1. ServerInv => EventsPaired
  BY DEF ServerInv, Types, SessStates, Told, EventsPaired
<1> QED
  BY <1>1, ServerInvariant, PTL

\* max_connections is never exceeded, whatever the limit (CheckNetwork,
\* ActiveSessionCount): the sessions counted are those taken in, no thread but
\* the main loop takes one in, and others only take from the count.
THEOREM CapRespectedTheorem == Spec => []CapRespected
<1>1. ASSUME ServerInv PROVE CapRespected
  <2> DEFINE L == {s \in Sessions : sess[s].alive /\ sess[s].at \in {"pending", "worker"}}
  <2>1. L \in SUBSET Taken /\ Taken \in SUBSET Sessions
    BY DEF Taken
  <2>2. IsFiniteSet(Taken)
    BY Zenon, <2>1, ServerAssumption, FS_Subset
  <2>3. Cardinality(L) <= Cardinality(Taken) /\ Cardinality(L) \in Nat /\ Cardinality(Taken) \in Nat
    BY <2>1, <2>2, FS_Subset, FS_CardinalityType
  <2>4. plan.cap \in Nat
    BY <1>1, ServerAssumption DEF ServerInv, Types
  <2> HIDE DEF L
  <2>5. plan.cap > 0 => Cardinality(L) <= plan.cap
    BY SMTT(30), <1>1, <2>3, <2>4 DEF ServerInv, CapInv
  <2> QED
    BY <2>5 DEF CapRespected, L
<1> QED
  BY <1>1, ServerInvariant, PTL

\* A session the server let go of is closed and its handler released, and a server
\* that is down holds none, also one that stopped while sessions were arriving,
\* handshaking or being handed over (WorkerLoop, DisconnectPending, Close).
THEOREM NothingHeldTheorem == Spec => []NothingHeld
<1>1. ASSUME ServerInv PROVE NothingHeld
  <2> SUFFICES ASSUME NEW s \in Sessions PROVE NothingHeld!(s)
    BY ZenonT(60) DEF NothingHeld
  <2>1. sess[s].at = "gone" => ~sess[s].alive /\ ~sess[s].handler
    BY <1>1 DEF ServerInv, Story
  <2>2. ASSUME main.pc = "done", \A t \in Threads : closing[t] \in {"no", "returned"}
        PROVE  sess[s].at \in {None, "gone"}
    <3>1. main.last /\ tasks = {} /\ ~backend.listening /\ closing["main"] = "returned"
      BY Zenon, <1>1, <2>2 DEF ServerInv, Phases, Leaving
    <3>2. sess[s].at # "worker" /\ sess[s].at # "pending"
      BY <1>1, <2>2, <3>1 DEF ServerInv, Story, Submitting
    <3>3. \A t \in Threads : ~InClose(t)
      BY Zenon, <2>2 DEF InClose
    <3>4. plan.backend \in {"TCP", "ZDT"}
      BY <1>1, ServerAssumption DEF ServerInv, Types
    <3>5. "main" \in Threads
      BY DEF Threads
    <3>6. At("backlog") = {}
      BY <1>1, <2>2, <3>1, <3>3, <3>4, <3>5 DEF ServerInv, Backlog
    <3>7. sess[s].at \in Places
      BY Zenon, <1>1 DEF ServerInv, Types, SessStates
    <3> QED
      BY <3>2, <3>6, <3>7 DEF At, Places
  <2> QED
    BY <2>1, <2>2
<1> QED
  BY <1>1, ServerInvariant, PTL
-----------------------------------------------------------------------------
(* The receive thread *)

\* Over TCP one thread at most calls Stop(): the TCP backend has no mutex over its
\* receive thread, so two could join it at once.
OneTcpStopper == \A p \in Plans : p.backend = "TCP" => \A t, u \in p.stoppers : t = u

\* Nobody has joined the receive thread at the start.
LEMMA OneJoinsStarts == Init => OneJoins
  BY DEF Init, OneJoins

\* A step that touches neither Close() nor the receive thread keeps OneJoins.
LEMMA OneJoinsFrame ==
  ASSUME OneJoins, plan' = plan, closing' = closing,
         main'.pc # "off" /\ ~backend'.listening => main.pc # "off" /\ ~backend.listening
  PROVE  OneJoins'
  BY DEF OneJoins

\* A thread of its own that comes to join finds nobody else there.
LEMMA JoinsAlone ==
  ASSUME OneTcpStopper, ServerInv, OneJoins, NEW t \in Threads, closing[t] = "stop", MayJoin(t)
  PROVE  \A u \in Threads : closing[u] = "join" => u = t
<1>1. CASE plan.backend = "ZDT"
  BY <1>1 DEF MayJoin
<1>2. CASE plan.backend = "TCP"
  <2> SUFFICES ASSUME NEW u \in Threads, closing[u] = "join", u # t PROVE FALSE
    OBVIOUS
  <2>1. \A v, x \in plan.stoppers : v = x
    BY <1>2 DEF OneTcpStopper, ServerInv, Types
  <2>2. (t = "main" \/ t \in plan.stoppers) /\ (u = "main" \/ u \in plan.stoppers)
    BY DEF OneJoins
  <2>3. t = "main" \/ u = "main"
    BY <2>1, <2>2
  <2>4. main.pc \in {"receiving", "close", "done"}
    BY <2>3 DEF ServerInv, Phases
  <2>5. ~backend.listening
    BY <2>4 DEF ServerInv, Phases, Leaving
  <2>6. PICK v \in plan.stoppers : closing[v] = "returned"
    BY <1>2, <2>4, <2>5 DEF OneJoins
  <2>7. t \in plan.stoppers \/ u \in plan.stoppers
    BY <2>2
  <2> QED
    BY <2>1, <2>6, <2>7
<1> QED
  BY <1>1, <1>2, ServerAssumption DEF ServerInv, Types

\* With one thread that stops a TCP server, no step lets a second one join.
LEMMA OneJoinsStep ==
  ASSUME OneTcpStopper, ServerInv, OneJoins, [Next]_vars
  PROVE  OneJoins'
<1>1. CASE Listen
  <2>1. backend' = [[backend EXCEPT !.listening = TRUE] EXCEPT !.receive = "running"] /\ plan' = plan /\ closing' = closing
    BY Zenon, <1>1 DEF Listen
  <2>2. backend'.listening
    BY <2>1 DEF ServerInv, Types, BackendStates
  <2> QED
    BY <2>1, <2>2, OneJoinsFrame
<1>2. ASSUME NEW s \in Sessions, Arrive(s) \/ Die(s) PROVE OneJoins'
  BY <1>2, OneJoinsFrame DEF Arrive, Die
<1>3. CASE MainStep
  <2>1. CASE Shutdown
    <3>1. main.pc # "off" /\ UNCHANGED <<plan, backend>>
      BY <2>1 DEF Shutdown
    <3>2. \A t \in Threads : t # "main" => closing'[t] = closing[t]
      BY <2>1 DEF Shutdown, ServerInv, Types
    <3>3. closing'["main"] # "join"
      BY <2>1 DEF Shutdown, ServerInv, Types, Threads
    <3>4. \A t \in plan.stoppers : t \in Threads /\ t # "main"
      BY ServerAssumption DEF ServerInv, Types, Threads
    <3> QED
      BY <3>1, <3>2, <3>3, <3>4 DEF OneJoins
  <2>2. ASSUME NEW s \in Sessions, CheckNetwork(s) \/ PromoteReady(s) PROVE OneJoins'
    BY <2>2, OneJoinsFrame DEF CheckNetwork, PromoteReady
  <2>3. CASE ~Shutdown /\ ~\E s \in Sessions : CheckNetwork(s) \/ PromoteReady(s)
    <3>1. main.pc # "off" /\ UNCHANGED <<plan, backend, closing>>
      BY Zenon, <1>3, <2>3 DEF MainStep, Loop, CheckNetworkDone, CleanupPending, SettlePending, SubmitSession,
         PromoteDone, ClearTasks, DisconnectPending, ShutdownComplete
    <3> QED
      BY ZenonT(60), <3>1, OneJoinsFrame
  <2> QED
    BY <2>1, <2>2, <2>3
<1>4. ASSUME NEW t \in Threads, CloseBegins(t) PROVE OneJoins'
  <2>1. Calls(t) /\ closing[t] = "no" /\ plan' = plan /\ main' = main
    BY <1>4 DEF CloseBegins
  <2>2. t = "main" \/ t \in plan.stoppers
    BY <2>1 DEF Calls
  <2>3. PICK c \in {"stop", "returned"} : closing' = [closing EXCEPT ![t] = c]
    BY <1>4 DEF CloseBegins
  <2>4. \A u \in Threads : closing'[u] = IF u = t THEN c ELSE closing[u]
    BY <2>3 DEF ServerInv, Types
  <2>5. plan.backend = "TCP" => backend' = backend
    BY <1>4 DEF CloseBegins
  <2>6. plan.stoppers \subseteq Threads
    BY ZenonT(60), ServerAssumption DEF ServerInv, Types, Threads
  <2> QED
    BY <2>1, <2>2, <2>4, <2>5, <2>6 DEF OneJoins
<1>5. ASSUME NEW t \in Threads, StopReceiving(t) PROVE OneJoins'
  <2>1. closing[t] = "stop" /\ MayJoin(t) /\ plan' = plan /\ main' = main
    BY <1>5 DEF StopReceiving
  <2>2. \A u \in Threads : closing[u] = "join" => u = t
    BY <2>1, JoinsAlone
  <2>3. PICK c \in {"join", "finish"} : closing' = [closing EXCEPT ![t] = c]
    BY <1>5 DEF StopReceiving
  <2>4. \A u \in Threads : closing'[u] = IF u = t THEN c ELSE closing[u]
    BY <2>3 DEF ServerInv, Types
  <2>5. backend'.listening <=> backend.listening
    BY <1>5 DEF StopReceiving, ServerInv, Types, BackendStates
  <2>6. plan.stoppers \subseteq Threads
    BY ServerAssumption DEF ServerInv, Types, Threads
  <2> QED
    BY <2>1, <2>2, <2>4, <2>5, <2>6 DEF OneJoins
<1>6. ASSUME NEW t \in Threads, Joined(t) PROVE OneJoins'
  <2>1. closing[t] = "join" /\ plan' = plan /\ main' = main /\ closing' = [closing EXCEPT ![t] = "finish"]
    BY <1>6 DEF Joined
  <2>2. \A u \in Threads : closing'[u] = IF u = t THEN "finish" ELSE closing[u]
    BY <2>1 DEF ServerInv, Types
  <2>3. backend'.listening <=> backend.listening
    BY <1>6 DEF Joined, ServerInv, Types, BackendStates
  <2>4. plan.stoppers \subseteq Threads
    BY ServerAssumption DEF ServerInv, Types, Threads
  <2> QED
    BY <2>1, <2>2, <2>3, <2>4 DEF OneJoins
<1>7. ASSUME NEW t \in Threads, CloseEnds(t) PROVE OneJoins'
  <2>1. closing[t] = "finish" /\ plan' = plan /\ main' = main /\ closing' = [closing EXCEPT ![t] = "returned"]
    BY <1>7 DEF CloseEnds
  <2>2. \A u \in Threads : closing'[u] = IF u = t THEN "returned" ELSE closing[u]
    BY <2>1 DEF ServerInv, Types
  <2>3. plan.backend = "TCP" /\ ~backend.listening => backend' = backend
    BY <1>7 DEF CloseEnds
  <2>4. t = "main" => ~backend.listening
    BY <1>7 DEF CloseEnds, Calls, ServerInv, Phases, Leaving
  <2>5. plan.stoppers \subseteq Threads
    BY ServerAssumption DEF ServerInv, Types, Threads
  <2> QED
    BY <2>1, <2>2, <2>3, <2>4, <2>5 DEF OneJoins
<1>8. CASE ReceiveLoopEnds
  <2>1. UNCHANGED <<plan, main, closing>>
    BY <1>8 DEF ReceiveLoopEnds
  <2>2. backend'.listening <=> backend.listening
    BY <1>8 DEF ReceiveLoopEnds, ServerInv, Types, BackendStates
  <2> QED
    BY <2>1, <2>2, OneJoinsFrame
<1>9. ASSUME NEW w \in Workers, WorkerStep(w) PROVE OneJoins'
  BY <1>9, OneJoinsFrame DEF WorkerStep, Check, Sleep, Tick, Exit
<1>10. CASE UNCHANGED vars
  BY <1>10, OneJoinsFrame DEF vars
<1> QED
  BY Zenon, <1>1, <1>2, <1>3, <1>4, <1>5, <1>6, <1>7, <1>8, <1>9, <1>10 DEF Next, CloseStep

\* What a server holds on to: never more sessions than max_connections, none once
\* it is down, and its receive thread for one thread to join, over ZDT however
\* many threads call Stop() (receive_thread_mutex_), over TCP when one does.
THEOREM ServerHoldsTheorem == ASSUME OneTcpStopper PROVE Spec => []ServerHolds
<1>1. ASSUME OneJoins PROVE JoinedByOne
  <2> DEFINE J == {t \in Threads : closing[t] = "join"}
  <2>1. CASE J = {}
    <3>1. Cardinality(J) = 0
      BY <2>1, FS_EmptySet
    <3> QED
      BY <3>1 DEF JoinedByOne
  <2>2. CASE J # {}
    <3>1. PICK t : t \in J
      BY <2>2
    <3>2. J = {t}
      BY <1>1, <3>1 DEF OneJoins
    <3>3. Cardinality(J) = 1
      BY <3>2, FS_Singleton
    <3> QED
      BY <3>3 DEF JoinedByOne
  <2> QED
    BY <2>1, <2>2
<1>2. Spec => []OneJoins
  <2>1. ServerInv /\ OneJoins /\ [Next]_vars => OneJoins'
    BY OneJoinsStep
  <2> QED
    BY <2>1, OneJoinsStarts, ServerInvariant, PTL DEF Spec
<1> QED
  BY <1>1, <1>2, CapRespectedTheorem, NothingHeldTheorem, PTL DEF ServerHolds
=============================================================================
