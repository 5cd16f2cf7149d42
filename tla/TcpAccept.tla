------------------------------ MODULE TcpAccept ------------------------------
(***************************************************************************)
(* The listening side of a TCP server: who is let in, and who is watched.  *)
(* TCPServerBackend (backend/tcp.cc) accepts on the server's thread, asks  *)
(* AdmissionControl (admission.cc) about every connection, and hands the   *)
(* descriptor numbers of the admitted ones to a thread that polls them and *)
(* wakes the workers.  Descriptors are numbers the kernel gives out again  *)
(* as soon as they are closed, the lowest first.  A dropped connection of  *)
(* the plan is one the peer opens again.                                   *)
(***************************************************************************)
EXTENDS Admission

CONSTANTS
    AcceptPlans,            \* what is tried: [allow, deny, max, window, sources, polls, gone]
    Descriptors,            \* 1..n, the numbers the kernel can give out
    MaxClock

ASSUME AcceptAssumption ==
    /\ MaxClock \in Nat
    /\ Descriptors \subseteq Nat \ {0}

VARIABLES
    acceptPlan,
    listener,               \* [bound, listening]
    queue,                  \* connections the kernel completed and nobody accepted
    sources,                \* AdmissionControl::sources_: host key -> [start, count]
    clock,                  \* steady_clock
    verdicts,               \* what Admit answered, in order
    conns,                  \* accepted connections, in order: [fd, state, fresh]
    accepting,              \* the descriptor Accept() holds between accept() and polled_
    polled,                 \* TCPServerBackend::polled_
    poller                  \* PollLoop: [pc, fds, dead]

acceptVars == <<acceptPlan, listener, queue, sources, clock, verdicts, conns,
                accepting, polled, poller>>

-----------------------------------------------------------------------------
Open == {conns[i].fd : i \in {j \in 1..Len(conns) : conns[j].state # "closed"}}

\* The kernel gives out the lowest free number.
Free == Descriptors \ (Open \cup {accepting})

AcceptInit ==
    /\ acceptPlan \in AcceptPlans
    /\ listener = [bound |-> FALSE, listening |-> FALSE]
    /\ queue = <<>> /\ sources = <<>> /\ clock = 0 /\ verdicts = <<>>
    /\ conns = <<>> /\ accepting = 0 /\ polled = <<>>
    /\ poller = [pc |-> "stopped", fds |-> <<>>, dead |-> {}]

Bind ==
    /\ ~listener.bound
    /\ listener' = [listener EXCEPT !.bound = TRUE]
    /\ UNCHANGED <<acceptPlan, queue, sources, clock, verdicts, conns, accepting, polled, poller>>

\* Listen: the kernel starts queueing, and the poll thread starts.
ListenTcp ==
    /\ listener.bound /\ ~listener.listening
    /\ listener' = [listener EXCEPT !.listening = TRUE]
    /\ poller' = [poller EXCEPT !.pc = IF acceptPlan.polls THEN "copy" ELSE "stopped"]
    /\ UNCHANGED <<acceptPlan, queue, sources, clock, verdicts, conns, accepting, polled>>

\* The next connection of the plan completes in the kernel.
ConnectionArrives ==
    /\ listener.listening
    /\ Len(verdicts) + Len(queue) < Len(acceptPlan.sources)
    /\ queue' = Append(queue, acceptPlan.sources[Len(verdicts) + Len(queue) + 1])
    /\ UNCHANGED <<acceptPlan, listener, sources, clock, verdicts, conns, accepting, polled, poller>>

\* Accept() looks at one pending connection.  A refused one is closed and the
\* loop goes on; an admitted one keeps its descriptor.
AcceptConnection ==
    LET source == Head(queue)
        answer == Admit(acceptPlan, sources, source, clock)
    IN  /\ listener.listening /\ accepting = 0
        /\ queue # <<>> /\ Free # {}
        /\ queue' = Tail(queue)
        /\ verdicts' = Append(verdicts, [source |-> source, at |-> clock, verdict |-> answer.verdict])
        /\ sources' = answer.sources
        /\ accepting' = IF answer.verdict = "Allow" THEN Min(Free) ELSE 0
        /\ UNCHANGED <<acceptPlan, listener, clock, conns, polled, poller>>

\* The rest of Accept(): polled_ under its mutex, then the session.
Watch ==
    /\ accepting # 0
    /\ polled' = Append(polled, accepting)
    /\ conns' = Append(conns, [fd |-> accepting, state |-> "open",
                               fresh |-> accepting \notin ToSet(polled)])
    /\ accepting' = 0
    /\ UNCHANGED <<acceptPlan, listener, queue, sources, clock, verdicts, poller>>

\* The last holder of a session lets go: ~TCPTransportLayer closes the descriptor.
DropTransport(i) ==
    /\ i <= acceptPlan.gone
    /\ conns[i].state = "open"
    /\ conns' = [conns EXCEPT ![i].state = "closed"]
    /\ UNCHANGED <<acceptPlan, listener, queue, sources, clock, verdicts, accepting, polled, poller>>

\* PollLoop: the numbers to poll, copied under poll_mutex_.
CopyPolled ==
    /\ poller.pc = "copy"
    /\ listener.listening
    /\ polled # <<>>
    /\ poller' = [poller EXCEPT !.pc = "poll", !.fds = polled]
    /\ UNCHANGED <<acceptPlan, listener, queue, sources, clock, verdicts, conns, accepting, polled>>

\* poll() reports the closed ones as invalid; readable ones wake a worker,
\* which changes nothing here.
Poll ==
    LET dead == ToSet(poller.fds) \ (Open \cup {accepting})
    IN  /\ poller.pc = "poll"
        /\ poller' = [poller EXCEPT !.pc = IF dead = {} THEN "copy" ELSE "erase", !.dead = dead]
        /\ UNCHANGED <<acceptPlan, listener, queue, sources, clock, verdicts, conns, accepting, polled>>

\* The invalid ones leave polled_, by number, under poll_mutex_.
Erase_FromCopy ==
    /\ poller.pc = "erase"
    /\ polled' = SelectSeq(poller.fds, LAMBDA fd : fd \notin poller.dead)
    /\ poller' = [poller EXCEPT !.pc = "copy", !.dead = {}]
    /\ UNCHANGED <<acceptPlan, listener, queue, sources, clock, verdicts, conns, accepting>>

Erase ==
    /\ poller.pc = "erase"
    /\ polled' = SelectSeq(polled, LAMBDA fd : fd \notin poller.dead)
    /\ poller' = [poller EXCEPT !.pc = "copy", !.dead = {}]
    /\ UNCHANGED <<acceptPlan, listener, queue, sources, clock, verdicts, conns, accepting>>

\* Close(): the poll thread is joined first, then the listener is closed under
\* the mutex Accept() takes around accept(); the kernel drops its queue.
CloseListener ==
    /\ listener.listening
    /\ poller.pc \in {"copy", "stopped"}
    /\ poller' = [poller EXCEPT !.pc = "stopped", !.fds = <<>>]
    /\ listener' = [bound |-> FALSE, listening |-> FALSE]
    /\ queue' = <<>>
    /\ UNCHANGED <<acceptPlan, sources, clock, verdicts, conns, accepting, polled>>

Elapse ==
    /\ clock < MaxClock
    /\ acceptPlan.max > 0
    /\ clock' = clock + 1
    /\ UNCHANGED <<acceptPlan, listener, queue, sources, verdicts, conns, accepting, polled, poller>>

AcceptNext ==
    \/ Bind \/ ListenTcp \/ ConnectionArrives \/ AcceptConnection \/ Watch
    \/ \E i \in 1..Len(conns) : DropTransport(i)
    \/ CopyPolled \/ Poll \/ Erase
    \/ CloseListener \/ Elapse

-----------------------------------------------------------------------------
\* A rule text covers an address when it names a block and the address, as an
\* IPv4 address where it is one in disguise, agrees with it bit for bit.
Bit(bytes, i) == (bytes[(i \div 8) + 1] \div 2^(7 - (i % 8))) % 2

Covers(text, address) ==
    /\ ParseBlock(text).valid
    /\ Len(text.bytes) = Len(HostKey(address))
    /\ \A i \in 0..(ParseBlock(text).prefix - 1) : Bit(text.bytes, i) = Bit(HostKey(address), i)

Listed(texts, address) == \E i \in 1..Len(texts) : Covers(texts[i], address)

\* The attempts of one host that passed the lists in the window before call n.
Recent(n, from) ==
    Cardinality({m \in 1..n : /\ HostKey(verdicts[m].source) = HostKey(verdicts[n].source)
                              /\ verdicts[m].verdict \in {"Allow", "Throttled"}
                              /\ verdicts[m].at >= from})

(* Every answer of AdmissionControl::Admit is justified by the configuration
   and by the host's own attempts: a host is refused by a list exactly when a
   well-formed rule says so, bit for bit and the same through IPv4 and mapped
   IPv6; it is throttled only after more than max attempts within one window;
   and in no window is it let in more than twice max times (fixed windows may
   meet back to back), unless the table is full. *)
AdmissionJustified ==
    \A n \in 1..Len(verdicts) :
        LET call   == verdicts[n]
            unix   == call.source.ipv = "Unix"
            denied == ~unix /\ Listed(acceptPlan.deny, call.source)
            named  == \E i \in 1..Len(acceptPlan.allow) : ParseBlock(acceptPlan.allow[i]).valid
            out    == ~unix /\ named /\ ~Listed(acceptPlan.allow, call.source)
            from   == call.at - acceptPlan.window
        IN  /\ (call.verdict = "Denylisted") <=> denied
            /\ (call.verdict = "NotAllowlisted") <=> out /\ ~denied
            /\ call.verdict = "Throttled" => Recent(n, from) > acceptPlan.max
            /\ (/\ call.verdict = "Allow" /\ acceptPlan.max > 0 /\ ~unix
                /\ Cardinality({HostKey(v.source) : v \in ToSet(verdicts)}) <= MaxTrackedSources)
               => Cardinality({m \in 1..n : /\ HostKey(verdicts[m].source) = HostKey(call.source)
                                            /\ verdicts[m].verdict = "Allow"
                                            /\ verdicts[m].at >= from}) <= 2 * acceptPlan.max

(* A connection whose descriptor number was not on polled_ when it was
   accepted stays watched for as long as it is open, whatever closes, is
   pruned and is accepted meanwhile: PollLoop erases by number what poll() had
   called invalid, after it let go of poll_mutex_. *)
FreshNumberStaysWatched ==
    listener.listening =>
        \A i \in 1..Len(conns) :
            conns[i].state = "open" /\ conns[i].fresh => conns[i].fd \in ToSet(polled)

(* Who is let in is decided by the configuration, and who was let in is
   listened to (Accept, Admit and PollLoop). *)
AcceptsJustly == AdmissionJustified /\ FreshNumberStaysWatched

(* "watched from here on, so inbound data wakes a worker instead of waiting
   out its tick" (tcp.cc:696): every open connection is on polled_. *)
WatchedWhileOpen ==
    listener.listening =>
        \A i \in 1..Len(conns) : conns[i].state = "open" => conns[i].fd \in ToSet(polled)
=============================================================================
