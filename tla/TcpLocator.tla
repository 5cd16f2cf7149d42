----------------------------- MODULE TcpLocator -----------------------------
(***************************************************************************)
(* tcp::PeerLocator (p2p/tcp/locator.cc): a link to the rendezvous, driven *)
(* by its client's thread, and a worker that waits for the link to end and *)
(* then punches from the link's own port.  The application calls from a    *)
(* third thread.  The punch itself is TcpPunch; here it succeeds or fails. *)
(* An event carries the Connect() it belongs to.                           *)
(***************************************************************************)
EXTENDS Naturals, Sequences

CONSTANT MaxLinks           \* Connect() calls that reach the rendezvous

ASSUME LocatorAssumption == MaxLinks \in Nat

VARIABLES
    locator,    \* [running, wake, offered, refused]: is_running_, wake_, what the
                \* last offer left in target_candidates_, and whether a Connect()
                \* was refused because the old link was not joined
    link,       \* the client's loop: [pc, of]
    puncher,    \* task_: [pc, stop, of, candidates]
    told,       \* events, in order: [of, kind]
    caller      \* the call the application is in

locatorVars == <<locator, link, puncher, told, caller>>

Offers == {"none", "candidates", "another transport"}

LocatorInit ==
    /\ locator = [running |-> FALSE, wake |-> FALSE, offered |-> "none", refused |-> FALSE]
    /\ link = [pc |-> "idle", of |-> 0]
    /\ puncher = [pc |-> "none", stop |-> FALSE, of |-> 0, candidates |-> "none"]
    /\ told = <<>>
    /\ caller = "idle"

Event(of, kind) == [of |-> of, kind |-> kind]
FireFailed(of, phase) == Event(of, phase)

-----------------------------------------------------------------------------
(* The application *)

ConnectBegins ==
    /\ caller = "idle"
    /\ ~locator.running
    /\ link.of < MaxLinks
    /\ locator' = [running |-> TRUE, wake |-> FALSE, offered |-> "none", refused |-> FALSE]
    /\ caller' = "connect"
    /\ UNCHANGED <<link, puncher, told>>

\* client_.Connect() refuses while the last link's thread is not joined, and
\* may fail by itself; either way the locator is free to try again.
LinkRefused ==
    /\ caller = "connect"
    /\ locator' = [locator EXCEPT !.running = FALSE, !.refused = (link.pc # "idle")]
    /\ caller' = "idle"
    /\ UNCHANGED <<link, puncher, told>>

LinkStarts ==
    /\ caller = "connect"
    /\ link.pc = "idle"
    /\ link' = [pc |-> "connecting", of |-> link.of + 1]
    /\ caller' = "start"
    /\ UNCHANGED <<locator, puncher, told>>

\* task_.Run joins the last worker first.
WorkerStarts ==
    /\ caller = "start"
    /\ puncher.pc \in {"none", "over"}
    /\ puncher' = [pc |-> "waiting", stop |-> FALSE, of |-> link.of, candidates |-> "none"]
    /\ caller' = "idle"
    /\ UNCHANGED <<locator, link, told>>

\* Wait(): the link's thread, then the worker.
WaitLink ==
    /\ caller = "idle" /\ link.pc = "ended"
    /\ link' = [link EXCEPT !.pc = "idle"]
    /\ caller' = "wait"
    /\ UNCHANGED <<locator, puncher, told>>

WaitWorker ==
    /\ caller = "wait" /\ puncher.pc \in {"none", "over"}
    /\ caller' = "idle"
    /\ UNCHANGED <<locator, link, puncher, told>>

\* ~PeerLocator: Disconnect(), RequestStop(), wake, join; then ~Client joins.
LocatorDestroyed ==
    /\ caller = "idle"
    /\ link' = IF link.pc \in {"linked", "welcomed"} THEN [link EXCEPT !.pc = "closing"] ELSE link
    /\ puncher' = [puncher EXCEPT !.stop = TRUE]
    /\ caller' = "destroy"
    /\ UNCHANGED <<locator, told>>

LocatorGone ==
    /\ caller = "destroy"
    /\ puncher.pc \in {"none", "over"} /\ link.pc \in {"idle", "ended"}
    /\ link' = [link EXCEPT !.pc = "idle"]
    /\ caller' = "gone"
    /\ UNCHANGED <<locator, puncher, told>>

-----------------------------------------------------------------------------
(* The link's thread *)

\* OnConnectionFailedEvent: the failure, then the wake.
OnConnectionFailed ==
    /\ link.pc = "connecting"
    /\ told' = Append(told, FireFailed(link.of, "link failed"))
    /\ locator' = [locator EXCEPT !.wake = TRUE]
    /\ link' = [link EXCEPT !.pc = "ended"]
    /\ UNCHANGED <<puncher, caller>>

OnConnect ==
    /\ link.pc = "connecting"
    /\ link' = [link EXCEPT !.pc = "linked"]
    /\ UNCHANGED <<locator, puncher, told, caller>>

\* A rendezvous of another version or transport costs the link.
OnWelcome ==
    /\ link.pc = "linked"
    /\ \/ /\ told' = Append(told, Event(link.of, "ready"))
          /\ link' = [link EXCEPT !.pc = "welcomed"]
       \/ /\ told' = Append(told, FireFailed(link.of, "link failed"))
          /\ link' = [link EXCEPT !.pc = "closing"]
    /\ UNCHANGED <<locator, puncher, caller>>

OnPeerNotFound ==
    /\ link.pc = "welcomed"
    /\ told[Len(told)].kind # "not found"
    /\ told' = Append(told, FireFailed(link.of, "not found"))
    /\ UNCHANGED <<locator, link, puncher, caller>>

\* The offer's candidates without the relayed ones, which may be none.
OnPunchOffer ==
    /\ link.pc = "welcomed"
    /\ \E o \in Offers : locator' = [locator EXCEPT !.offered = o]
    /\ link' = [link EXCEPT !.pc = "closing"]
    /\ UNCHANGED <<puncher, told, caller>>

\* The rendezvous leaves, or the application calls Disconnect().
LinkLost ==
    /\ link.pc \in {"linked", "welcomed"}
    /\ link' = [link EXCEPT !.pc = "closing"]
    /\ UNCHANGED <<locator, puncher, told, caller>>

OnDisconnect_Unflagged ==
    /\ link.pc = "closing"
    /\ locator' = [locator EXCEPT !.wake = (puncher.pc = "waiting")]
    /\ link' = [link EXCEPT !.pc = "ended"]
    /\ UNCHANGED <<puncher, told, caller>>

OnDisconnect ==
    /\ link.pc = "closing"
    /\ locator' = [locator EXCEPT !.wake = TRUE]
    /\ link' = [link EXCEPT !.pc = "ended"]
    /\ UNCHANGED <<puncher, told, caller>>

-----------------------------------------------------------------------------
(* The worker *)

CloseEvent == Event(puncher.of, "closed")
Over == [puncher EXCEPT !.pc = "over"]

\* A stop ends the worker with the close event; so does a link that ended with
\* nothing to punch, after a failure if the offer was for another transport.
WorkerWakes ==
    /\ puncher.pc = "waiting"
    /\ locator.wake \/ puncher.stop
    /\ locator' = [locator EXCEPT !.running = FALSE]
    /\ LET offered == IF puncher.stop THEN "none" ELSE locator.offered
       IN  /\ told' = CASE offered = "none" -> Append(told, CloseEvent)
                        [] offered = "another transport" ->
                             told \o <<FireFailed(puncher.of, "punch failed"), CloseEvent>>
                        [] OTHER -> told
           /\ puncher' = IF offered = "candidates"
                         THEN [puncher EXCEPT !.pc = "join", !.candidates = offered] ELSE Over
    /\ UNCHANGED <<link, caller>>

\* client_.Wait() and ReleaseSession(): the punch binds the link's port.
WorkerJoins ==
    /\ puncher.pc = "join"
    /\ link.pc \in {"ended", "idle"}
    /\ link' = [link EXCEPT !.pc = "idle"]
    /\ puncher' = [puncher EXCEPT !.pc = "punch"]
    /\ UNCHANGED <<locator, told, caller>>

PunchEnds ==
    /\ puncher.pc = "punch"
    /\ \/ told' = Append(told, Event(puncher.of, "connected"))
       \/ told' = told \o <<FireFailed(puncher.of, "punch failed"), CloseEvent>>
    /\ puncher' = Over
    /\ UNCHANGED <<locator, link, caller>>

LocatorNext ==
    \/ ConnectBegins \/ LinkRefused \/ LinkStarts \/ WorkerStarts
    \/ WaitLink \/ WaitWorker \/ LocatorDestroyed \/ LocatorGone
    \/ OnConnectionFailed \/ OnConnect \/ OnWelcome \/ OnPeerNotFound \/ OnPunchOffer
    \/ LinkLost \/ OnDisconnect
    \/ WorkerWakes \/ WorkerJoins \/ PunchEnds

LocatorSpec == LocatorInit /\ [][LocatorNext]_locatorVars

-----------------------------------------------------------------------------
Terminal(e) == e.kind \in {"connected", "closed"}
EventsOf(n) == {i \in DOMAIN told : told[i].of = n}
Ends(n) == {i \in EventsOf(n) : Terminal(told[i])}

(* Each Connect() that reached the rendezvous ends in one event, a peer or the
   close event, after which nothing more is heard of it; the close event
   follows a link failure ("PeerLocatorCloseEvent follows it", events.h:96),
   and a worker that is over has sent it.  No worker is left waiting for a
   link that ended before it started to wait ("wake_ is a flag the predicate
   rechecks", locator.cc:69).  A locator that is being destroyed stops
   listening to its link. *)
LocatorOutcome ==
    /\ puncher.pc = "waiting" /\ puncher.of = link.of /\ link.pc = "ended" => locator.wake
    /\ caller \notin {"destroy", "gone"} =>
        \A n \in 1..link.of :
            /\ \A i \in Ends(n), j \in EventsOf(n) : j <= i
            /\ (\E i \in EventsOf(n) : told[i].kind = "link failed") =>
                  \A i \in Ends(n) : told[i].kind = "closed"
            /\ puncher.pc = "over" /\ puncher.of = n => Ends(n) # {}
            /\ n < link.of /\ puncher.of # n => Ends(n) # {}

(* "To reuse the locator, call Connect() again" (tcp/locator.h:59). *)
ReusableWhenOver == ~locator.refused
=============================================================================
