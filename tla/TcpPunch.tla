------------------------------ MODULE TcpPunch ------------------------------
(***************************************************************************)
(* The TCP hole punch (p2p/tcp/punch.cc): two peers that race connections  *)
(* over every candidate at once, in rounds, until one opens and its        *)
(* handshake proves that the other end kept it too.                        *)
(*                                                                         *)
(* A path is a candidate of one peer as the other reaches it.  A peer has  *)
(* one socket per path and round; a connection is a path and the rounds of *)
(* its two ends, so a connection to a socket that was given up is told     *)
(* apart from one to its successor.  The kernels and the network between   *)
(* them are external: a SYN that meets a socket on the same path opens it, *)
(* one that meets none is answered with a reset or dropped by a NAT, and   *)
(* every answer may arrive late.                                           *)
(***************************************************************************)
EXTENDS Naturals, FiniteSets, FiniteSetsExt

CONSTANTS NumPaths,         \* candidates there may be
          PunchPlans        \* [paths, answers, binds, rounds]: the paths raced, those
                            \* without a NAT, whether the port may be late to free,
                            \* and the rounds each peer's budget lasts

Punchers == {"a", "b"}
Paths == 1..NumPaths

ASSUME PunchAssumption ==
    /\ NumPaths \in Nat \ {0}
    /\ \A p \in PunchPlans : /\ p.paths \subseteq Paths /\ p.answers \subseteq Paths
                             /\ p.binds \in BOOLEAN /\ p.rounds \in [Punchers -> Nat \ {0}]

VARIABLES
    punchPlan,
    punch,      \* per peer: [pc, round, open, winner, ready, result]
    socket,     \* per peer and path: [state, mate, answer]: the round of the end
                \* it is connected to, and of the one whose answer is under way
    air,        \* SYNs under way: [to, path, from]
    kept        \* per peer, the connections it ever chose: [path, mine, mate]

punchVars == <<punchPlan, punch, socket, air, kept>>

Mate(p) == CHOOSE q \in Punchers : q # p

Shut == [state |-> "shut", mate |-> 0, answer |-> 0]
Sent == [state |-> "sent", mate |-> 0, answer |-> 0]
NoConn == [path |-> 0, mine |-> 0, mate |-> 0]

PunchInit ==
    /\ punchPlan \in PunchPlans
    /\ punch = [p \in Punchers |->
                  [pc |-> "pause", round |-> 0, winner |-> NoConn, ready |-> FALSE, result |-> "Timeout"]]
    /\ socket = [p \in Punchers |-> [c \in Paths |-> Shut]]
    /\ air = {}
    /\ kept = [p \in Punchers |-> {}]

Attempts(p) == {c \in Paths : socket[p][c].state # "shut"}
AllShut == [c \in Paths |-> Shut]

\* RaceUntilPaired starts a round while its budget lasts: RaceCandidatesOnce
\* opens a socket per candidate and connects them all.
StartRound(p) ==
    /\ punch[p].pc = "pause"
    /\ punch[p].round < punchPlan.rounds[p]
    /\ punch' = [punch EXCEPT ![p].pc = "race", ![p].round = @ + 1, ![p].result = "Timeout"]
    /\ socket' = [socket EXCEPT ![p] = [c \in Paths |-> IF c \in punchPlan.paths THEN Sent ELSE Shut]]
    /\ air' = air \cup {[to |-> Mate(p), path |-> c, from |-> punch[p].round + 1] : c \in punchPlan.paths}
    /\ UNCHANGED <<punchPlan, kept>>

\* OpenPunchSocket: the port the link used is not free yet.
BindsLate(p) ==
    /\ punchPlan.binds
    /\ punch[p].pc = "pause"
    /\ punch[p].round < punchPlan.rounds[p]
    /\ punch' = [punch EXCEPT ![p].round = @ + 1, ![p].result = "CannotBind"]
    /\ UNCHANGED <<punchPlan, socket, air, kept>>

\* A candidate that refused leaves the round; the round ends with the last.
Refused(p, c) ==
    LET left == [socket[p] EXCEPT ![c] = Shut]
    IN  /\ punch[p].pc = "race"
        /\ socket[p][c].state = "refused"
        /\ socket' = [socket EXCEPT ![p] = left]
        /\ punch' = IF \A d \in Paths : left[d] = Shut
                    THEN [punch EXCEPT ![p].pc = "pause", ![p].result = "CannotConnect"]
                    ELSE punch
        /\ UNCHANGED <<punchPlan, air, kept>>

\* The first candidate found open wins, the others are closed, and a session
\* that drives itself starts its handshake.
Wins(p, c) ==
    LET conn == [path |-> c, mine |-> punch[p].round, mate |-> socket[p][c].mate]
    IN  /\ punch[p].pc = "race"
        /\ socket[p][c].state = "open"
        /\ \A d \in 1..(c - 1) : socket[p][d].state # "open"
        /\ punch' = [punch EXCEPT ![p].pc = "confirm", ![p].winner = conn, ![p].ready = FALSE]
        /\ socket' = [socket EXCEPT ![p] = [AllShut EXCEPT ![c] = socket[p][c]]]
        /\ kept' = [kept EXCEPT ![p] = @ \cup {conn}]
        /\ UNCHANGED <<punchPlan, air>>

\* kRoundCap is over with connects still in flight.
RoundEnds(p) ==
    /\ punch[p].pc = "race"
    /\ Attempts(p) # {}
    /\ punch' = [punch EXCEPT ![p].pc = "pause", ![p].result = "Timeout"]
    /\ socket' = [socket EXCEPT ![p] = AllShut]
    /\ UNCHANGED <<punchPlan, air, kept>>

\* The handshake completes with an end that chose the same connection.
HandshakeDone(p) ==
    LET w == punch[p].winner
    IN  /\ punch[p].pc = "confirm"
        /\ socket[p][w.path].state = "open"
        /\ [path |-> w.path, mine |-> w.mate, mate |-> w.mine] \in kept[Mate(p)]
        /\ punch' = [punch EXCEPT ![p].ready = TRUE]
        /\ UNCHANGED <<punchPlan, socket, air, kept>>

\* WaitForPairing: the session is ready, and PunchSync hands it back.
Paired_Unconfirmed(p) ==
    /\ punch[p].pc = "confirm"
    /\ punch' = [punch EXCEPT ![p].pc = "done", ![p].result = "Success"]
    /\ UNCHANGED <<punchPlan, socket, air, kept>>

Paired(p) ==
    /\ punch[p].pc = "confirm"
    /\ punch[p].ready
    /\ punch' = [punch EXCEPT ![p].pc = "done", ![p].result = "Success"]
    /\ UNCHANGED <<punchPlan, socket, air, kept>>

\* Or it died, or kPairingConfirmation ran out: close it and race again.
NeverPaired(p) ==
    /\ punch[p].pc = "confirm"
    /\ ~punch[p].ready
    /\ punch' = [punch EXCEPT ![p].pc = "pause", ![p].winner = NoConn, ![p].result = "Timeout"]
    /\ socket' = [socket EXCEPT ![p] = AllShut]
    /\ UNCHANGED <<punchPlan, air, kept>>

\* The budget is spent; the last reason is the result.
GivesUp(p) ==
    /\ punch[p].pc = "pause"
    /\ punch[p].round = punchPlan.rounds[p]
    /\ punch' = [punch EXCEPT ![p].pc = "done"]
    /\ UNCHANGED <<punchPlan, socket, air, kept>>

-----------------------------------------------------------------------------
(* The kernels and the network *)

\* A SYN meets a connecting socket, which opens and answers; where nothing
\* is connecting, a path without a NAT refuses it.
SynArrives(s) ==
    LET q == s.to
        p == Mate(q)
        c == s.path
        current == punch[p].round = s.from /\ socket[p][c].state = "sent"
    IN  /\ air' = air \ {s}
        /\ socket' =
             CASE socket[q][c].state = "sent" /\ current ->
                    [socket EXCEPT ![q][c].state = "open", ![q][c].mate = s.from,
                                   ![p][c].answer = punch[q].round]
               [] socket[q][c].state = "sent" /\ ~current ->
                    [socket EXCEPT ![q][c].state = "open", ![q][c].mate = s.from]
               [] socket[q][c].state # "sent" /\ current /\ c \in punchPlan.answers
                  /\ socket[p][c].answer = 0 /\ socket[q][c].mate # s.from ->
                    [socket EXCEPT ![p][c].state = "refused"]
               [] OTHER -> socket
        /\ UNCHANGED <<punchPlan, punch, kept>>

\* The answer opens the socket, whatever has become of the one that sent it.
AnswerArrives(p, c) ==
    /\ socket[p][c].state = "sent"
    /\ socket[p][c].answer # 0
    /\ socket' = [socket EXCEPT ![p][c].state = "open", ![p][c].mate = socket[p][c].answer]
    /\ UNCHANGED <<punchPlan, punch, air, kept>>

\* The end of a connection whose other end is closed hears of it, or not in
\* time.
MateGone(p, c) ==
    LET q == Mate(p)
    IN  /\ socket[p][c].state = "open"
        /\ punch[q].round # socket[p][c].mate \/ socket[q][c].state \in {"shut", "refused"}
        /\ socket' = [socket EXCEPT ![p][c].state = "refused"]
        /\ UNCHANGED <<punchPlan, punch, air, kept>>

PunchNext ==
    \/ \E p \in Punchers :
          \/ StartRound(p) \/ BindsLate(p) \/ RoundEnds(p) \/ HandshakeDone(p)
          \/ Paired(p) \/ NeverPaired(p) \/ GivesUp(p)
          \/ \E c \in Paths :
                Refused(p, c) \/ Wins(p, c) \/ AnswerArrives(p, c) \/ MateGone(p, c)
    \/ \E s \in air : SynArrives(s)

PunchSpec == PunchInit /\ [][PunchNext]_punchVars

-----------------------------------------------------------------------------
(* Two peers that both get a session from PunchSync hold the two ends of one
   connection, though each may have seen another path open first, or a
   connection open to a socket the other had given up on ("an orphaned one
   never does", punch.cc:280). *)
KeptAlike ==
    (\A p \in Punchers : punch[p].pc = "done" /\ punch[p].result = "Success")
        => LET x == punch["a"].winner
               y == punch["b"].winner
           IN  x.path = y.path /\ x.mine = y.mate /\ x.mate = y.mine

(* A punch holds on to no socket but the one it hands back, and hands back
   none when it fails ("one pairing per punch", close_all, Close). *)
SocketsSettled ==
    \A p \in Punchers :
        punch[p].pc = "done" =>
            Attempts(p) = IF punch[p].result = "Success" THEN {punch[p].winner.path} ELSE {}

(* A punch that succeeds at both ends leaves one connection and nothing else
   (RaceCandidatesOnce, RaceUntilPaired and close_all). *)
SameConnection == KeptAlike /\ SocketsSettled
=============================================================================
