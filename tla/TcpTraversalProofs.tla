------------------------- MODULE TcpTraversalProofs -------------------------
(***************************************************************************)
(* Peer-to-peer over TCP, proved: what a hole punch hands back, for any     *)
(* paths, budgets and number of rounds, and that every Connect() of the     *)
(* locator has one outcome, for any number of calls.                        *)
(***************************************************************************)
EXTENDS TcpPunch, TcpLocator, SequenceTheorems, TLAPS

-----------------------------------------------------------------------------
(* The punch: TcpPunch *)

PunchResults == {"Timeout", "CannotConnect", "CannotBind", "Success"}

Conns == [path : Paths, mine : Nat, mate : Nat]

PunchPlaces == {"pause", "race", "confirm", "done"}

PunchStates == [pc : PunchPlaces, round : Nat,
                winner : Conns \cup {NoConn}, ready : BOOLEAN, result : PunchResults]

Sockets == [state : {"shut", "sent", "open", "refused"}, mate : Nat, answer : Nat]

PunchType ==
  /\ punchPlan \in PunchPlans
  /\ punch \in [Punchers -> PunchStates]
  /\ socket \in [Punchers -> [Paths -> Sockets]]
  /\ air \subseteq [to : Punchers, path : Paths, from : Nat]
  /\ kept \in [Punchers -> SUBSET Conns]

\* The same connection, as the other end names it.
Mirror(k) == [path |-> k.path, mine |-> k.mate, mate |-> k.mine]

\* p has chosen a connection and not given it up.
Holding(p) == punch[p].pc = "confirm" \/ (punch[p].pc = "done" /\ punch[p].result = "Success")

\* Nothing speaks of a round that has not begun.
RoundsKnown ==
  /\ \A s \in air : s.from <= punch[Mate(s.to)].round
  /\ \A p \in Punchers, c \in Paths :
       /\ socket[p][c].mate <= punch[Mate(p)].round
       /\ socket[p][c].answer <= punch[Mate(p)].round
  /\ \A p \in Punchers : \A k \in kept[p] :
       k.mine <= punch[p].round /\ k.mate <= punch[Mate(p)].round

\* A round keeps one connection at most, and the race of a round has kept none.
OnePerRound ==
  \A p \in Punchers :
    /\ \A k, l \in kept[p] : k.mine = l.mine => k = l
    /\ punch[p].pc = "race" => \A k \in kept[p] : k.mine < punch[p].round

\* Choices do not cross: not both peers have kept an earlier round for a round
\* of the other that came after one it kept.
NoCrossing ==
  \A x \in kept["a"], y \in kept["b"] : ~(x.mine < y.mate /\ y.mine < x.mate)

\* What is held is the choice of this round, and confirmed once it is ready.
HeldIsKept ==
  \A p \in Punchers :
    /\ punch[p].result = "Success" => punch[p].pc = "done"
    /\ Holding(p) => punch[p].winner \in kept[p] /\ punch[p].winner.mine = punch[p].round
    /\ Holding(p) /\ (punch[p].ready \/ punch[p].pc = "done")
         => Mirror(punch[p].winner) \in kept[Mate(p)]

\* Outside a race the sockets are what the peer holds.
HeldIsOpen ==
  \A p \in Punchers :
    punch[p].pc # "race" =>
      \A c \in Paths :
        socket[p][c].state # "shut" <=> Holding(p) /\ c = punch[p].winner.path

PunchInv == PunchType /\ RoundsKnown /\ OnePerRound /\ NoCrossing /\ HeldIsKept /\ HeldIsOpen

\* Each of two peers has the other for its mate.
LEMMA MateFacts == Mate("a") = "b" /\ Mate("b") = "a"
  BY DEF Mate, Punchers

\* A socket that was opened, or shut, is a socket.
LEMMA SocketFacts == Sent \in Sockets /\ Shut \in Sockets
  BY DEF Sent, Shut, Sockets

\* A field of a peer's state takes any value of its type.
LEMMA PunchFields ==
  ASSUME NEW f \in [Punchers -> PunchStates], NEW p \in Punchers
  PROVE  /\ \A x \in PunchPlaces : [f EXCEPT ![p].pc = x] \in [Punchers -> PunchStates]
         /\ \A n \in Nat : [f EXCEPT ![p].round = n] \in [Punchers -> PunchStates]
         /\ \A k \in Conns \cup {NoConn} : [f EXCEPT ![p].winner = k] \in [Punchers -> PunchStates]
         /\ \A b \in BOOLEAN : [f EXCEPT ![p].ready = b] \in [Punchers -> PunchStates]
         /\ \A r \in PunchResults : [f EXCEPT ![p].result = r] \in [Punchers -> PunchStates]
<1>1. \A x \in PunchPlaces : [f EXCEPT ![p].pc = x] \in [Punchers -> PunchStates]
  BY DEF PunchStates
<1>2. \A n \in Nat : [f EXCEPT ![p].round = n] \in [Punchers -> PunchStates]
  BY DEF PunchStates
<1>3. \A k \in Conns \cup {NoConn} : [f EXCEPT ![p].winner = k] \in [Punchers -> PunchStates]
  BY DEF PunchStates
<1>4. \A b \in BOOLEAN : [f EXCEPT ![p].ready = b] \in [Punchers -> PunchStates]
  BY DEF PunchStates
<1>5. \A r \in PunchResults : [f EXCEPT ![p].result = r] \in [Punchers -> PunchStates]
  BY DEF PunchStates
<1> QED
  BY <1>1, <1>2, <1>3, <1>4, <1>5

\* A punch that has raced no round yet satisfies the invariant.
LEMMA PunchStart == PunchInit => PunchInv
  BY MateFacts, PunchAssumption
  DEF PunchInit, PunchInv, PunchType, RoundsKnown, OnePerRound, NoCrossing, HeldIsKept,
      HeldIsOpen, Holding, Punchers, Conns, NoConn, PunchResults, PunchPlaces,
      PunchStates, Sockets, Shut

\* A round that begins: a new number, nothing held, SYNs that name it.
LEMMA PunchRound ==
  ASSUME PunchInv, NEW p \in Punchers, StartRound(p) \/ BindsLate(p)
  PROVE  PunchInv'
<1> USE MateFacts, PunchAssumption
<1>1. punchPlan' \in PunchPlans /\ kept' = kept /\ punchPlan.paths \subseteq Paths
  BY DEF PunchInv, PunchType, StartRound, BindsLate
<1>2. punch' \in [Punchers -> PunchStates]
  <2> DEFINE next == [punch EXCEPT ![p].round = @ + 1]
  <2>1. next \in [Punchers -> PunchStates]
    <3>1. punch[p].round + 1 \in Nat
      BY DEF PunchInv, PunchType, PunchStates
    <3> QED
      BY Zenon, <3>1, PunchFields DEF PunchInv, PunchType
  <2>2. CASE StartRound(p)
    <3>1. punch' = [[next EXCEPT ![p].pc = "race"] EXCEPT ![p].result = "Timeout"]
      BY Zenon, <2>2 DEF StartRound
    <3> QED
      BY Zenon, <2>1, <3>1, PunchFields DEF PunchPlaces, PunchResults
  <2>3. CASE BindsLate(p)
    <3>1. punch' = [next EXCEPT ![p].result = "CannotBind"]
      BY Zenon, <2>3 DEF BindsLate
    <3> QED
      BY Zenon, <2>1, <3>1, PunchFields DEF PunchPlaces, PunchResults
  <2> QED
    BY <2>2, <2>3
<1>3. socket' = socket \/ socket' = [socket EXCEPT ![p] =
        [c \in Paths |-> IF c \in punchPlan.paths THEN Sent ELSE Shut]]
  BY DEF StartRound, BindsLate
<1>4. socket' \in [Punchers -> [Paths -> Sockets]]
  <2> DEFINE fresh == [c \in Paths |-> IF c \in punchPlan.paths THEN Sent ELSE Shut]
  <2>1. fresh \in [Paths -> Sockets]
    BY SocketFacts
  <2> HIDE DEF fresh
  <2>2. socket' = socket \/ socket' = [socket EXCEPT ![p] = fresh]
    BY <1>3 DEF fresh
  <2> QED
    BY <2>1, <2>2 DEF PunchInv, PunchType
<1>5. \A s \in air' : s \in air \/ (s \in [to : Punchers, path : Paths, from : Nat]
                                     /\ s.to = Mate(p) /\ s.from = punch[p].round + 1)
  BY <1>1 DEF StartRound, BindsLate, PunchInv, PunchType, PunchStates, Punchers
<1>6. PunchType'
  BY <1>1, <1>2, <1>4, <1>5 DEF PunchInv, PunchType
<1>7. /\ punch'[p].round = punch[p].round + 1 /\ punch[p].round \in Nat
      /\ \A q \in Punchers \ {p} : punch'[q].round = punch[q].round
  BY DEF PunchInv, PunchType, PunchStates, StartRound, BindsLate
<1>8. RoundsKnown'
  <2>1. \A s \in air' : s.from <= punch'[Mate(s.to)].round
    BY <1>5, <1>7 DEF PunchInv, PunchType, PunchStates, RoundsKnown, Punchers
  <2>2. \A q \in Punchers, c \in Paths :
          /\ socket'[q][c].mate <= punch'[Mate(q)].round
          /\ socket'[q][c].answer <= punch'[Mate(q)].round
    <3> SUFFICES ASSUME NEW q \in Punchers, NEW c \in Paths
                 PROVE  /\ socket'[q][c].mate <= punch'[Mate(q)].round
                        /\ socket'[q][c].answer <= punch'[Mate(q)].round
      OBVIOUS
    <3>1. socket'[q][c] \in {socket[q][c], Sent, Shut}
      BY <1>3 DEF PunchInv, PunchType
    <3>2. /\ socket[q][c] \in Sockets
          /\ socket[q][c].mate <= punch[Mate(q)].round
          /\ socket[q][c].answer <= punch[Mate(q)].round
      BY DEF PunchInv, PunchType, RoundsKnown
    <3>3. Mate(q) \in Punchers /\ punch[Mate(q)].round \in Nat
      BY DEF PunchInv, PunchType, PunchStates, Punchers
    <3> QED
      BY SMTT(30), <1>7, <3>1, <3>2, <3>3 DEF Sent, Shut, Sockets
  <2>3. \A q \in Punchers : \A k \in kept'[q] :
          k.mine <= punch'[q].round /\ k.mate <= punch'[Mate(q)].round
    BY <1>1, <1>7 DEF PunchInv, PunchType, PunchStates, RoundsKnown, Punchers, Conns
  <2> QED
    BY <2>1, <2>2, <2>3 DEF RoundsKnown
<1> USE DEF StartRound, BindsLate, PunchStates, Sockets
<1>9. OnePerRound'
  BY DEF PunchInv, PunchType, OnePerRound, RoundsKnown, Punchers, Conns
<1>10. NoCrossing'
  BY DEF PunchInv, NoCrossing
<1>11. HeldIsKept'
  BY DEF PunchInv, PunchType, HeldIsKept, Holding, Punchers
<1>12. HeldIsOpen'
  BY DEF PunchInv, PunchType, HeldIsOpen, Holding, Punchers
<1> QED
  BY Zenon, <1>6, <1>8, <1>9, <1>10, <1>11, <1>12 DEF PunchInv

\* A step of one peer that begins no round and keeps no connection disturbs
\* only what it holds.
LEMMA PunchQuiet ==
  ASSUME PunchInv, NEW p \in Punchers,
         punch' \in [Punchers -> PunchStates], socket' \in [Punchers -> [Paths -> Sockets]],
         UNCHANGED <<punchPlan, air, kept>>,
         \A q \in Punchers : punch'[q].round = punch[q].round,
         \A q \in Punchers : punch'[q].pc = "race" => punch[q].pc = "race",
         \A q \in Punchers, c \in Paths : socket'[q][c] \in {socket[q][c], Shut}
  PROVE  PunchType' /\ RoundsKnown' /\ OnePerRound' /\ NoCrossing'
<1>1. PunchType'
  BY DEF PunchInv, PunchType
<1>2. RoundsKnown'
  <2>1. \A q \in Punchers, c \in Paths :
          /\ socket'[q][c].mate <= punch'[Mate(q)].round
          /\ socket'[q][c].answer <= punch'[Mate(q)].round
    <3> SUFFICES ASSUME NEW q \in Punchers, NEW c \in Paths
                 PROVE  /\ socket'[q][c].mate <= punch'[Mate(q)].round
                        /\ socket'[q][c].answer <= punch'[Mate(q)].round
      OBVIOUS
    <3>1. Mate(q) \in Punchers /\ punch'[Mate(q)].round = punch[Mate(q)].round
          /\ punch[Mate(q)].round \in Nat
      BY MateFacts DEF PunchInv, PunchType, PunchStates, Punchers
    <3> QED
      BY <3>1 DEF PunchInv, RoundsKnown, Shut
  <2>2. \A s \in air : Mate(s.to) \in Punchers
    BY MateFacts DEF PunchInv, PunchType, Punchers
  <2>3. \A q \in Punchers : Mate(q) \in Punchers
    BY MateFacts DEF Punchers
  <2> QED
    BY <2>1, <2>2, <2>3 DEF PunchInv, RoundsKnown
<1>3. OnePerRound'
  BY DEF PunchInv, OnePerRound
<1>4. NoCrossing'
  BY DEF PunchInv, NoCrossing
<1> QED
  BY <1>1, <1>2, <1>3, <1>4

\* A peer that closes every socket it has, and is back between two rounds.
LEMMA PunchPauses ==
  ASSUME PunchInv, NEW p \in Punchers, RoundEnds(p) \/ NeverPaired(p)
  PROVE  PunchInv'
<1>1. punch' \in [Punchers -> PunchStates]
  <2> DEFINE paused == [[punch EXCEPT ![p].pc = "pause"] EXCEPT ![p].result = "Timeout"]
  <2>1. paused \in [Punchers -> PunchStates]
    BY Zenon, PunchFields DEF PunchInv, PunchType, PunchPlaces, PunchResults
  <2>2. punch' = paused \/ punch' = [paused EXCEPT ![p].winner = NoConn]
    BY ZenonT(60) DEF RoundEnds, NeverPaired
  <2>3. [paused EXCEPT ![p].winner = NoConn] \in [Punchers -> PunchStates]
    BY Zenon, <2>1, PunchFields
  <2> QED
    BY Zenon, <2>1, <2>2, <2>3
<1>2. socket' = [socket EXCEPT ![p] = [c \in Paths |-> Shut]]
  BY DEF RoundEnds, NeverPaired, AllShut
<1>3. socket' \in [Punchers -> [Paths -> Sockets]]
  <2>1. [c \in Paths |-> Shut] \in [Paths -> Sockets]
    BY SocketFacts
  <2> QED
    BY Zenon, <1>2, <2>1 DEF PunchInv, PunchType
<1>4. \A q \in Punchers, c \in Paths : socket'[q][c] = IF q = p THEN Shut ELSE socket[q][c]
  BY <1>2 DEF PunchInv, PunchType
<1>5. /\ punch'[p].pc = "pause" /\ punch'[p].result = "Timeout"
      /\ \A q \in Punchers : punch'[q].round = punch[q].round
      /\ \A q \in Punchers \ {p} : punch'[q] = punch[q]
      /\ UNCHANGED <<punchPlan, air, kept>>
  <2>1. CASE RoundEnds(p)
    BY <2>1 DEF RoundEnds, PunchInv, PunchType, PunchStates
  <2>2. CASE NeverPaired(p)
    <3>1. /\ UNCHANGED <<punchPlan, air, kept>>
          /\ punch' = [punch EXCEPT ![p].pc = "pause", ![p].winner = NoConn, ![p].result = "Timeout"]
      BY <2>2 DEF NeverPaired
    <3> QED
      BY <3>1 DEF PunchInv, PunchType, PunchStates
  <2> QED
    BY <2>1, <2>2
<1>6. PunchType' /\ RoundsKnown' /\ OnePerRound' /\ NoCrossing'
  BY Zenon, <1>1, <1>3, <1>4, <1>5, PunchQuiet
<1>7. HeldIsKept'
  BY <1>5 DEF PunchInv, HeldIsKept, Holding
<1>8. HeldIsOpen'
  BY <1>4, <1>5 DEF PunchInv, HeldIsOpen, Holding, Shut
<1> QED
  BY <1>6, <1>7, <1>8 DEF PunchInv

\* A candidate that refused leaves the race, and the race ends with the last.
LEMMA PunchRefused ==
  ASSUME PunchInv, NEW p \in Punchers, NEW c \in Paths, Refused(p, c)
  PROVE  PunchInv'
<1> DEFINE left == [socket[p] EXCEPT ![c] = Shut]
<1>1. /\ punch[p].pc = "race" /\ socket' = [socket EXCEPT ![p] = left]
      /\ UNCHANGED <<punchPlan, air, kept>>
      /\ \/ punch' = punch
         \/ /\ \A d \in Paths : left[d] = Shut
            /\ punch' = [punch EXCEPT ![p].pc = "pause", ![p].result = "CannotConnect"]
  BY Zenon DEF Refused
<1>2. left \in [Paths -> Sockets] /\ \A d \in Paths : left[d] \in {socket[p][d], Shut}
  BY SocketFacts DEF PunchInv, PunchType
<1> HIDE DEF left
<1>3. punch' \in [Punchers -> PunchStates]
  <2>1. CASE punch' = punch
    BY <2>1 DEF PunchInv, PunchType
  <2>2. CASE punch' = [punch EXCEPT ![p].pc = "pause", ![p].result = "CannotConnect"]
    <3>1. punch' = [[punch EXCEPT ![p].pc = "pause"] EXCEPT ![p].result = "CannotConnect"]
      BY Zenon, <2>2
    <3> QED
      BY Zenon, <3>1, PunchFields DEF PunchInv, PunchType, PunchPlaces, PunchResults
  <2> QED
    BY <1>1, <2>1, <2>2
<1>4. /\ socket' \in [Punchers -> [Paths -> Sockets]]
      /\ \A q \in Punchers, d \in Paths : socket'[q][d] = IF q = p THEN left[d] ELSE socket[q][d]
  BY <1>1, <1>2 DEF PunchInv, PunchType
<1>5. /\ \A q \in Punchers : punch'[q].round = punch[q].round
      /\ \A q \in Punchers \ {p} : punch'[q] = punch[q]
      /\ punch'[p].pc = "race" \/ (punch'[p].pc = "pause" /\ \A d \in Paths : left[d] = Shut)
      /\ punch'[p].result = punch[p].result \/ punch'[p].result = "CannotConnect"
  BY <1>1 DEF PunchInv, PunchType, PunchStates
<1>6. PunchType' /\ RoundsKnown' /\ OnePerRound' /\ NoCrossing'
  BY Zenon, <1>1, <1>2, <1>3, <1>4, <1>5, PunchQuiet
<1>7. HeldIsKept'
  BY <1>1, <1>5 DEF PunchInv, HeldIsKept, Holding
<1>8. HeldIsOpen'
  BY <1>1, <1>4, <1>5 DEF PunchInv, HeldIsOpen, Holding, Shut
<1> QED
  BY <1>6, <1>7, <1>8 DEF PunchInv

\* A handshake that completes, a session handed back, a budget spent: the
\* sockets stay as they are.
LEMMA PunchSettles ==
  ASSUME PunchInv, NEW p \in Punchers, HandshakeDone(p) \/ Paired(p) \/ GivesUp(p)
  PROVE  PunchInv'
<1>1. UNCHANGED <<punchPlan, socket, air, kept>>
  BY DEF HandshakeDone, Paired, GivesUp
<1>2. CASE HandshakeDone(p)
  <2>1. /\ punch[p].pc = "confirm" /\ Mirror(punch[p].winner) \in kept[Mate(p)]
        /\ punch' = [punch EXCEPT ![p].ready = TRUE]
    BY <1>2 DEF HandshakeDone, Mirror
  <2>2. punch' \in [Punchers -> PunchStates]
    BY Zenon, <2>1, PunchFields DEF PunchInv, PunchType
  <2>3. /\ \A q \in Punchers : /\ punch'[q].round = punch[q].round /\ punch'[q].pc = punch[q].pc
                                /\ punch'[q].winner = punch[q].winner
                                /\ punch'[q].result = punch[q].result
        /\ \A q \in Punchers \ {p} : punch'[q] = punch[q]
    BY <2>1 DEF PunchInv, PunchType, PunchStates
  <2>4. PunchType' /\ RoundsKnown' /\ OnePerRound' /\ NoCrossing'
    BY SMTT(30), <1>1, <2>2, <2>3, PunchQuiet DEF PunchInv, PunchType
  <2>5. HeldIsKept'
    BY <1>1, <2>1, <2>3 DEF PunchInv, HeldIsKept, Holding
  <2>6. HeldIsOpen'
    BY SMTT(30), <1>1, <2>3 DEF PunchInv, HeldIsOpen, Holding
  <2> QED
    BY SMTT(30), <2>4, <2>5, <2>6 DEF PunchInv
<1>3. CASE Paired(p)
  <2>1. /\ punch[p].pc = "confirm" /\ punch[p].ready
        /\ punch' = [punch EXCEPT ![p].pc = "done", ![p].result = "Success"]
    BY Zenon, <1>3 DEF Paired
  <2>2. punch' \in [Punchers -> PunchStates]
    <3>1. punch' = [[punch EXCEPT ![p].pc = "done"] EXCEPT ![p].result = "Success"]
      BY Zenon, <2>1
    <3> QED
      BY Zenon, <3>1, PunchFields DEF PunchInv, PunchType, PunchPlaces, PunchResults
  <2>3. /\ \A q \in Punchers : /\ punch'[q].round = punch[q].round
                                /\ punch'[q].winner = punch[q].winner
        /\ punch'[p].pc = "done" /\ punch'[p].result = "Success"
        /\ \A q \in Punchers \ {p} : punch'[q] = punch[q]
    BY <2>1 DEF PunchInv, PunchType, PunchStates
  <2>4. PunchType' /\ RoundsKnown' /\ OnePerRound' /\ NoCrossing'
    BY SMTT(30), <1>1, <2>2, <2>3, PunchQuiet DEF PunchInv, PunchType
  <2>5. Mirror(punch[p].winner) \in kept[Mate(p)]
    BY Zenon, <2>1 DEF PunchInv, HeldIsKept, Holding
  <2>6. Holding(p) /\ Holding(p)' /\ \A q \in Punchers \ {p} : Holding(q)' = Holding(q)
    BY Zenon, <2>1, <2>3 DEF Holding
  <2>7. HeldIsKept'
    <3> SUFFICES ASSUME NEW q \in Punchers
                 PROVE  HeldIsKept!(q)'
      BY DEF HeldIsKept
    <3>1. CASE q = p
      BY Zenon, <1>1, <2>3, <2>5, <2>6, <3>1 DEF PunchInv, HeldIsKept, Mirror
    <3>2. CASE q # p
      BY Zenon, <1>1, <2>3, <2>6, <3>2 DEF PunchInv, HeldIsKept
    <3> QED
      BY <3>1, <3>2
  <2>8. HeldIsOpen'
    <3> SUFFICES ASSUME NEW q \in Punchers
                 PROVE  HeldIsOpen!(q)'
      BY DEF HeldIsOpen
    <3>1. CASE q = p
      <4>1. punch[p].pc # "race"
        BY <2>1
      <4>2. \A c \in Paths : socket[p][c].state # "shut" <=> c = punch[p].winner.path
        BY <2>6, <4>1 DEF PunchInv, HeldIsOpen
      <4> QED
        BY SMTT(30), <1>1, <2>3, <2>6, <3>1, <4>2
    <3>2. CASE q # p
      BY Zenon, <1>1, <2>3, <2>6, <3>2 DEF PunchInv, HeldIsOpen
    <3> QED
      BY <3>1, <3>2
  <2> QED
    BY <2>4, <2>7, <2>8 DEF PunchInv
<1>4. CASE GivesUp(p)
  <2>1. punch[p].pc = "pause" /\ punch' = [punch EXCEPT ![p].pc = "done"]
    BY <1>4 DEF GivesUp
  <2>2. punch' \in [Punchers -> PunchStates]
    BY Zenon, <2>1, PunchFields DEF PunchInv, PunchType, PunchPlaces
  <2>3. /\ \A q \in Punchers : /\ punch'[q].round = punch[q].round
                                /\ punch'[q].result = punch[q].result
        /\ punch'[p].pc = "done" /\ punch[p].result # "Success"
        /\ \A q \in Punchers \ {p} : punch'[q] = punch[q]
    BY <2>1 DEF PunchInv, PunchType, PunchStates, HeldIsKept
  <2>4. PunchType' /\ RoundsKnown' /\ OnePerRound' /\ NoCrossing'
    BY Zenon, <1>1, <2>2, <2>3, PunchQuiet DEF PunchInv, PunchType
  <2>5. ~Holding(p) /\ ~Holding(p)' /\ \A q \in Punchers \ {p} : Holding(q)' = Holding(q)
    BY <2>1, <2>3 DEF Holding
  <2>6. HeldIsKept'
    <3> SUFFICES ASSUME NEW q \in Punchers
                 PROVE  HeldIsKept!(q)'
      BY DEF HeldIsKept
    <3>1. CASE q = p
      BY SMTT(30), <2>3, <2>5, <3>1
    <3>2. CASE q # p
      BY Zenon, <1>1, <2>3, <2>5, <3>2 DEF PunchInv, HeldIsKept
    <3> QED
      BY <3>1, <3>2
  <2>7. HeldIsOpen'
    <3> SUFFICES ASSUME NEW q \in Punchers
                 PROVE  HeldIsOpen!(q)'
      BY DEF HeldIsOpen
    <3>1. CASE q = p
      BY Zenon, <1>1, <2>1, <2>5, <3>1 DEF PunchInv, HeldIsOpen
    <3>2. CASE q # p
      BY <1>1, <2>3, <2>5, <3>2 DEF PunchInv, HeldIsOpen
    <3> QED
      BY <3>1, <3>2
  <2> QED
    BY <2>4, <2>6, <2>7 DEF PunchInv
<1> QED
  BY <1>2, <1>3, <1>4

\* A field of a socket takes any value of its type.
LEMMA SocketFields ==
  ASSUME NEW f \in [Punchers -> [Paths -> Sockets]], NEW p \in Punchers, NEW c \in Paths
  PROVE  /\ \A x \in {"shut", "sent", "open", "refused"} :
              [f EXCEPT ![p][c].state = x] \in [Punchers -> [Paths -> Sockets]]
         /\ \A n \in Nat : [f EXCEPT ![p][c].mate = n] \in [Punchers -> [Paths -> Sockets]]
         /\ \A n \in Nat : [f EXCEPT ![p][c].answer = n] \in [Punchers -> [Paths -> Sockets]]
<1>1. \A x \in {"shut", "sent", "open", "refused"} :
        [f EXCEPT ![p][c].state = x] \in [Punchers -> [Paths -> Sockets]]
  BY DEF Sockets
<1>2. ASSUME NEW n \in Nat
      PROVE  [f EXCEPT ![p][c].mate = n] \in [Punchers -> [Paths -> Sockets]]
  <2>0. ASSUME NEW s \in Sockets PROVE [s EXCEPT !.mate = n] \in Sockets
    BY DEF Sockets
  <2>1. [f[p][c] EXCEPT !.mate = n] \in Sockets
    BY <2>0
  <2>2. [f EXCEPT ![p][c].mate = n] = [f EXCEPT ![p][c] = [f[p][c] EXCEPT !.mate = n]]
    BY Zenon
  <2> QED
    BY <2>1, <2>2
<1>3. ASSUME NEW n \in Nat
      PROVE  [f EXCEPT ![p][c].answer = n] \in [Punchers -> [Paths -> Sockets]]
  <2>0. ASSUME NEW s \in Sockets PROVE [s EXCEPT !.answer = n] \in Sockets
    BY DEF Sockets
  <2>1. [f[p][c] EXCEPT !.answer = n] \in Sockets
    BY <2>0
  <2>2. [f EXCEPT ![p][c].answer = n] = [f EXCEPT ![p][c] = [f[p][c] EXCEPT !.answer = n]]
    BY Zenon
  <2> QED
    BY <2>1, <2>2
<1> QED
  BY <1>1, <1>2, <1>3

\* The network moves sockets between sent, open and refused, never to or from
\* shut, and names no round the other peer has not begun.
LEMMA PunchNetwork ==
  ASSUME PunchInv,
         \/ \E s \in air : SynArrives(s)
         \/ \E p \in Punchers, c \in Paths : AnswerArrives(p, c) \/ MateGone(p, c)
  PROVE  PunchInv'
<1>1. UNCHANGED <<punchPlan, punch, kept>> /\ air' \subseteq air
  BY Zenon DEF SynArrives, AnswerArrives, MateGone
<1>2. \A q \in Punchers : Mate(q) \in Punchers /\ punch[q].round \in Nat
  BY MateFacts DEF PunchInv, PunchType, PunchStates, Punchers
<1>3. /\ socket' \in [Punchers -> [Paths -> Sockets]]
      /\ \A q \in Punchers, d \in Paths :
           /\ socket'[q][d].state = "shut" <=> socket[q][d].state = "shut"
           /\ socket'[q][d].mate <= punch[Mate(q)].round
           /\ socket'[q][d].answer <= punch[Mate(q)].round
  <2> DEFINE Type(f) == f \in [Punchers -> [Paths -> Sockets]]
             Sound(f) == \A q \in Punchers, d \in Paths :
                           /\ f[q][d].state = "shut" <=> socket[q][d].state = "shut"
                           /\ f[q][d].mate <= punch[Mate(q)].round
                           /\ f[q][d].answer <= punch[Mate(q)].round
  <2>0. Type(socket) /\ Sound(socket)
    BY DEF PunchInv, PunchType, RoundsKnown
  <2>a. ASSUME NEW f, Type(f), Sound(f), NEW q \in Punchers, NEW d \in Paths,
               NEW x \in {"open", "refused"}, socket[q][d].state # "shut"
        PROVE  Type([f EXCEPT ![q][d].state = x]) /\ Sound([f EXCEPT ![q][d].state = x])
    <3> DEFINE g == [f EXCEPT ![q][d].state = x]
    <3>1. Type(g)
      BY Zenon, <2>a, SocketFields
    <3>2. \A r \in Punchers, e \in Paths :
            /\ g[r][e].state = IF r = q /\ e = d THEN x ELSE f[r][e].state
            /\ g[r][e].mate = f[r][e].mate /\ g[r][e].answer = f[r][e].answer
      BY <2>a DEF Sockets
    <3> HIDE DEF g
    <3>3. Sound(g)
      BY SMTT(30), <2>a, <3>2
    <3> QED
      BY <3>1, <3>3 DEF g
  <2>b. ASSUME NEW f, Type(f), Sound(f), NEW q \in Punchers, NEW d \in Paths,
               NEW n \in Nat, n <= punch[Mate(q)].round
        PROVE  /\ Type([f EXCEPT ![q][d].mate = n]) /\ Sound([f EXCEPT ![q][d].mate = n])
               /\ Type([f EXCEPT ![q][d].answer = n]) /\ Sound([f EXCEPT ![q][d].answer = n])
    <3> DEFINE g == [f EXCEPT ![q][d].mate = n]
               h == [f EXCEPT ![q][d].answer = n]
    <3>1. Type(g) /\ Type(h)
      BY Zenon, <2>b, SocketFields
    <3>2. \A r \in Punchers, e \in Paths :
            /\ g[r][e].mate = IF r = q /\ e = d THEN n ELSE f[r][e].mate
            /\ g[r][e].state = f[r][e].state /\ g[r][e].answer = f[r][e].answer
      BY <2>b DEF Sockets
    <3>3. \A r \in Punchers, e \in Paths :
            /\ h[r][e].answer = IF r = q /\ e = d THEN n ELSE f[r][e].answer
            /\ h[r][e].state = f[r][e].state /\ h[r][e].mate = f[r][e].mate
      BY <2>b DEF Sockets
    <3> HIDE DEF g, h
    <3>4. Sound(g) /\ Sound(h)
      BY SMTT(30), <2>b, <3>2, <3>3
    <3> QED
      BY <3>1, <3>4 DEF g, h
  <2> HIDE DEF Type, Sound
  <2>1. ASSUME NEW p \in Punchers, NEW c \in Paths, AnswerArrives(p, c)
        PROVE  Type(socket') /\ Sound(socket')
    <3>1. /\ socket[p][c].state # "shut" /\ socket[p][c].answer \in Nat
          /\ socket[p][c].answer <= punch[Mate(p)].round
      BY <2>1 DEF AnswerArrives, PunchInv, PunchType, RoundsKnown, Sockets
    <3>2. socket' = [[socket EXCEPT ![p][c].state = "open"] EXCEPT ![p][c].mate = socket[p][c].answer]
      BY Zenon, <2>1 DEF AnswerArrives
    <3>3. Type([socket EXCEPT ![p][c].state = "open"]) /\ Sound([socket EXCEPT ![p][c].state = "open"])
      BY Zenon, <2>0, <2>a, <3>1
    <3> QED
      BY Zenon, <2>b, <3>1, <3>2, <3>3
  <2>2. ASSUME NEW p \in Punchers, NEW c \in Paths, MateGone(p, c)
        PROVE  Type(socket') /\ Sound(socket')
    BY Zenon, <2>0, <2>2, <2>a DEF MateGone
  <2>3. ASSUME NEW s \in air, SynArrives(s)
        PROVE  Type(socket') /\ Sound(socket')
    <3> DEFINE q == s.to
               p == Mate(s.to)
               c == s.path
               opened == [[socket EXCEPT ![q][c].state = "open"] EXCEPT ![q][c].mate = s.from]
    <3>1. q \in Punchers /\ p \in Punchers /\ c \in Paths /\ Mate(p) = q /\ s.from \in Nat
      BY MateFacts DEF PunchInv, PunchType, Punchers
    <3>2. s.from <= punch[Mate(q)].round /\ punch[q].round \in Nat /\ punch[q].round <= punch[Mate(p)].round
      BY <1>2, <3>1 DEF PunchInv, RoundsKnown
    <3>3. ASSUME socket[q][c].state = "sent"
          PROVE  Type(opened) /\ Sound(opened)
      <4>1. socket[q][c].state # "shut"
        BY <3>3
      <4>2. Type([socket EXCEPT ![q][c].state = "open"]) /\ Sound([socket EXCEPT ![q][c].state = "open"])
        BY Zenon, <2>0, <2>a, <3>1, <4>1
      <4> QED
        BY Zenon, <2>b, <3>1, <3>2, <4>2
    <3>4. \/ socket[q][c].state = "sent" /\ socket' = [opened EXCEPT ![p][c].answer = punch[q].round]
          \/ socket[q][c].state = "sent" /\ socket' = opened
          \/ socket[p][c].state = "sent" /\ socket' = [socket EXCEPT ![p][c].state = "refused"]
          \/ socket' = socket
      BY Zenon, <2>3 DEF SynArrives
    <3> HIDE DEF opened, q, p, c
    <3>5. CASE socket[q][c].state = "sent" /\ socket' = [opened EXCEPT ![p][c].answer = punch[q].round]
      BY Zenon, <2>b, <3>1, <3>2, <3>3, <3>5
    <3>6. CASE socket[p][c].state = "sent" /\ socket' = [socket EXCEPT ![p][c].state = "refused"]
      <4>1. socket[p][c].state # "shut"
        BY <3>6
      <4> QED
        BY Zenon, <2>0, <2>a, <3>1, <3>6, <4>1
    <3> QED
      BY Zenon, <2>0, <3>3, <3>4, <3>5, <3>6
  <2> QED
    BY Zenon, <2>1, <2>2, <2>3 DEF Type, Sound
<1>4. PunchType'
  BY SMTT(30), <1>1, <1>3 DEF PunchInv, PunchType
<1>5. RoundsKnown'
  BY Zenon, <1>1, <1>3 DEF PunchInv, RoundsKnown
<1>6. OnePerRound' /\ NoCrossing' /\ HeldIsKept'
  BY SMTT(30), <1>1 DEF PunchInv, OnePerRound, NoCrossing, HeldIsKept, Holding
<1>7. HeldIsOpen'
  BY <1>1, <1>3 DEF PunchInv, HeldIsOpen, Holding
<1> QED
  BY SMTT(30), <1>4, <1>5, <1>6, <1>7 DEF PunchInv

\* A candidate that opened is chosen: the first choice of this round, and too
\* late for any round the other peer has kept a connection with.
LEMMA PunchWins ==
  ASSUME PunchInv, NEW p \in Punchers, NEW c \in Paths, Wins(p, c)
  PROVE  PunchInv'
<1> DEFINE conn == [path |-> c, mine |-> punch[p].round, mate |-> socket[p][c].mate]
           only == [AllShut EXCEPT ![c] = socket[p][c]]
<1>1. /\ punch[p].pc = "race" /\ socket[p][c].state = "open"
      /\ punch' = [punch EXCEPT ![p].pc = "confirm", ![p].winner = conn, ![p].ready = FALSE]
      /\ socket' = [socket EXCEPT ![p] = only]
      /\ kept' = [kept EXCEPT ![p] = @ \cup {conn}]
      /\ UNCHANGED <<punchPlan, air>>
  BY Zenon DEF Wins
<1>2. /\ conn \in Conns /\ conn.path = c /\ conn.mine = punch[p].round
      /\ conn.mate <= punch[Mate(p)].round
  BY DEF PunchInv, PunchType, PunchStates, Sockets, Conns, RoundsKnown
<1>3. /\ only \in [Paths -> Sockets]
      /\ \A d \in Paths : only[d] = IF d = c THEN socket[p][c] ELSE Shut
  BY SocketFacts DEF AllShut, PunchInv, PunchType
<1> HIDE DEF conn, only
<1>4. punch' \in [Punchers -> PunchStates]
  <2>1. punch' = [[[punch EXCEPT ![p].pc = "confirm"] EXCEPT ![p].winner = conn] EXCEPT ![p].ready = FALSE]
    BY Zenon, <1>1
  <2>2. [punch EXCEPT ![p].pc = "confirm"] \in [Punchers -> PunchStates]
    BY Zenon, PunchFields DEF PunchInv, PunchType, PunchPlaces
  <2>3. [[punch EXCEPT ![p].pc = "confirm"] EXCEPT ![p].winner = conn] \in [Punchers -> PunchStates]
    BY Zenon, <1>2, <2>2, PunchFields
  <2> QED
    BY Zenon, <2>1, <2>3, PunchFields
<1>5. /\ \A q \in Punchers : punch'[q].round = punch[q].round /\ punch'[q].result = punch[q].result
      /\ punch'[p].pc = "confirm" /\ punch'[p].winner = conn /\ punch'[p].ready = FALSE
      /\ \A q \in Punchers \ {p} : punch'[q] = punch[q]
      /\ punch[p].result # "Success"
  BY <1>1 DEF PunchInv, PunchType, PunchStates, HeldIsKept
<1>6. /\ socket' \in [Punchers -> [Paths -> Sockets]]
      /\ \A q \in Punchers, d \in Paths :
           socket'[q][d] = IF q # p \/ d = c THEN socket[q][d] ELSE Shut
  BY <1>1, <1>3 DEF PunchInv, PunchType
<1>7. /\ kept'[p] = kept[p] \cup {conn} /\ kept' \in [Punchers -> SUBSET Conns]
      /\ \A q \in Punchers \ {p} : kept'[q] = kept[q]
  BY <1>1, <1>2 DEF PunchInv, PunchType
<1>8. PunchType'
  BY Zenon, <1>1, <1>4, <1>6, <1>7 DEF PunchInv, PunchType
<1>9. \A q \in Punchers : Mate(q) \in Punchers /\ punch[q].round \in Nat
  BY MateFacts DEF PunchInv, PunchType, PunchStates, Punchers
<1>10. RoundsKnown'
  <2>1. \A s \in air' : s.from <= punch'[Mate(s.to)].round
    BY Zenon, <1>1, <1>5, <1>9 DEF PunchInv, PunchType, RoundsKnown
  <2>2. \A q \in Punchers, d \in Paths :
          /\ socket'[q][d].mate <= punch'[Mate(q)].round
          /\ socket'[q][d].answer <= punch'[Mate(q)].round
    <3> SUFFICES ASSUME NEW q \in Punchers, NEW d \in Paths
                 PROVE  /\ socket'[q][d].mate <= punch'[Mate(q)].round
                        /\ socket'[q][d].answer <= punch'[Mate(q)].round
      OBVIOUS
    <3>1. socket'[q][d] \in {socket[q][d], Shut} /\ punch'[Mate(q)].round = punch[Mate(q)].round
      BY Zenon, <1>5, <1>6, <1>9
    <3> QED
      BY <1>9, <3>1 DEF PunchInv, RoundsKnown, Shut
  <2>3. \A q \in Punchers : \A k \in kept'[q] :
          k.mine <= punch'[q].round /\ k.mate <= punch'[Mate(q)].round
    BY SMTT(30), <1>2, <1>5, <1>7, <1>9 DEF PunchInv, RoundsKnown
  <2> QED
    BY Zenon, <2>1, <2>2, <2>3 DEF RoundsKnown
<1>11. \A k \in kept[p] : k.mine < punch[p].round
  BY <1>1 DEF PunchInv, OnePerRound
<1>12. OnePerRound'
  <2> SUFFICES ASSUME NEW q \in Punchers
               PROVE  OnePerRound!(q)'
    BY DEF OnePerRound
  <2>1. CASE q = p
    <3>1. \A k, l \in kept[p] : k.mine = l.mine => k = l
      BY DEF PunchInv, OnePerRound
    <3>2. \A k \in kept[p] : k.mine # conn.mine
      BY SMTT(30), <1>2, <1>9, <1>11
    <3> QED
      BY Zenon, <1>5, <1>7, <2>1, <3>1, <3>2
  <2>2. CASE q # p
    BY SMTT(30), <1>5, <1>7, <2>2 DEF PunchInv, OnePerRound
  <2> QED
    BY <2>1, <2>2
<1>13. NoCrossing'
  <2>1. \A k \in kept[Mate(p)] : k.mine \in Nat /\ k.mate \in Nat /\ k.mate <= punch[p].round
    BY MateFacts, <1>9 DEF PunchInv, PunchType, RoundsKnown, Conns, Punchers
  <2>2. \A k \in kept[Mate(p)] : ~(conn.mine < k.mate)
    BY SMTT(30), <1>2, <1>9, <2>1
  <2>3. CASE p = "a"
    BY Zenon, <1>7, <2>2, <2>3, MateFacts DEF PunchInv, NoCrossing, Punchers
  <2>4. CASE p = "b"
    BY Zenon, <1>7, <2>2, <2>4, MateFacts DEF PunchInv, NoCrossing, Punchers
  <2> QED
    BY <2>3, <2>4 DEF Punchers
<1>14. HeldIsKept'
  <2> SUFFICES ASSUME NEW q \in Punchers
               PROVE  HeldIsKept!(q)'
    BY DEF HeldIsKept
  <2>1. CASE q = p
    BY Zenon, <1>2, <1>5, <1>7, <2>1 DEF Holding
  <2>2. CASE q # p
    <3>1. punch'[q] = punch[q] /\ kept'[q] = kept[q] /\ kept[Mate(q)] \subseteq kept'[Mate(q)]
      BY Zenon, <1>5, <1>7, <1>9, <2>2
    <3> QED
      BY <3>1 DEF PunchInv, HeldIsKept, Holding
  <2> QED
    BY <2>1, <2>2
<1>15. HeldIsOpen'
  <2> SUFFICES ASSUME NEW q \in Punchers
               PROVE  HeldIsOpen!(q)'
    BY DEF HeldIsOpen
  <2>1. CASE q = p
    BY SMTT(30), <1>1, <1>2, <1>5, <1>6, <2>1 DEF Holding, Shut
  <2>2. CASE q # p
    BY SMTT(30), <1>5, <1>6, <2>2 DEF PunchInv, HeldIsOpen, Holding
  <2> QED
    BY <2>1, <2>2
<1> QED
  BY Zenon, <1>8, <1>10, <1>12, <1>13, <1>14, <1>15 DEF PunchInv

\* Two peers that confirmed hold the two ends of one connection: each has seen
\* its end in the other's choices, choices of one round are one, and were the
\* rounds different the choices would cross.
LEMMA PunchAgreed == PunchInv => SameConnection
<1> SUFFICES ASSUME PunchInv PROVE SameConnection
  OBVIOUS
<1>1. KeptAlike
  <2> DEFINE x == punch["a"].winner
             y == punch["b"].winner
  <2> SUFFICES ASSUME \A p \in Punchers : punch[p].pc = "done" /\ punch[p].result = "Success"
               PROVE  x.path = y.path /\ x.mine = y.mate /\ x.mate = y.mine
    BY DEF KeptAlike
  <2>1. x \in kept["a"] /\ y \in kept["b"] /\ Mirror(x) \in kept["b"] /\ Mirror(y) \in kept["a"]
    BY MateFacts DEF PunchInv, HeldIsKept, Holding, Punchers
  <2>2. x.mine = punch["a"].round /\ y.mine = punch["b"].round
    BY DEF PunchInv, HeldIsKept, Holding, Punchers
  <2>3. kept["a"] \subseteq Conns /\ kept["b"] \subseteq Conns
    BY DEF PunchInv, PunchType, Punchers
  <2>4. x \in Conns /\ y \in Conns
    BY <2>1, <2>3
  <2>5. x.mate <= y.mine /\ y.mate <= x.mine
    BY Zenon, <2>1, <2>2, MateFacts DEF PunchInv, RoundsKnown, Punchers
  <2> HIDE DEF x, y
  <2>6. /\ Mirror(x).path = x.path /\ Mirror(x).mine = x.mate /\ Mirror(x).mate = x.mine
        /\ Mirror(y).path = y.path /\ Mirror(y).mine = y.mate /\ Mirror(y).mate = y.mine
    BY DEF Mirror
  <2>7. ~(Mirror(y).mine < Mirror(x).mate /\ Mirror(x).mine < Mirror(y).mate)
    BY <2>1 DEF PunchInv, NoCrossing
  <2>8. x.mine = y.mate \/ x.mate = y.mine
    BY SMTT(30), <2>4, <2>5, <2>6, <2>7 DEF Conns
  <2>9. CASE x.mine = y.mate
    <3>1. x = Mirror(y)
      BY SMTT(30), <2>1, <2>6, <2>9 DEF PunchInv, OnePerRound, Punchers
    <3> QED
      BY <2>6, <3>1
  <2>10. CASE x.mate = y.mine
    <3>1. y = Mirror(x)
      BY Zenon, <2>1, <2>6, <2>10 DEF PunchInv, OnePerRound, Punchers
    <3> QED
      BY Zenon, <2>6, <3>1
  <2> QED
    BY Zenon, <2>8, <2>9, <2>10
<1>2. SocketsSettled
  <2> SUFFICES ASSUME NEW p \in Punchers, punch[p].pc = "done"
               PROVE  Attempts(p) = IF punch[p].result = "Success" THEN {punch[p].winner.path} ELSE {}
    BY DEF SocketsSettled
  <2>1. \A c \in Paths : socket[p][c].state # "shut" <=>
                           punch[p].result = "Success" /\ c = punch[p].winner.path
    BY DEF PunchInv, HeldIsOpen, Holding
  <2>2. punch[p].result = "Success" => punch[p].winner.path \in Paths
    BY DEF PunchInv, HeldIsKept, Holding, PunchType, Conns
  <2> QED
    BY <2>1, <2>2 DEF Attempts
<1> QED
  BY <1>1, <1>2 DEF SameConnection

\* Peers that both get a session from PunchSync hold the two ends of one
\* connection, and a punch that ends holds no other socket, whatever the paths,
\* the budgets, the reorderings and the ports that bind late (punch.cc:
\* RaceCandidatesOnce, RaceUntilPaired, WaitForPairing).
THEOREM SameConnectionTheorem == PunchSpec => []SameConnection
<1>1. PunchInv /\ [PunchNext]_punchVars => PunchInv'
  <2> SUFFICES ASSUME PunchInv, [PunchNext]_punchVars PROVE PunchInv'
    OBVIOUS
  <2>1. CASE PunchNext
    BY Zenon, <2>1, PunchRound, PunchPauses, PunchRefused, PunchSettles, PunchNetwork, PunchWins
    DEF PunchNext
  <2>2. CASE UNCHANGED punchVars
    BY <2>2 DEF punchVars, PunchInv, PunchType, RoundsKnown, OnePerRound, NoCrossing,
                HeldIsKept, HeldIsOpen, Holding
  <2> QED
    BY <2>1, <2>2
<1> QED
  BY <1>1, PunchStart, PunchAgreed, PTL DEF PunchSpec

-----------------------------------------------------------------------------
(***************************************************************************)
(* The locator: TcpLocator.  The events of a link and of its worker come    *)
(* from two threads, while the application may already be in the next call. *)
(***************************************************************************)

\* What is in the events' record, link by link.
Kinds == {"ready", "link failed", "not found", "punch failed", "connected", "closed"}
Told == [of : Nat, kind : Kinds]

EndedIn(s, n) == \E i \in 1..Len(s) : s[i].of = n /\ Terminal(s[i])
FailedIn(s, n) == \E i \in 1..Len(s) : s[i].of = n /\ s[i].kind = "link failed"
LastWord(s, n) ==
    \A i, j \in 1..Len(s) : s[i].of = n /\ s[j].of = n /\ Terminal(s[i]) => j <= i
CloseFollows(s, n) ==
    FailedIn(s, n) => \A i \in 1..Len(s) : s[i].of = n /\ Terminal(s[i]) => s[i].kind = "closed"

Kept == caller \notin {"destroy", "gone"}

LocatorType ==
    /\ locator \in [running : BOOLEAN, wake : BOOLEAN, offered : Offers, refused : BOOLEAN]
    /\ link \in [pc : {"idle", "connecting", "linked", "welcomed", "closing", "ended"}, of : Nat]
    /\ puncher \in [pc : {"none", "waiting", "join", "punch", "over"}, stop : BOOLEAN, of : Nat,
                    candidates : Offers]
    /\ told \in Seq(Told)
    /\ caller \in {"idle", "connect", "start", "wait", "destroy", "gone"}

(* A worker that waits, or is about to, finds the flag of a link that ended. *)
NoneLost == link.pc = "ended" /\ (puncher.pc = "waiting" \/ caller = "start") => locator.wake

(* Who may be where: one link and one worker are at work, the worker of the link
   except while Connect() is between the two; a wake, or a free locator, means
   that the link is over. *)
InStep ==
    /\ IF caller = "start"
       THEN /\ puncher.of + 1 = link.of
            /\ puncher.pc \in {"none", "punch", "over"}
            /\ link.pc # "idle"
       ELSE puncher.of = link.of
    /\ caller = "connect" => /\ puncher.pc # "waiting"
                             /\ link.pc \in {"ended", "idle"}
                             /\ ~locator.wake
                             /\ locator.offered = "none"
    /\ caller \in {"connect", "start"} \/ puncher.pc = "waiting" => locator.running
    /\ ~puncher.stop
    /\ ~locator.running \/ locator.wake \/ puncher.pc = "join" => link.pc \in {"ended", "idle"}
    /\ puncher.pc = "punch" /\ caller # "start" => link.pc \in {"ended", "idle"}
    /\ puncher.pc \in {"waiting", "join"} /\ link.pc = "idle" => caller = "wait"
    /\ link.pc \in {"connecting", "linked", "welcomed"} => locator.offered = "none"
    /\ puncher.pc = "none" => puncher.of = 0

(* What was said of each link: a link's thread speaks before its worker ends the
   link, and of the past links only the one still punched for has no end. *)
AllHeard ==
    /\ \A n \in Nat : LastWord(told, n) /\ CloseFollows(told, n)
    /\ \A n \in Nat : n > link.of => ~EndedIn(told, n) /\ ~FailedIn(told, n)
    /\ \A n \in 1..link.of : n < link.of /\ puncher.of # n => EndedIn(told, n)
    /\ EndedIn(told, puncher.of) <=> puncher.pc = "over"
    /\ caller = "start" \/ link.pc \in {"connecting", "linked", "welcomed", "closing"}
          => ~EndedIn(told, link.of)
    /\ link.pc \in {"connecting", "linked", "welcomed"} => ~FailedIn(told, link.of)
    /\ (puncher.pc = "waiting" \/ caller = "start") /\ FailedIn(told, link.of) => locator.offered = "none"
    /\ puncher.pc \in {"join", "punch"} => ~FailedIn(told, puncher.of)

LocatorInv == LocatorType /\ NoneLost /\ (Kept => InStep /\ AllHeard)

-----------------------------------------------------------------------------
(* An event that does not end its link leaves every link as ended as it was
   (FireFailed, PeerLocatorReadyEvent). *)
LEMMA Says ==
    ASSUME NEW s \in Seq(Told), NEW e \in Told, ~Terminal(e), ~EndedIn(s, e.of)
    PROVE  /\ Append(s, e) \in Seq(Told)
           /\ \A n \in Nat :
                /\ EndedIn(Append(s, e), n) <=> EndedIn(s, n)
                /\ FailedIn(Append(s, e), n)
                     <=> FailedIn(s, n) \/ (n = e.of /\ e.kind = "link failed")
                /\ LastWord(s, n) => LastWord(Append(s, e), n)
                /\ CloseFollows(s, n) => CloseFollows(Append(s, e), n)
<1> DEFINE t == Append(s, e)
<1>1. /\ t \in Seq(Told) /\ Len(s) \in Nat /\ Len(t) = Len(s) + 1
      /\ \A i \in 1..Len(s) : t[i] = s[i]
      /\ t[Len(s) + 1] = e
  BY AppendProperties
<1>a. /\ 1..Len(t) = 1..Len(s) \cup {Len(s) + 1}
      /\ \A i \in 1..Len(s) : i <= Len(s) + 1 /\ ~(Len(s) + 1 <= i)
  BY <1>1
<1> HIDE DEF t
<1>2. SUFFICES ASSUME NEW n \in Nat
               PROVE  /\ EndedIn(t, n) <=> EndedIn(s, n)
                      /\ FailedIn(t, n) <=> FailedIn(s, n) \/ (n = e.of /\ e.kind = "link failed")
                      /\ LastWord(s, n) => LastWord(t, n)
                      /\ CloseFollows(s, n) => CloseFollows(t, n)
  BY <1>1 DEF t
<1>3. EndedIn(t, n) <=> EndedIn(s, n)
  BY <1>1 DEF EndedIn
<1>4. FailedIn(t, n) <=> FailedIn(s, n) \/ (n = e.of /\ e.kind = "link failed")
  BY <1>1, <1>a, Zenon DEF FailedIn
<1>5. LastWord(s, n) => LastWord(t, n)
  BY <1>1 DEF LastWord, EndedIn
<1>6. CloseFollows(s, n) => CloseFollows(t, n)
  <2>1. CASE n = e.of
    BY <1>1, <2>1 DEF CloseFollows, EndedIn
  <2>2. CASE n # e.of
    BY <1>1, <1>a, <1>4, <2>2, Zenon DEF CloseFollows
  <2>3. QED BY <2>1, <2>2
<1>7. QED BY <1>3, <1>4, <1>5, <1>6

(* An event that ends its link, the first to do so, is its last; it is the close
   event unless the link never failed (the worker of Connect()). *)
LEMMA Finishes ==
    ASSUME NEW s \in Seq(Told), NEW e \in Told, Terminal(e), ~EndedIn(s, e.of),
           e.kind = "closed" \/ ~FailedIn(s, e.of)
    PROVE  /\ Append(s, e) \in Seq(Told)
           /\ \A n \in Nat :
                /\ EndedIn(Append(s, e), n) <=> EndedIn(s, n) \/ n = e.of
                /\ FailedIn(Append(s, e), n) <=> FailedIn(s, n)
                /\ LastWord(s, n) => LastWord(Append(s, e), n)
                /\ CloseFollows(s, n) => CloseFollows(Append(s, e), n)
<1> DEFINE t == Append(s, e)
<1>1. /\ t \in Seq(Told) /\ Len(s) \in Nat /\ Len(t) = Len(s) + 1
      /\ \A i \in 1..Len(s) : t[i] = s[i]
      /\ t[Len(s) + 1] = e
  BY AppendProperties
<1>a. /\ 1..Len(t) = 1..Len(s) \cup {Len(s) + 1}
      /\ \A i \in 1..Len(s) : i <= Len(s) + 1 /\ ~(Len(s) + 1 <= i)
  BY <1>1
<1> HIDE DEF t
<1>2. SUFFICES ASSUME NEW n \in Nat
               PROVE  /\ EndedIn(t, n) <=> EndedIn(s, n) \/ n = e.of
                      /\ FailedIn(t, n) <=> FailedIn(s, n)
                      /\ LastWord(s, n) => LastWord(t, n)
                      /\ CloseFollows(s, n) => CloseFollows(t, n)
  BY <1>1 DEF t
<1>3. EndedIn(t, n) <=> EndedIn(s, n) \/ n = e.of
  BY <1>1 DEF EndedIn
<1>4. FailedIn(t, n) <=> FailedIn(s, n)
  <2>1. e.kind # "link failed"
    BY DEF Terminal
  <2>2. QED BY <1>1, <1>a, <2>1, Zenon DEF FailedIn
<1>5. LastWord(s, n) => LastWord(t, n)
  BY <1>1 DEF LastWord, EndedIn
<1>6. CloseFollows(s, n) => CloseFollows(t, n)
  <2>1. CASE n = e.of
    BY <1>1, <1>4, <2>1 DEF CloseFollows, EndedIn
  <2>2. CASE n # e.of
    BY <1>1, <1>a, <1>4, <2>2, Zenon DEF CloseFollows
  <2>3. QED BY <2>1, <2>2
<1>7. QED BY Zenon, <1>3, <1>4, <1>5, <1>6

(* The numbers of links. *)
LEMMA LinkNumbers ==
    ASSUME NEW k \in Nat
    PROVE  /\ \A n \in Nat : n > k => n # k
           /\ \A n \in 1..k : n \in Nat
           /\ \A n \in Nat : n + 1 = k => n # k /\ n <= k
           /\ k <= k
  OBVIOUS

-----------------------------------------------------------------------------
(* The locator starts with nothing under way. *)
LEMMA LocatorStarts == LocatorInit => LocatorInv
<1> SUFFICES ASSUME LocatorInit PROVE LocatorInv
  OBVIOUS
<1>1. told \in Seq(Told) /\ 1..Len(told) = {}
  BY DEF LocatorInit
<1>2. \A n \in Nat : /\ ~EndedIn(told, n) /\ ~FailedIn(told, n)
                     /\ LastWord(told, n) /\ CloseFollows(told, n)
  BY <1>1, Zenon DEF EndedIn, FailedIn, LastWord, CloseFollows
<1>3. LocatorType
  BY <1>1 DEF LocatorInit, LocatorType, Offers
<1>4. NoneLost /\ InStep
  BY DEF LocatorInit, NoneLost, InStep
<1>5. AllHeard
  BY SMTT(30), <1>2 DEF LocatorInit, AllHeard
<1>6. QED BY <1>3, <1>4, <1>5 DEF LocatorInv

Silent ==
    \/ ConnectBegins \/ LinkRefused \/ LinkStarts \/ WorkerStarts
    \/ WaitLink \/ WaitWorker \/ LocatorDestroyed \/ LocatorGone
    \/ OnConnect \/ OnPunchOffer \/ LinkLost \/ OnDisconnect \/ WorkerJoins

(* The calls of the application, and the steps of the threads that tell nothing. *)
LEMMA SilentKeeps ==
    ASSUME LocatorInv, Silent
    PROVE  LocatorInv'
<1> USE DEF LocatorInv, LocatorType, NoneLost, Offers
<1>1. CASE ConnectBegins
  <2>1. LocatorType'
    BY <1>1 DEF ConnectBegins
  <2>2. NoneLost'
    BY <1>1 DEF ConnectBegins, Kept, InStep
  <2>3. Kept' => InStep'
    BY <1>1 DEF ConnectBegins, Kept, InStep
  <2>4. Kept' => AllHeard'
    BY <1>1 DEF ConnectBegins, Kept, InStep, AllHeard
  <2>5. QED BY <2>1, <2>2, <2>3, <2>4
<1>2. CASE LinkRefused
  <2>1. LocatorType'
    BY <1>2 DEF LinkRefused
  <2>2. NoneLost'
    BY <1>2 DEF LinkRefused, Kept, InStep
  <2>3. Kept' => InStep'
    BY <1>2 DEF LinkRefused, Kept, InStep
  <2>4. Kept' => AllHeard'
    BY <1>2 DEF LinkRefused, Kept, InStep, AllHeard
  <2>5. QED BY <2>1, <2>2, <2>3, <2>4
<1>3. CASE LinkStarts
  <2>1. LocatorType'
    <3>1. link.of \in Nat
      OBVIOUS
    <3> DEFINE k == link.of + 1
    <3>k. k \in Nat
      BY ONLY <3>1
    <3> HIDE DEF k
    <3>2. link' = [pc |-> "connecting", of |-> k] /\ UNCHANGED <<locator, puncher, told>>
      BY <1>3 DEF LinkStarts, k
    <3>3. link' \in [pc : {"idle", "connecting", "linked", "welcomed", "closing", "ended"}, of : Nat]
      BY ONLY <3>k, <3>2
    <3>4. caller' = "start"
      BY <1>3 DEF LinkStarts
    <3>5. QED BY <3>2, <3>3, <3>4
  <2>2. NoneLost'
    BY <1>3 DEF LinkStarts, Kept, InStep
  <2>3. Kept' => InStep'
    BY <1>3 DEF LinkStarts, Kept, InStep
  <2>4. AllHeard'
    <3>1. /\ link'.pc = "connecting" /\ link'.of = link.of + 1 /\ link.pc = "idle"
          /\ puncher' = puncher /\ told' = told /\ locator' = locator
          /\ puncher.of = link.of /\ link.of \in Nat
          /\ puncher.pc \notin {"waiting", "join"}
          /\ locator.offered = "none"
      BY <1>3 DEF LinkStarts, Kept, InStep
    <3>2. AllHeard
      BY <1>3 DEF LinkStarts, Kept
    <3> DEFINE k == link.of + 1
    <3>k. /\ k \in Nat /\ k > link.of
          /\ \A n \in 1..k : n < k /\ n # link.of => n \in 1..link.of /\ n < link.of
          /\ \A n \in Nat : n > k => n > link.of
      BY ONLY <3>1
    <3> HIDE DEF k
    <3>3. ~EndedIn(told, k) /\ ~FailedIn(told, k)
      BY ONLY <3>k, <3>2, Zenon DEF AllHeard
    <3>4. \A n \in 1..k : n < k /\ puncher.of # n => EndedIn(told, n)
      BY ONLY <3>1, <3>k, <3>2, Zenon DEF AllHeard
    <3>5. \A n \in Nat : n > k => ~EndedIn(told, n) /\ ~FailedIn(told, n)
      BY ONLY <3>1, <3>k, <3>2, Zenon DEF AllHeard
    <3>6. link'.of = k
      BY <3>1 DEF k
    <3>7. QED BY ONLY Zenon, <3>1, <3>2, <3>3, <3>4, <3>5, <3>6 DEF AllHeard
  <2>5. QED BY <2>1, <2>2, <2>3, <2>4
<1>4. CASE WorkerStarts
  <2>1. LocatorType'
    BY <1>4 DEF WorkerStarts
  <2>2. NoneLost'
    BY <1>4 DEF WorkerStarts, Kept, InStep
  <2>3. Kept' => InStep'
    BY <1>4 DEF WorkerStarts, Kept, InStep
  <2>4. AllHeard'
    <3>1. /\ puncher'.pc = "waiting" /\ puncher'.of = link.of
          /\ link' = link /\ told' = told /\ locator' = locator
          /\ puncher.pc \in {"none", "over"} /\ caller = "start"
          /\ puncher.of + 1 = link.of /\ link.of \in Nat
          /\ puncher.pc = "none" => puncher.of = 0
      BY <1>4 DEF WorkerStarts, Kept, InStep
    <3>2. AllHeard
      BY <1>4 DEF WorkerStarts, Kept
    <3>3. ~EndedIn(told, link.of)
      BY <3>1, <3>2 DEF AllHeard
    <3>4. \A n \in 1..link.of : n < link.of => EndedIn(told, n)
      <4>1. \A n \in 1..link.of : puncher.of = n => puncher.pc = "over"
        BY ONLY SMTT(30), <3>1
      <4>2. QED BY ONLY <3>2, <4>1, Zenon DEF AllHeard
    <3>5. QED BY ZenonT(60), <3>1, <3>2, <3>3, <3>4 DEF AllHeard
  <2>5. QED BY <2>1, <2>2, <2>3, <2>4
<1>5. CASE WaitLink
  <2>1. LocatorType'
    BY <1>5 DEF WaitLink
  <2>2. NoneLost'
    BY <1>5 DEF WaitLink, Kept, InStep
  <2>3. Kept' => InStep'
    BY <1>5 DEF WaitLink, Kept, InStep
  <2>4. Kept' => AllHeard'
    BY <1>5 DEF WaitLink, Kept, InStep, AllHeard
  <2>5. QED BY <2>1, <2>2, <2>3, <2>4
<1>6. CASE WaitWorker
  <2>1. LocatorType'
    BY ZenonT(60), <1>6 DEF WaitWorker
  <2>2. NoneLost'
    BY <1>6 DEF WaitWorker, Kept, InStep
  <2>3. Kept' => InStep'
    BY <1>6 DEF WaitWorker, Kept, InStep
  <2>4. Kept' => AllHeard'
    BY <1>6 DEF WaitWorker, Kept, InStep, AllHeard
  <2>5. QED BY <2>1, <2>2, <2>3, <2>4
<1>7. CASE LocatorDestroyed
  <2>1. LocatorType'
    BY <1>7 DEF LocatorDestroyed
  <2>2. NoneLost'
    BY <1>7 DEF LocatorDestroyed, Kept, InStep
  <2>3. Kept' => InStep'
    BY <1>7 DEF LocatorDestroyed, Kept, InStep
  <2>4. Kept' => AllHeard'
    BY <1>7 DEF LocatorDestroyed, Kept, InStep, AllHeard
  <2>5. QED BY <2>1, <2>2, <2>3, <2>4
<1>8. CASE LocatorGone
  <2>1. LocatorType'
    BY <1>8 DEF LocatorGone
  <2>2. NoneLost'
    BY <1>8 DEF LocatorGone, Kept, InStep
  <2>3. Kept' => InStep'
    BY <1>8 DEF LocatorGone, Kept, InStep
  <2>4. Kept' => AllHeard'
    BY <1>8 DEF LocatorGone, Kept, InStep, AllHeard
  <2>5. QED BY <2>1, <2>2, <2>3, <2>4
<1>9. CASE OnConnect
  <2>1. LocatorType'
    BY ZenonT(60), <1>9 DEF OnConnect
  <2>2. NoneLost'
    BY <1>9 DEF OnConnect, Kept, InStep
  <2>3. Kept' => InStep'
    BY <1>9 DEF OnConnect, Kept, InStep
  <2>4. Kept' => AllHeard'
    BY <1>9 DEF OnConnect, Kept, InStep, AllHeard
  <2>5. QED BY <2>1, <2>2, <2>3, <2>4
<1>10. CASE OnPunchOffer
  <2>1. LocatorType'
    BY <1>10 DEF OnPunchOffer
  <2>2. NoneLost'
    BY <1>10 DEF OnPunchOffer, Kept, InStep
  <2>3. Kept' => InStep'
    BY <1>10 DEF OnPunchOffer, Kept, InStep
  <2>4. Kept' => AllHeard'
    BY <1>10 DEF OnPunchOffer, Kept, InStep, AllHeard
  <2>5. QED BY <2>1, <2>2, <2>3, <2>4
<1>11. CASE LinkLost
  <2>1. LocatorType'
    BY ZenonT(60), <1>11 DEF LinkLost
  <2>2. NoneLost'
    BY <1>11 DEF LinkLost, Kept, InStep
  <2>3. Kept' => InStep'
    BY <1>11 DEF LinkLost, Kept, InStep
  <2>4. Kept' => AllHeard'
    BY <1>11 DEF LinkLost, Kept, InStep, AllHeard
  <2>5. QED BY <2>1, <2>2, <2>3, <2>4
<1>12. CASE OnDisconnect
  <2>1. LocatorType'
    BY <1>12 DEF OnDisconnect
  <2>2. NoneLost'
    BY <1>12 DEF OnDisconnect, Kept, InStep
  <2>3. Kept' => InStep'
    BY <1>12 DEF OnDisconnect, Kept, InStep
  <2>4. Kept' => AllHeard'
    BY <1>12 DEF OnDisconnect, Kept, InStep, AllHeard
  <2>5. QED BY <2>1, <2>2, <2>3, <2>4
<1>13. CASE WorkerJoins
  <2>1. LocatorType'
    BY <1>13 DEF WorkerJoins
  <2>2. NoneLost'
    BY <1>13 DEF WorkerJoins, Kept, InStep
  <2>3. Kept' => InStep'
    BY <1>13 DEF WorkerJoins, Kept, InStep
  <2>4. Kept' => AllHeard'
    BY <1>13 DEF WorkerJoins, Kept, InStep, AllHeard
  <2>5. QED BY <2>1, <2>2, <2>3, <2>4
<1>14. QED
  BY <1>1, <1>2, <1>3, <1>4, <1>5, <1>6, <1>7, <1>8, <1>9, <1>10, <1>11, <1>12, <1>13 DEF Silent

(* The link could not be made, or the rendezvous is of another kind: the failure is
   told before the link ends (OnConnectionFailedEvent, OnWelcome). *)
LEMMA LinkSpeaks ==
    ASSUME LocatorInv, OnConnectionFailed \/ OnWelcome \/ OnPeerNotFound
    PROVE  LocatorInv'
<1> USE DEF LocatorInv, LocatorType, NoneLost, Offers
<1>1. PICK kind \in {"link failed", "ready", "not found"} :
        /\ told' = Append(told, Event(link.of, kind))
        /\ kind = "link failed" => link.pc \in {"connecting", "linked"} /\ link'.pc \in {"ended", "closing"}
  BY DEF OnConnectionFailed, OnWelcome, OnPeerNotFound, FireFailed
<1> DEFINE e == Event(link.of, kind)
<1>2. e \in Told /\ ~Terminal(e) /\ e.of = link.of /\ e.kind = kind
  <2>1. link.of \in Nat
    OBVIOUS
  <2>a. kind \in Kinds
    BY <1>1 DEF Kinds
  <2>2. e = [of |-> link.of, kind |-> kind]
    BY DEF Event
  <2>3. kind \notin {"connected", "closed"}
    BY <1>1
  <2>4. QED BY ONLY <2>1, <2>a, <2>2, <2>3 DEF Told, Terminal, Event
<1> HIDE DEF e
<1>3. /\ link.pc \in {"connecting", "linked", "welcomed"}
      /\ link'.of = link.of /\ puncher' = puncher /\ caller' = caller
      /\ \/ locator' = locator /\ link'.pc \in {"welcomed", "closing"}
         \/ locator' = [locator EXCEPT !.wake = TRUE] /\ link'.pc = "ended"
  <2>1. CASE OnConnectionFailed
    BY <2>1 DEF OnConnectionFailed
  <2>2. CASE OnWelcome
    BY <2>2 DEF OnWelcome
  <2>3. CASE OnPeerNotFound
    BY <2>3 DEF OnPeerNotFound
  <2>4. QED BY <2>1, <2>2, <2>3
<1>4. LocatorType'
  <2>1. told' \in Seq(Told)
    BY <1>1, <1>2, AppendProperties DEF e
  <2>2. link' \in [pc : {"idle", "connecting", "linked", "welcomed", "closing", "ended"}, of : Nat]
    BY DEF OnConnectionFailed, OnWelcome, OnPeerNotFound
  <2>3. QED BY <1>3, <2>1, <2>2
<1>5. NoneLost'
  BY <1>3
<1>6. Kept' => InStep'
  BY <1>3 DEF Kept, InStep
<1>7. ASSUME Kept' PROVE AllHeard'
  <2>1. Kept /\ AllHeard /\ InStep
    BY <1>3, <1>7 DEF Kept
  <2>2. link.of \in Nat /\ puncher.of \in Nat
    OBVIOUS
  <2>3. ~EndedIn(told, link.of) /\ ~FailedIn(told, link.of)
    BY <1>3, <2>1 DEF AllHeard
  <2>4. told' = Append(told, e)
    BY <1>1 DEF e
  <2>5. \A n \in Nat : /\ EndedIn(told', n) <=> EndedIn(told, n)
                       /\ FailedIn(told', n) <=> FailedIn(told, n) \/ (n = link.of /\ kind = "link failed")
                       /\ LastWord(told', n) /\ CloseFollows(told', n)
    <3>1. told \in Seq(Told) /\ ~EndedIn(told, e.of)
      BY <1>2, <2>3
    <3>2. \A n \in Nat : LastWord(told, n) /\ CloseFollows(told, n)
      BY <2>1, Zenon DEF AllHeard
    <3>3. QED BY ONLY <1>2, <2>4, <3>1, <3>2, Says, Zenon
  <2>6. /\ locator'.offered = locator.offered
        /\ locator.offered = "none"
        /\ puncher.pc \in {"join", "punch"} => link.of # puncher.of
    <3>1. locator'.offered = locator.offered
      BY <1>3
    <3>2. locator.offered = "none" /\ puncher.pc # "join"
      BY <1>3, <2>1 DEF InStep
    <3>3. puncher.pc = "punch" => caller = "start"
      BY <1>3, <2>1 DEF InStep
    <3>4. caller = "start" => puncher.of + 1 = link.of
      BY <2>1 DEF InStep
    <3>5. caller = "start" => puncher.of # link.of
      BY ONLY <2>2, <3>4, LinkNumbers, Zenon
    <3>6. QED BY ONLY <3>1, <3>2, <3>3, <3>5
  <2>7. /\ \A n \in Nat : n > link'.of => ~EndedIn(told', n) /\ ~FailedIn(told', n)
        /\ \A n \in 1..link'.of : n < link'.of /\ puncher'.of # n => EndedIn(told', n)
    <3>1. \A n \in Nat : n > link.of => n # link.of
      BY ONLY <2>2, LinkNumbers, Zenon
    <3>2. \A n \in 1..link.of : n \in Nat
      BY ONLY <2>2, LinkNumbers, Zenon
    <3>3. QED BY ONLY <1>3, <2>1, <2>5, <3>1, <3>2, Zenon DEF AllHeard
  <2>8. EndedIn(told', puncher'.of) <=> puncher'.pc = "over"
    BY <1>3, <2>1, <2>2, <2>5 DEF AllHeard
  <2>9. ~EndedIn(told', link'.of)
    BY <1>3, <2>2, <2>3, <2>5
  <2>10. link'.pc \in {"connecting", "linked", "welcomed"} => ~FailedIn(told', link'.of)
    BY <1>1, <1>3, <2>2, <2>3, <2>5
  <2>11. puncher'.pc \in {"join", "punch"} => ~FailedIn(told', puncher'.of)
    BY ZenonT(60), <1>3, <2>1, <2>2, <2>5, <2>6 DEF AllHeard
  <2>12. QED BY <2>5, <2>6, <2>7, <2>8, <2>9, <2>10, <2>11 DEF AllHeard
<1>8. QED BY <1>4, <1>5, <1>6, <1>7

(* Two events fired in a row are two appends. *)
LEMMA TwoEvents ==
    ASSUME NEW s \in Seq(Told), NEW a \in Told, NEW b \in Told
    PROVE  s \o <<a, b>> = Append(Append(s, a), b)
<1> DEFINE y == <<a, b>>
           u == Append(s, a)
           x == Append(u, b)
           z == s \o y
<1>1. y \in Seq(Told) /\ Len(y) = 2 /\ y[1] = a /\ y[2] = b /\ Len(s) \in Nat
  OBVIOUS
<1>2. /\ u \in Seq(Told) /\ Len(u) = Len(s) + 1 /\ u[Len(s) + 1] = a
      /\ \A i \in 1..Len(s) : u[i] = s[i]
  BY AppendProperties
<1> HIDE DEF u, y
<1>3. /\ x \in Seq(Told) /\ Len(x) = Len(u) + 1 /\ x[Len(u) + 1] = b
      /\ \A i \in 1..Len(u) : x[i] = u[i]
  BY <1>2, AppendProperties
<1>4. /\ z \in Seq(Told) /\ Len(z) = Len(s) + Len(y)
      /\ \A i \in 1..(Len(s) + Len(y)) : z[i] = IF i <= Len(s) THEN s[i] ELSE y[i - Len(s)]
  BY Zenon, <1>1, ConcatProperties
<1> HIDE DEF x, z
<1>5. Len(z) = Len(x) /\ \A i \in 1..Len(z) : z[i] = x[i]
  <2>1. Len(z) = Len(x)
    BY <1>1, <1>2, <1>3, <1>4
  <2>2. ASSUME NEW i \in 1..Len(z) PROVE z[i] = x[i]
    <3>1. CASE i \in 1..Len(s)
      BY SMTT(30), <1>1, <1>2, <1>3, <1>4, <3>1
    <3>2. CASE i = Len(s) + 1
      BY SMTT(30), <1>1, <1>2, <1>3, <1>4, <3>2
    <3>3. CASE i = Len(s) + 2
      BY SMTT(30), <1>1, <1>2, <1>3, <1>4, <3>3
    <3>4. QED BY SMTT(30), <1>1, <1>4, <3>1, <3>2, <3>3
  <2>3. QED BY <2>1, <2>2
<1>6. QED BY Zenon, <1>3, <1>4, <1>5, SeqEqual DEF x, y, z, u

(* What the worker says last: the close event, after the reason if there is one, or
   the peer, if the link did not fail (the worker of Connect()). *)
LEMMA WorkerEnds ==
    ASSUME NEW s \in Seq(Told), NEW m \in Nat, NEW t, ~EndedIn(s, m),
           \/ t = Append(s, Event(m, "closed"))
           \/ t = s \o <<Event(m, "punch failed"), Event(m, "closed")>>
           \/ t = Append(s, Event(m, "connected")) /\ ~FailedIn(s, m)
    PROVE  \A n \in Nat :
              /\ EndedIn(t, n) <=> EndedIn(s, n) \/ n = m
              /\ FailedIn(t, n) <=> FailedIn(s, n)
              /\ LastWord(s, n) => LastWord(t, n)
              /\ CloseFollows(s, n) => CloseFollows(t, n)
<1> DEFINE c == Event(m, "closed")
           p == Event(m, "punch failed")
           d == Event(m, "connected")
<1>1. /\ c \in Told /\ Terminal(c) /\ c.of = m /\ c.kind = "closed"
      /\ p \in Told /\ ~Terminal(p) /\ p.of = m /\ p.kind # "link failed"
      /\ d \in Told /\ Terminal(d) /\ d.of = m
  BY DEF Event, Told, Kinds, Terminal
<1> HIDE DEF c, p, d
<1>2. s \o <<p, c>> = Append(Append(s, p), c)
  BY <1>1, TwoEvents
<1>3. CASE t = Append(s, c)
  BY <1>1, <1>3, Finishes, ZenonT(60)
<1>4. CASE t = Append(s, d) /\ ~FailedIn(s, m)
  BY <1>1, <1>4, Finishes, ZenonT(60)
<1>5. CASE t = s \o <<p, c>>
  <2> DEFINE u == Append(s, p)
  <2>1. /\ u \in Seq(Told)
        /\ \A n \in Nat : /\ EndedIn(u, n) <=> EndedIn(s, n)
                          /\ FailedIn(u, n) <=> FailedIn(s, n)
                          /\ LastWord(s, n) => LastWord(u, n)
                          /\ CloseFollows(s, n) => CloseFollows(u, n)
    BY <1>1, Says, ZenonT(60)
  <2>2. t = Append(u, c)
    BY <1>2, <1>5
  <2> HIDE DEF u
  <2>3. ~EndedIn(u, c.of)
    BY <1>1, <2>1
  <2>4. \A n \in Nat : /\ EndedIn(t, n) <=> EndedIn(u, n) \/ n = m
                       /\ FailedIn(t, n) <=> FailedIn(u, n)
                       /\ LastWord(u, n) => LastWord(t, n)
                       /\ CloseFollows(u, n) => CloseFollows(t, n)
    BY <1>1, <2>1, <2>2, <2>3, Finishes, ZenonT(60)
  <2>5. QED BY <2>1, <2>4, Zenon
<1>6. QED BY <1>3, <1>4, <1>5 DEF c, p, d

(* A worker that ends has its link over and tells it, once (the worker of
   Connect()). *)
LEMMA WorkerSpeaks ==
    ASSUME LocatorInv, WorkerWakes \/ PunchEnds
    PROVE  LocatorInv'
<1> USE DEF LocatorInv, LocatorType, NoneLost, Offers
<1> DEFINE m == puncher.of
           c == Event(m, "closed")
           p == Event(m, "punch failed")
           d == Event(m, "connected")
<1>1. m \in Nat /\ link.of \in Nat
  OBVIOUS
<1>2. c \in Told /\ p \in Told /\ d \in Told
  BY ONLY <1>1 DEF Event, Told, Kinds
<1>3. link' = link /\ caller' = caller
  BY DEF WorkerWakes, PunchEnds
<1>4. \/ puncher.pc = "waiting" /\ puncher' = [puncher EXCEPT !.pc = "join", !.candidates = "candidates"]
         /\ told' = told /\ ~puncher.stop /\ locator.offered = "candidates"
      \/ puncher.pc = "waiting" /\ puncher' = [puncher EXCEPT !.pc = "over"]
         /\ (told' = Append(told, c) \/ told' = told \o <<p, c>>)
      \/ puncher.pc = "punch" /\ puncher' = [puncher EXCEPT !.pc = "over"]
         /\ (told' = told \o <<p, c>> \/ told' = Append(told, d))
  BY DEF WorkerWakes, PunchEnds, CloseEvent, Over, FireFailed
<1>5. \/ puncher.pc = "waiting" /\ (locator.wake \/ puncher.stop)
         /\ locator' = [locator EXCEPT !.running = FALSE]
      \/ puncher.pc = "punch" /\ locator' = locator
  BY DEF WorkerWakes, PunchEnds
<1> HIDE DEF c, p, d
<1>6. told' \in Seq(Told)
  <2>1. told \in Seq(Told)
    OBVIOUS
  <2>2. told \o <<p, c>> = Append(Append(told, p), c)
    BY ONLY <1>2, <2>1, TwoEvents
  <2>3. /\ Append(told, p) \in Seq(Told) /\ Append(told, c) \in Seq(Told)
        /\ Append(told, d) \in Seq(Told)
    BY ONLY Zenon, <1>2, <2>1, AppendProperties
  <2>4. Append(Append(told, p), c) \in Seq(Told)
    BY ONLY <1>2, <2>3, AppendProperties
  <2>5. QED BY <1>4, <2>1, <2>2, <2>3, <2>4
<1>7. LocatorType'
  BY ZenonT(60), <1>3, <1>4, <1>5, <1>6
<1>8. NoneLost'
  BY <1>3, <1>4, <1>5
<1>9. Kept' => InStep'
  BY ZenonT(60), <1>3, <1>4, <1>5 DEF Kept, InStep
<1>10. ASSUME Kept' PROVE AllHeard'
  <2>1. Kept /\ InStep /\ AllHeard
    BY <1>3, <1>10 DEF Kept
  <2>2. m = puncher'.of /\ locator'.offered = locator.offered
    BY <1>4, <1>5
  <2>3. caller # "start" => m = link.of
    BY <2>1 DEF InStep
  <2> HIDE DEF m
  <2>4. CASE puncher'.pc = "join"
    <3>1. told' = told /\ puncher.pc = "waiting" /\ locator.offered = "candidates" /\ caller # "start"
      BY <1>4, <2>1, <2>4 DEF InStep
    <3>2. ~FailedIn(told, m)
      BY <2>1, <2>3, <3>1 DEF AllHeard
    <3>3. QED BY <1>3, <2>1, <2>2, <2>4, <3>1, <3>2 DEF AllHeard, m
  <2>5. CASE puncher'.pc = "over"
    <3>1. /\ ~EndedIn(told, m) /\ puncher.pc \in {"waiting", "punch"}
          /\ puncher.pc = "punch" => ~FailedIn(told, m)
      BY <1>4, <2>1, <2>5 DEF AllHeard, m
    <3>2. \A n \in Nat : /\ EndedIn(told', n) <=> EndedIn(told, n) \/ n = m
                         /\ FailedIn(told', n) <=> FailedIn(told, n)
                         /\ LastWord(told, n) => LastWord(told', n)
                         /\ CloseFollows(told, n) => CloseFollows(told', n)
      <4>1. \/ told' = Append(told, c)
            \/ told' = told \o <<p, c>>
            \/ told' = Append(told, d) /\ ~FailedIn(told, m)
        BY <1>4, <2>5, <3>1
      <4>2. told \in Seq(Told)
        OBVIOUS
      <4>3. QED BY ONLY <1>1, <3>1, <4>1, <4>2, WorkerEnds, Zenon DEF c, p, d
    <3>3. \A n \in Nat : LastWord(told', n) /\ CloseFollows(told', n)
      BY ONLY <2>1, <3>2, Zenon DEF AllHeard
    <3>4. /\ m <= link.of
          /\ caller = "start" \/ link.pc \in {"connecting", "linked", "welcomed", "closing"} => m # link.of
      <4>1. caller = "start" => m + 1 = link.of
        BY <2>1 DEF InStep, m
      <4>2. m # link.of => caller = "start"
        BY <2>3
      <4>3. link.pc \in {"connecting", "linked", "welcomed", "closing"} => caller = "start"
        BY <1>4, <1>5, <2>1, <3>1 DEF InStep
      <4>4. QED BY ONLY <1>1, <4>1, <4>2, <4>3, LinkNumbers, Zenon
    <3>5. \A n \in Nat : n > link.of => n # m
      BY ONLY <1>1, <3>4
    <3>6. \A n \in Nat : n > link'.of => ~EndedIn(told', n) /\ ~FailedIn(told', n)
      BY ONLY <1>3, <2>1, <3>2, <3>5, Zenon DEF AllHeard
    <3>7. \A n \in 1..link'.of : n < link'.of /\ puncher'.of # n => EndedIn(told', n)
      <4>1. \A n \in 1..link.of : n \in Nat
        BY ONLY <1>1, LinkNumbers, Zenon
      <4>2. QED BY ONLY <1>3, <2>1, <2>2, <3>2, <4>1, Zenon DEF AllHeard, m
    <3>8. EndedIn(told', puncher'.of)
      BY <1>1, <2>2, <3>2
    <3>9. caller' = "start" \/ link'.pc \in {"connecting", "linked", "welcomed", "closing"}
            => ~EndedIn(told', link'.of)
      BY ZenonT(60), <1>1, <1>3, <2>1, <3>2, <3>4 DEF AllHeard
    <3>10. link'.pc \in {"connecting", "linked", "welcomed"} => ~FailedIn(told', link'.of)
      BY ZenonT(60), <1>1, <1>3, <2>1, <3>2 DEF AllHeard
    <3>11. caller' = "start" /\ FailedIn(told', link'.of) => locator'.offered = "none"
      BY <1>1, <1>3, <2>1, <2>2, <3>2 DEF AllHeard
    <3>12. QED BY <2>5, <3>3, <3>6, <3>7, <3>8, <3>9, <3>10, <3>11 DEF AllHeard
  <2>6. QED BY <1>4, <2>4, <2>5
<1>11. QED BY <1>7, <1>8, <1>9, <1>10

(* Every step of the application, of the link's thread and of the worker. *)
LEMMA LocatorSteps == LocatorInv /\ [LocatorNext]_locatorVars => LocatorInv'
<1> SUFFICES ASSUME LocatorInv, [LocatorNext]_locatorVars PROVE LocatorInv'
  OBVIOUS
<1>1. CASE Silent
  BY <1>1, SilentKeeps
<1>2. CASE OnConnectionFailed \/ OnWelcome \/ OnPeerNotFound
  BY <1>2, LinkSpeaks
<1>3. CASE WorkerWakes \/ PunchEnds
  BY Zenon, <1>3, WorkerSpeaks
<1>4. CASE UNCHANGED locatorVars
  BY <1>4 DEF locatorVars, LocatorInv, LocatorType, NoneLost, Kept, InStep, AllHeard
<1>5. QED
  BY Zenon, <1>1, <1>2, <1>3, <1>4 DEF LocatorNext, Silent

(* The invariant is what LocatorOutcome says, for every link. *)
LEMMA InvariantTells == LocatorInv => LocatorOutcome
<1> SUFFICES ASSUME LocatorInv PROVE LocatorOutcome
  OBVIOUS
<1>1. /\ puncher.pc = "waiting" /\ puncher.of = link.of /\ link.pc = "ended" => locator.wake
      /\ link.of \in Nat
      /\ told \in Seq(Told)
  BY DEF LocatorInv, NoneLost, LocatorType
<1>2. DOMAIN told = 1..Len(told)
  BY SMTT(30), <1>1
<1>3. ASSUME Kept, NEW n \in 1..link.of
      PROVE  /\ \A i \in Ends(n), j \in EventsOf(n) : j <= i
             /\ (\E i \in EventsOf(n) : told[i].kind = "link failed") =>
                   \A i \in Ends(n) : told[i].kind = "closed"
             /\ puncher.pc = "over" /\ puncher.of = n => Ends(n) # {}
             /\ n < link.of /\ puncher.of # n => Ends(n) # {}
  <2>1. n \in Nat
    BY <1>1
  <2>2. /\ LastWord(told, n) /\ CloseFollows(told, n)
        /\ n < link.of /\ puncher.of # n => EndedIn(told, n)
        /\ puncher.pc = "over" => EndedIn(told, puncher.of)
    BY <1>3, <2>1, Zenon DEF LocatorInv, AllHeard
  <2>3. EndedIn(told, n) <=> Ends(n) # {}
    BY <1>2, Zenon DEF EndedIn, Ends, EventsOf
  <2>4. \A i \in Ends(n), j \in EventsOf(n) : j <= i
    BY <1>2, <2>2, Zenon DEF LastWord, Ends, EventsOf
  <2>5. (\E i \in EventsOf(n) : told[i].kind = "link failed") => \A i \in Ends(n) : told[i].kind = "closed"
    BY <1>2, <2>2, Zenon DEF CloseFollows, FailedIn, Ends, EventsOf
  <2>6. QED BY <2>2, <2>3, <2>4, <2>5
<1>4. QED BY <1>1, <1>3, Zenon DEF LocatorOutcome, Kept

(* Each Connect() that reached the rendezvous ends in one event, after which nothing
   more is heard of it, whatever the order of the link's thread, the worker and the
   application, and no worker waits for a link that is already over
   (tcp::PeerLocator, for any number of Connect() calls). *)
THEOREM LocatorOutcomeTheorem == LocatorSpec => []LocatorOutcome
<1>1. LocatorSpec => []LocatorInv
  BY LocatorStarts, LocatorSteps, PTL DEF LocatorSpec
<1>2. QED BY <1>1, InvariantTells, PTL
=============================================================================
