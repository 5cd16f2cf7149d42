---------------------------- MODULE MCZdtConnect ----------------------------
\* ZdtConnect with values a configuration file cannot hold.
EXTENDS ZdtConnect

MCHome == [c \in Clients |-> IF c = "c1" THEN "a1" ELSE "a2"]
MCLadder == <<3, 2>>

\* Both clients connect to a server with room for one.
Opening == [clients |-> Clients, room |-> 1, migrates |-> FALSE, restarts |-> FALSE, faulty |-> {"request2"},
            rotations |-> 2, faults |-> 1, moves |-> 0, connects |-> 2]

\* A client moves, twice; no handshake datagram is repeated.
Moving == [clients |-> {"c1"}, room |-> 2, migrates |-> TRUE, restarts |-> FALSE,
           faulty |-> {"online", "challenge", "response"},
           rotations |-> 1, faults |-> 1, moves |-> 2, connects |-> 1]

Restarting == [Opening EXCEPT !.restarts = TRUE]
Repeating == [Moving EXCEPT !.faulty = {"request2"}]

MCPlans == {Opening, Moving}
MCRestart == {Restarting}
MCTwice == {Repeating}
=============================================================================
