----------------------------- MODULE MCZdtLink -----------------------------
(* ZdtLink with the plans its runs use.                                     *)
EXTENDS ZdtLink, TLC

Mode(rel, ord, frags) == [rel |-> rel, ord |-> ord, frags |-> frags]
Ordered == Mode(TRUE, TRUE, 1)
Unordered == Mode(TRUE, FALSE, 1)
Latest == Mode(FALSE, TRUE, 1)     \* sequenced
Loose == Mode(FALSE, FALSE, 1)
Pieces == Mode(TRUE, TRUE, 2)

\* A plan with these kinds and messages, and what differs from the usual one.
Plan(kinds, messages, changes) ==
  changes @@ [kinds |-> kinds, messages |-> messages, batch |-> 2, window |-> 2, retries |-> 2,
              probes |-> 0, capacity |-> 2, duplicates |-> 1, may |-> {}]

\* Three ordered messages; unordered next to sequenced ones; fragmented ones, of
\* which one can be reassembled at a time; unreliable fragments that time out;
\* and a message of more fragments than can be counted.
SafetyPlans ==
  {Plan({Ordered}, 3, [duplicates |-> 0]),
   Plan({Ordered}, 2, [duplicates |-> 1]),
   Plan({Unordered, Latest}, 3, [capacity |-> 1, duplicates |-> 0]),
   Plan({Unordered, Latest}, 2, [duplicates |-> 1]),
   Plan({Pieces}, 2, [batch |-> 1, window |-> 3, capacity |-> 1, duplicates |-> 0]),
   Plan({Mode(FALSE, FALSE, 2)}, 2, [duplicates |-> 0, may |-> {"expire"}]),
   Plan({Mode(TRUE, TRUE, 3)}, 1, [duplicates |-> 0])}

\* Two messages; one with every timer and a closing application.
LivePlans ==
  {Plan({Ordered}, 2, [duplicates |-> 0]),
   Plan({Ordered}, 1, [retries |-> 3, probes |-> 1, duplicates |-> 0, may |-> {"prune", "close"}])}

\* Plans under which a comment of the code does not hold.
MixedPlans == {Plan({Ordered, Unordered}, 3, [duplicates |-> 0])}
ExpiryPlans == {Plan({Ordered, Pieces}, 1, [retries |-> 3, may |-> {"expire"}])}
OversizedPlans == {Plan({Ordered, Mode(TRUE, TRUE, 3)}, 2, [duplicates |-> 0])}
SequencedPlans == {Plan({Latest, Loose}, 5, [capacity |-> 1, duplicates |-> 0])}
ForgottenPlans == {Plan({Ordered, Loose}, 3, [duplicates |-> 1])}
LatePlans == {Plan({Ordered}, 4, [duplicates |-> 1])}
=============================================================================
