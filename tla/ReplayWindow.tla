---------------------------- MODULE ReplayWindow ----------------------------
(***************************************************************************)
(* ReplayWindow::Accept (znet/encryption.h): the highest nonce counter      *)
(* accepted on a stream and which of the KWidth counters below it were.     *)
(* The code's bitmap is the set of its one bits: bit b - 1 of window_       *)
(* stands for the counter highest_ - b.                                     *)
(***************************************************************************)
EXTENDS Naturals

CONSTANT KWidth   \* kWidth, 64 in the code

FreshWindow == [seen |-> FALSE, highest |-> 0, window |-> {}]

\* What is left of the bitmap when the highest counter moves up by shift.
Shifted_DropsHighest(window, shift) == {b + shift : b \in window} \cap (1..KWidth)

Shifted(window, shift) ==
  IF shift > KWidth THEN {}
  ELSE IF shift = KWidth THEN {KWidth}
  ELSE ({b + shift : b \in window} \cap (1..KWidth)) \cup {shift}

\* Whether Accept returns true ...
Admits_OneTooFar(w, counter) ==
  \/ ~w.seen
  \/ counter > w.highest
  \/ w.highest - counter \in 1..(KWidth - 1) /\ w.highest - counter \notin w.window

Admits(w, counter) ==
  \/ ~w.seen
  \/ counter > w.highest
  \/ w.highest - counter \in 1..KWidth /\ w.highest - counter \notin w.window

\* ... and what it leaves behind when it does.
Accept(w, counter) ==
  IF ~w.seen THEN [seen |-> TRUE, highest |-> counter, window |-> {}]
  ELSE IF counter > w.highest
       THEN [w EXCEPT !.highest = counter,
                      !.window = Shifted(w.window, counter - w.highest)]
       ELSE [w EXCEPT !.window = @ \cup {w.highest - counter}]
=============================================================================
