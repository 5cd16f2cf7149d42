---------------------------- MODULE ReplayStream ----------------------------
(***************************************************************************)
(* One stream's replay window fed with authenticated counters in any order, *)
(* repeats included, against the set of counters it should remember.        *)
(***************************************************************************)
EXTENDS ReplayWindow

CONSTANT MaxCounter   \* kMaxCounter: counters run from 0 to MaxCounter - 1

ASSUME ReplayAssumption == KWidth \in Nat \ {0} /\ MaxCounter \in Nat

VARIABLES win,        \* the stream's ReplayWindow
          accepted    \* history: the counters it let through

vars == <<win, accepted>>

Counter == 0..(MaxCounter - 1)

Init == win = FreshWindow /\ accepted = {}

Present(counter) ==
  IF Admits(win, counter)
  THEN win' = Accept(win, counter) /\ accepted' = accepted \cup {counter}
  ELSE UNCHANGED vars

Next == \E counter \in Counter : Present(counter)

Spec == Init /\ [][Next]_vars

\* The window is exactly the part of the accepted counters it can hold: the
\* highest one, and those among the KWidth below it.
WindowExact ==
  /\ win \in [seen : BOOLEAN, highest : Nat, window : SUBSET (1..KWidth)]
  /\ accepted \subseteq Counter
  /\ win.seen <=> accepted # {}
  /\ win.seen => /\ win.highest \in accepted
                 /\ \A c \in accepted : c <= win.highest
                 /\ win.window = {b \in 1..KWidth : b <= win.highest /\ win.highest - b \in accepted}

\* A counter that went through once never goes through again, however far the
\* stream moved on (ReplayWindow::Accept, "a repeat, or anything older, is
\* refused").
NeverTwice == \A c \in accepted : ~Admits(win, c)

\* A counter that was not seen and is at most KWidth behind the highest is let
\* through ("Reordering inside that window is accepted").
ReorderingAccepted ==
  \A c \in Counter \ accepted : c + KWidth >= win.highest => Admits(win, c)

\* ReplayWindow's promise in both directions: a repeat is refused, and a first
\* arrival within reach of the window is not.
ReplayExact == NeverTwice /\ ReorderingAccepted
=============================================================================
