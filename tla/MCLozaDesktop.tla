----------------------------- MODULE MCLozaDesktop -----------------------------
(***************************************************************************)
(* Instances of LozaTransfers and the sessions below it: a first start,    *)
(* starts with a session of an earlier one, and an open file section.      *)
(***************************************************************************)
EXTENDS LozaTransfers

CONSTANTS home, away, x, y

Bounds(acts, ticks, others, restarts, fails) ==
  [tokens |-> 8, acts |-> acts, ticks |-> ticks, others |-> others,
   restarts |-> restarts, fails |-> fails, sends |-> 0, cancels |-> 0]

First(left) == [url |-> None, store |-> 0, rows |-> {}, open |-> FALSE, left |-> left]
Again(left) ==
  [url |-> home, store |-> MaxTokens, open |-> FALSE, left |-> left,
   rows |-> {[token |-> MaxTokens, server |-> home, line |-> MaxTokens]}]
Files(left, s, n) ==
  [Again([left EXCEPT !.sends = s, !.cancels = n]) EXCEPT !.open = TRUE]

\* One start for each kind of trouble, with two bounds at a time. Eight tokens
\* are more than the commands of any start ask for.
MCStarts == {First(Bounds(4, 0, 0, 0, 0)),
             Again(Bounds(2, 0, 0, 0, 1)), Again(Bounds(1, 1, 0, 0, 1)),
             Again(Bounds(1, 0, 0, 1, 1)), Again(Bounds(1, 0, 1, 0, 1)),
             Files(Bounds(0, 0, 0, 0, 0), 2, 1), Files(Bounds(1, 0, 0, 0, 0), 2, 0),
             Files(Bounds(2, 0, 0, 0, 0), 1, 1), Files(Bounds(0, 0, 0, 1, 0), 1, 1)}

\* No bound is needed: the two refreshes of a start suffice.
MCRaceStarts == {Again(Bounds(0, 0, 0, 0, 0))}

MCCancelStarts == {Files(Bounds(0, 0, 0, 0, 0), 1, 1)}

=============================================================================
